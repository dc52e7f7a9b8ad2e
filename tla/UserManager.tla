---------------------------- MODULE UserManager ----------------------------
(***************************************************************************)
(* UserManager: the panel's user list, the inbounds that authenticate its   *)
(* users, and the rate limiters their connections hold.                     *)
(*                                                                         *)
(* ApplyBox compares a new list with the users it knows, updates limiters,  *)
(* then deletes and adds users inbound by inbound, and at the end takes the *)
(* new list for known.  An error of an inbound ends it half way.  It holds  *)
(* the manager's mutex throughout: connections that look up their limiter   *)
(* wait, but authentication and connections already open go on.             *)
(*                                                                         *)
(* UUID and password of a user are one secret here.  Secrets may pass from  *)
(* one user to another, and two users of a list may have the same one.      *)
(* What an inbound does with the users it is given is external: deleting a  *)
(* name removes every account of that name, adding adds, and a call that    *)
(* returns an error has done nothing.                                       *)
(***************************************************************************)
EXTENDS Integers, FiniteSets

CONSTANTS
    Ids,        \* user ids
    SecretsOf,  \* SecretsOf[id]: secrets the panel may give user id
    LimitsOf,   \* LimitsOf[id]: speed limits the panel may give; 0: none
    Inbounds,   \* inbounds of the box
    IdInbounds, \* inbounds that name a connection's user by its id
    Named,      \* users of the list carry their id as Name (Client.FetchUsers)
    Conns,      \* slots for concurrently open connections
    Gens,       \* limiters of one user that can be in use at once
    None,       \* nil
    MaxFaults   \* bound: lists that fail before one is applied

ASSUME ManagerAssumption ==
    /\ \A id \in Ids : LimitsOf[id] \subseteq Nat
    /\ Named \in BOOLEAN /\ MaxFaults \in Nat
    /\ IdInbounds \subseteq Inbounds

Limits  == UNION {LimitsOf[id] : id \in Ids}
Secrets == UNION {SecretsOf[id] : id \in Ids}
Entries == {u \in [id : Ids, secret : Secrets, limit : Limits] :
               u.secret \in SecretsOf[u.id] /\ u.limit \in LimitsOf[u.id]}
Lists   == {l \in SUBSET Entries : \A u, v \in l : u.id = v.id => u = v}

\* What an inbound holds of a user, and a limiter of a user.
Accounts == [id : Ids, secret : Secrets]
Limiters == [id : Ids, gen : Gens]

ASSUME NoneAssumption ==
    None \notin Ids \cup Limiters \cup Inbounds \cup [inbound : Inbounds, account : Accounts]

VARIABLES
    users,    \* the list the manager knows
    bySecret, \* bySecret[s]: the last user in it with secret s, or None
    limiters, \* limiters[id]: the user's limiter, or None
    rate,     \* rate[l]: rate of limiter l
    closed,   \* closed limiters that a connection holds
    auth,     \* auth[i]: accounts inbound i authenticates
    next,     \* the list ApplyBox is applying
    left,     \* inbounds ApplyBox has not finished
    half,     \* the inbound whose users were deleted, but not added yet
    pc,       \* "idle", or "apply" while ApplyBox holds the mutex
    conn,     \* conn[c]: inbound and account of a connection, or None
    routed,   \* connections that have looked up their limiter
    lim,      \* lim[c]: the limiter a routed connection holds, or None
    failed,   \* history: lists that failed since one was applied
    mixed,    \* history: a list was applied after another one had failed
    shared    \* history: a list had two users with one secret

known  == <<users, bySecret>>
limits == <<limiters, rate, closed>>
box    == <<auth, next, left, half, pc>>
conns  == <<conn, routed, lim>>
past   == <<failed, mixed, shared>>
vars   == <<known, limits, box, conns, past>>

Init ==
    /\ users = {} /\ next = {}
    /\ bySecret = [s \in Secrets |-> None]
    /\ limiters = [id \in Ids |-> None]
    /\ rate = [l \in Limiters |-> 0]
    /\ closed = {}
    /\ auth = [i \in Inbounds |-> {}]
    /\ left = {} /\ half = None /\ pc = "idle"
    /\ conn = [c \in Conns |-> None] /\ routed = {}
    /\ lim = [c \in Conns |-> None]
    /\ failed = {} /\ mixed = FALSE /\ shared = FALSE

IdsOf(list) == {u.id : u \in list}
Account(u)  == [id |-> u.id, secret |-> u.secret]

Held(l)  == \E c \in Conns : lim[c] = l
InUse(l) == limiters[l.id] = l \/ Held(l)

-----------------------------------------------------------------------------
(* ApplyBox *)

\* Mutant of Renewed: a changed speed limit gets a limiter of its own.
RenewedOnChange(id, list) ==
    \E u \in list : u.id = id /\ u.limit > 0
                    /\ (limiters[id] = None \/ rate[limiters[id]] # u.limit)

\* The user is given a new limiter.
Renewed(id, list) == \E u \in list : u.id = id /\ u.limit > 0 /\ limiters[id] = None

\* The user has no limiter any more: absent, or no speed limit.
Dropped(id, list) == ~\E u \in list : u.id = id /\ u.limit > 0

\* The part before the inbounds: closeLimiterLocked for absent users,
\* updateLimiterLocked for all others.
StartApply(list) ==
    /\ pc = "idle"
    /\ next' = list
    /\ pc' = "apply"
    /\ left' = Inbounds
    /\ \E gen \in [Ids -> Gens] :
         LET new(id)  == [id |-> id, gen |-> gen[id]]
             fresh    == {new(id) : id \in {id \in Ids : Renewed(id, list)}}
             limit(l) == (CHOOSE u \in list : u.id = l.id).limit
         IN  /\ \A l \in fresh : ~InUse(l)
             /\ limiters' = [id \in Ids |->
                               IF Dropped(id, list) THEN None
                               ELSE IF Renewed(id, list) THEN new(id) ELSE limiters[id]]
             /\ closed' = closed \cup {l \in Limiters :
                                          Held(l) /\ limiters[l.id] = l /\ Dropped(l.id, list)}
             /\ rate' = [l \in Limiters |-> IF limiters'[l.id] = l THEN limit(l)
                                            ELSE IF limiters[l.id] = l THEN 0 ELSE rate[l]]
    /\ shared' = (shared \/ \E u, v \in list : u # v /\ u.secret = v.secret)
    /\ UNCHANGED <<known, auth, half, conns, failed, mixed>>

\* Known users that are gone or whose secret changed; listed users that are new
\* or differ in anything, their speed limit included.
Deleted == {u \in users : Account(u) \notin {Account(v) : v \in next}}
Added   == {u \in next : u \notin users}

\* DelUsers of inbound i: Shadowsocks deletes by id, the others by secret.
DelUsers(i) ==
    /\ pc = "apply" /\ i \in left /\ half = None
    /\ auth' = [auth EXCEPT ![i] =
                  IF i \in IdInbounds THEN {a \in @ : a.id \notin IdsOf(Deleted)}
                  ELSE {a \in @ : a.secret \notin {u.secret : u \in Deleted}}]
    /\ half' = i
    /\ UNCHANGED <<known, limits, next, left, pc, conns, past>>

\* Mutant of AddUsers: half is not reset.
AddUsersKeepsHalf(i) ==
    /\ pc = "apply" /\ half = i
    /\ auth' = [auth EXCEPT ![i] = @ \cup {Account(u) : u \in Added}]
    /\ left' = left \ {i}
    /\ UNCHANGED <<known, limits, next, half, pc, conns, past>>

AddUsers(i) ==
    /\ pc = "apply" /\ half = i
    /\ auth' = [auth EXCEPT ![i] = @ \cup {Account(u) : u \in Added}]
    /\ left' = left \ {i}
    /\ half' = None
    /\ UNCHANGED <<known, limits, next, pc, conns, past>>

\* Mutant of ApplyFails: the list is taken for known before the inbounds.
ApplyFailsKnown ==
    /\ pc = "apply" /\ left # {}
    /\ Cardinality(failed \cup {next}) <= MaxFaults
    /\ failed' = failed \cup {next}
    /\ users' = next
    /\ pc' = "idle" /\ left' = {} /\ half' = None /\ next' = {}
    /\ UNCHANGED <<bySecret, limits, auth, conns, mixed, shared>>

\* DelUsers or AddUsers of an inbound returned an error.
ApplyFails ==
    /\ pc = "apply" /\ left # {}
    /\ IF half = None THEN Deleted # {} ELSE Added # {}
    /\ Cardinality(failed \cup {next}) <= MaxFaults
    /\ failed' = failed \cup {next}
    /\ pc' = "idle" /\ left' = {} /\ half' = None /\ next' = {}
    /\ UNCHANGED <<known, limits, auth, conns, mixed, shared>>

Apply ==
    /\ pc = "apply" /\ left = {}
    /\ users' = next
    /\ bySecret' \in {f \in [Secrets -> Ids \cup {None}] : \A s \in Secrets :
                        LET owners == {u.id : u \in {u \in next : u.secret = s}}
                        IN  IF owners = {} THEN f[s] = None ELSE f[s] \in owners}
    /\ mixed' = (mixed \/ \E l \in failed : l # next)
    /\ failed' = {}
    /\ pc' = "idle" /\ next' = {}
    /\ UNCHANGED <<limits, auth, left, half, conns, shared>>

-----------------------------------------------------------------------------
(* Connections *)

Authenticate(c, i, a) ==
    /\ conn[c] = None
    /\ a \in auth[i]
    /\ conn' = [conn EXCEPT ![c] = [inbound |-> i, account |-> a]]
    /\ UNCHANGED <<known, limits, box, routed, lim, past>>

\* Mutant of UserOf: only secrets are looked up.
UserOfSecret(i, a) == IF i \in IdInbounds THEN None ELSE bySecret[a.secret]

\* bySecret[user]: the name the inbound gave is a secret or, when the users are
\* named by their ids, an id.
UserOf(i, a) ==
    IF i \notin IdInbounds THEN bySecret[a.secret]
    ELSE IF Named /\ a.id \in IdsOf(users) THEN a.id
    ELSE None

LimiterFor(i, a) == IF UserOf(i, a) = None THEN None ELSE limiters[UserOf(i, a)]

\* RoutedConnection: DirectionalLimiters needs the mutex.
Route(c) ==
    /\ pc = "idle"
    /\ conn[c] # None /\ c \notin routed
    /\ routed' = routed \cup {c}
    /\ lim' = [lim EXCEPT ![c] = LimiterFor(conn[c].inbound, conn[c].account)]
    /\ UNCHANGED <<known, limits, box, conn, past>>

\* The connection ends; one with a closed limiter, at its next read or write.
Disconnect(c) ==
    /\ c \in routed
    /\ conn' = [conn EXCEPT ![c] = None]
    /\ routed' = routed \ {c}
    /\ lim' = [lim EXCEPT ![c] = None]
    /\ closed' = closed \ {l \in Limiters : l = lim[c] /\ ~\E d \in Conns \ {c} : lim[d] = l}
    /\ UNCHANGED <<known, limiters, rate, box, past>>

-----------------------------------------------------------------------------
Next ==
    \/ \E list \in Lists : StartApply(list)
    \/ \E i \in Inbounds : DelUsers(i) \/ AddUsers(i)
    \/ ApplyFails
    \/ Apply
    \/ \E c \in Conns :
          \/ \E i \in Inbounds, a \in Accounts : Authenticate(c, i, a)
          \/ Route(c)
          \/ Disconnect(c)

Spec == Init /\ [][Next]_vars

-----------------------------------------------------------------------------
(* Properties *)

TypeOK ==
    /\ users \in Lists /\ next \in Lists
    /\ bySecret \in [Secrets -> Ids \cup {None}]
    /\ limiters \in [Ids -> Limiters \cup {None}]
    /\ rate \in [Limiters -> Limits \cup {0}]
    /\ closed \subseteq Limiters
    /\ auth \in [Inbounds -> SUBSET Accounts]
    /\ left \subseteq Inbounds /\ half \in left \cup {None}
    /\ pc \in {"idle", "apply"}
    /\ conn \in [Conns -> [inbound : Inbounds, account : Accounts] \cup {None}]
    /\ routed \subseteq Conns
    /\ lim \in [Conns -> Limiters \cup {None}]
    /\ failed \subseteq Lists /\ mixed \in BOOLEAN /\ shared \in BOOLEAN

\* The limiter an open connection holds is closed or is the one its user has
\* now: a changed speed limit reaches connections opened before, and a limiter
\* that no update can reach any more lets nothing through.
HeldLimiterIsCurrent ==
    \A c \in Conns :
        lim[c] # None => lim[c] \in closed \/ limiters[lim[c].id] = lim[c]

\* The last call succeeded, no call before it failed on another list, and no
\* two users of a list had one secret: inbounds delete by secret, so a user loses
\* its account with the other one's and does not get it back.
Settled == pc = "idle" /\ failed = {} /\ ~mixed /\ ~shared

\* Then every inbound authenticates the listed users, no more and no less, and
\* each user has a limiter of its rate exactly if it has a speed limit: a call
\* that failed half way is made good by the next call with the same list, and a
\* secret that passed from one user to another has left the one it had.
AppliedExactly ==
    Settled =>
        /\ \A i \in Inbounds : auth[i] = {Account(u) : u \in users}
        /\ \A id \in Ids :
              limiters[id] # None <=> \E u \in users : u.id = id /\ u.limit > 0
        /\ \A u \in users :
              u.limit > 0 => limiters[u.id] \notin closed /\ rate[limiters[u.id]] = u.limit

\* Whatever inbound a limited user authenticates at, DirectionalLimiters finds
\* the limiter of that user by the name the inbound gives it, and not that of the
\* user who had the secret before.
LimitReachesEveryInbound ==
    Settled =>
        \A i \in Inbounds : \A a \in auth[i] :
            (\E u \in users : Account(u) = a /\ u.limit > 0) =>
                LimiterFor(i, a) # None /\ LimiterFor(i, a).id = a.id

=============================================================================
