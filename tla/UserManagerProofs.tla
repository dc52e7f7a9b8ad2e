------------------------- MODULE UserManagerProofs -------------------------
(***************************************************************************)
(* Proofs about UserManager, for any users, secrets, inbounds, connections   *)
(* and failures: its types, that no open connection is left with a limiter   *)
(* that nobody can change and nobody has closed, and that what a call that   *)
(* succeeds leaves behind is the list it was given.                          *)
(***************************************************************************)
EXTENDS UserManager, TLAPS

USE ManagerAssumption, NoneAssumption

\* A user's limiter is one of its own.
LimitersOwned == \A id \in Ids : limiters[id] # None => limiters[id].id = id

Inv == TypeOK /\ LimitersOwned /\ HeldLimiterIsCurrent

-----------------------------------------------------------------------------
(* Lists and accounts *)

LEMMA EntriesOfAList ==
    ASSUME NEW list \in Lists, NEW u \in list
    PROVE  /\ u \in Entries /\ u.id \in Ids /\ u.secret \in Secrets /\ u.limit \in Limits
           /\ Account(u) \in Accounts
BY DEF Lists, Entries, Account, Accounts

LEMMA NoUsers == {} \in Lists
BY DEF Lists

LEMMA LimitersAreSomebodys ==
    ASSUME NEW l \in Limiters
    PROVE  l.id \in Ids /\ l # None
BY DEF Limiters

-----------------------------------------------------------------------------
LEMMA InitInv == Init => Inv
<1> SUFFICES ASSUME Init PROVE Inv
  OBVIOUS
<1>1. TypeOK
  BY NoUsers DEF Init, TypeOK
<1>2. LimitersOwned /\ HeldLimiterIsCurrent
  BY DEF Init, LimitersOwned, HeldLimiterIsCurrent
<1> QED
  BY <1>1, <1>2 DEF Inv

\* The part of ApplyBox before the inbounds: what becomes of the limiters.
LEMMA StartApplyStep ==
    ASSUME Inv, NEW list \in Lists, StartApply(list)
    PROVE  Inv'
<1>1. PICK gen \in [Ids -> Gens] :
        LET new(id)  == [id |-> id, gen |-> gen[id]]
            fresh    == {new(id) : id \in {id \in Ids : Renewed(id, list)}}
            limit(l) == (CHOOSE u \in list : u.id = l.id).limit
        IN  /\ \A l \in fresh : ~InUse(l)
            /\ limiters' = [id \in Ids |->
                              IF Dropped(id, list) THEN None
                              ELSE IF Renewed(id, list) THEN new(id) ELSE limiters[id]]
            /\ closed' = closed \cup {l \in Limiters :
                                         Held(l) /\ limiters[l.id] = l /\ Dropped(l.id, list)}
            /\ rate' = [l \in Limiters |-> IF limiters'[l.id] = l THEN limit(l)
                                           ELSE IF limiters[l.id] = l THEN 0 ELSE rate[l]]
  BY DEF StartApply
<1> DEFINE new(id)  == [id |-> id, gen |-> gen[id]]
           limit(l) == (CHOOSE u \in list : u.id = l.id).limit
<1>2. \A id \in Ids : new(id) \in Limiters /\ new(id).id = id
  BY DEF Limiters
<1>3. \A id \in Ids : limiters'[id] = IF Dropped(id, list) THEN None
                                      ELSE IF Renewed(id, list) THEN new(id) ELSE limiters[id]
  BY <1>1
<1>4. limiters' \in [Ids -> Limiters \cup {None}]
  <2>1. \A id \in Ids : limiters'[id] \in Limiters \cup {None}
    BY <1>2, <1>3 DEF Inv, TypeOK
  <2>2. limiters' = [id \in Ids |-> limiters'[id]]
    BY <1>1
  <2> QED
    BY <2>1, <2>2
<1>5. closed' \subseteq Limiters
  BY <1>1 DEF Inv, TypeOK
<1>6. rate' \in [Limiters -> Limits \cup {0}]
  <2>1. ASSUME NEW l \in Limiters, limiters'[l.id] = l PROVE limit(l) \in Limits
    <3>1. ~Dropped(l.id, list)
      BY <1>3, <2>1, LimitersAreSomebodys
    <3>2. \E u \in list : u.id = l.id
      BY <3>1 DEF Dropped
    <3>3. PICK u \in list : u = (CHOOSE v \in list : v.id = l.id)
      BY <3>2
    <3> QED
      BY <3>3, EntriesOfAList
  <2>2. rate' = [l \in Limiters |-> IF limiters'[l.id] = l THEN limit(l)
                                    ELSE IF limiters[l.id] = l THEN 0 ELSE rate[l]]
    BY <1>1
  <2>3. \A l \in Limiters : rate'[l] \in Limits \cup {0}
    BY <2>1, <2>2 DEF Inv, TypeOK
  <2> HIDE DEF limit
  <2> QED
    BY <2>2, <2>3
<1>7. TypeOK'
  <2>1. shared' \in BOOLEAN
    BY DEF StartApply
  <2> QED
    BY <1>4, <1>5, <1>6, <2>1
    DEF Inv, TypeOK, StartApply, known, conns
<1>8. LimitersOwned'
  BY <1>2, <1>3 DEF Inv, LimitersOwned
<1>9. ASSUME NEW c \in Conns, lim'[c] # None
      PROVE  lim'[c] \in closed' \/ limiters'[lim'[c].id] = lim'[c]
  <2>1. lim' = lim
    BY DEF StartApply, conns
  <2>2. PICK l \in Limiters : l = lim[c]
    BY <1>9, <2>1 DEF Inv, TypeOK
  <2>3. CASE l \in closed
    BY <1>1, <2>1, <2>2, <2>3
  <2>4. CASE l \notin closed
    <3>1. l.id \in Ids /\ l # None /\ limiters[l.id] = l
      BY <1>9, <2>1, <2>2, <2>4, LimitersAreSomebodys DEF Inv, HeldLimiterIsCurrent
    <3>2. CASE Dropped(l.id, list)
      BY <1>1, <2>1, <2>2, <3>1, <3>2 DEF Held
    <3>3. CASE ~Dropped(l.id, list)
      <4>1. ~Renewed(l.id, list)
        BY <3>1 DEF Renewed
      <4>2. limiters'[l.id] = l
        BY <1>3, <3>1, <3>3, <4>1
      <4> QED
        BY <2>1, <2>2, <4>2
    <3> QED
      BY <3>2, <3>3
  <2> QED
    BY <2>3, <2>4
<1> QED
  BY <1>7, <1>8, <1>9 DEF Inv, HeldLimiterIsCurrent

\* The calls of the inbounds and the end of ApplyBox leave the limiters alone.
LEMMA LimitsKept ==
    ASSUME Inv, UNCHANGED <<limits, conns>>, TypeOK'
    PROVE  Inv'
BY DEF Inv, LimitersOwned, HeldLimiterIsCurrent, limits, conns

LEMMA InboundSteps ==
    ASSUME Inv, NEW i \in Inbounds, DelUsers(i) \/ AddUsers(i)
    PROVE  Inv'
<1>1. CASE DelUsers(i)
  <2>1. auth' \in [Inbounds -> SUBSET Accounts]
    BY <1>1 DEF Inv, TypeOK, DelUsers
  <2>2. TypeOK'
    BY <1>1, <2>1 DEF Inv, TypeOK, DelUsers, known, limits, conns, past
  <2> QED
    BY <1>1, <2>2, LimitsKept DEF DelUsers
<1>2. CASE AddUsers(i)
  <2>1. {Account(u) : u \in Added} \subseteq Accounts
    BY EntriesOfAList DEF Added, Inv, TypeOK
  <2>2. auth' \in [Inbounds -> SUBSET Accounts]
    BY <1>2, <2>1 DEF Inv, TypeOK, AddUsers
  <2>3. left' \subseteq Inbounds /\ half' = None
    BY <1>2 DEF Inv, TypeOK, AddUsers
  <2>4. TypeOK'
    BY <1>2, <2>2, <2>3 DEF Inv, TypeOK, AddUsers, known, limits, conns, past
  <2> QED
    BY <1>2, <2>4, LimitsKept DEF AddUsers
<1> QED
  BY <1>1, <1>2

LEMMA ApplyFailsStep ==
    ASSUME Inv, ApplyFails
    PROVE  Inv'
<1>1. failed' \subseteq Lists
  BY DEF Inv, TypeOK, ApplyFails
<1>2. TypeOK'
  BY <1>1, NoUsers DEF Inv, TypeOK, ApplyFails, known, limits, conns
<1> QED
  BY <1>2, LimitsKept DEF ApplyFails

LEMMA ApplyStep ==
    ASSUME Inv, Apply
    PROVE  Inv'
<1>1. bySecret' \in [Secrets -> Ids \cup {None}]
  BY DEF Apply
<1>2. TypeOK'
  BY <1>1, NoUsers DEF Inv, TypeOK, Apply, limits, conns
<1> QED
  BY <1>2, LimitsKept DEF Apply

-----------------------------------------------------------------------------
(* Connections *)

LEMMA AuthenticateStep ==
    ASSUME Inv, NEW c \in Conns, NEW i \in Inbounds, NEW a \in Accounts, Authenticate(c, i, a)
    PROVE  Inv'
<1>1. conn' \in [Conns -> [inbound : Inbounds, account : Accounts] \cup {None}]
  BY DEF Inv, TypeOK, Authenticate
<1> QED
  BY <1>1 DEF Inv, TypeOK, LimitersOwned, HeldLimiterIsCurrent, Authenticate,
              known, limits, box, past

\* The limiter looked up is the one its user has at that moment.
LEMMA RouteStep ==
    ASSUME Inv, NEW c \in Conns, Route(c)
    PROVE  Inv'
<1>1. conn[c] \in [inbound : Inbounds, account : Accounts]
  BY DEF Inv, TypeOK, Route
<1>2. PICK i \in Inbounds, a \in Accounts : conn[c].inbound = i /\ conn[c].account = a
  BY <1>1
<1>3. a.id \in Ids /\ a.secret \in Secrets
  BY DEF Accounts
<1>4. UserOf(i, a) \in Ids \cup {None}
  BY <1>3 DEF UserOf, Inv, TypeOK
<1>5. \/ LimiterFor(i, a) = None
      \/ \E id \in Ids : LimiterFor(i, a) = limiters[id]
  BY <1>4 DEF LimiterFor
<1>6. LimiterFor(i, a) \in Limiters \cup {None}
  BY <1>5 DEF Inv, TypeOK
<1>7. LimiterFor(i, a) # None => limiters[LimiterFor(i, a).id] = LimiterFor(i, a)
  BY <1>5 DEF Inv, LimitersOwned
<1>8. lim' = [lim EXCEPT ![c] = LimiterFor(i, a)]
  BY <1>2 DEF Route
<1>9. TypeOK'
  <2>1. lim' \in [Conns -> Limiters \cup {None}] /\ routed' \subseteq Conns
    BY <1>6, <1>8 DEF Inv, TypeOK, Route
  <2> QED
    BY <2>1 DEF Inv, TypeOK, Route, known, limits, box, past
<1>10. LimitersOwned' /\ HeldLimiterIsCurrent'
  BY <1>7, <1>8 DEF Inv, TypeOK, LimitersOwned, HeldLimiterIsCurrent, Route, limits
<1> QED
  BY <1>9, <1>10 DEF Inv

LEMMA DisconnectStep ==
    ASSUME Inv, NEW c \in Conns, Disconnect(c)
    PROVE  Inv'
<1>1. TypeOK'
  BY DEF Inv, TypeOK, Disconnect, known, box, past
<1>2. LimitersOwned'
  BY DEF Inv, LimitersOwned, Disconnect
<1>3. ASSUME NEW d \in Conns, lim'[d] # None
      PROVE  lim'[d] \in closed' \/ limiters'[lim'[d].id] = lim'[d]
  <2>1. d # c /\ lim'[d] = lim[d]
    BY <1>3 DEF Inv, TypeOK, Disconnect
  <2>2. lim[d] \in closed => lim[d] \in closed'
    BY <2>1 DEF Disconnect
  <2>3. limiters' = limiters
    BY DEF Disconnect
  <2> QED
    BY <1>3, <2>1, <2>2, <2>3 DEF Inv, HeldLimiterIsCurrent
<1> QED
  BY <1>1, <1>2, <1>3 DEF Inv, HeldLimiterIsCurrent

-----------------------------------------------------------------------------
LEMMA NextInv == Inv /\ [Next]_vars => Inv'
<1> SUFFICES ASSUME Inv, [Next]_vars PROVE Inv'
  OBVIOUS
<1>1. CASE UNCHANGED vars
  BY <1>1 DEF Inv, TypeOK, LimitersOwned, HeldLimiterIsCurrent,
              vars, known, limits, box, conns, past
<1>2. CASE Next
  BY <1>2, StartApplyStep, InboundSteps, ApplyFailsStep, ApplyStep,
     AuthenticateStep, RouteStep, DisconnectStep DEF Next
<1> QED
  BY <1>1, <1>2

LEMMA Invariance == Spec => []Inv
BY InitInv, NextInv, PTL DEF Spec

\* The manager's variables keep their types: what an inbound is given are
\* accounts of listed users, and what a connection is given is a limiter.
THEOREM TypeCorrect == Spec => []TypeOK
<1>1. Inv => TypeOK
  BY DEF Inv
<1> QED
  BY <1>1, Invariance, PTL

\* Whatever lists are applied, fail and are retried: a limiter held by an open
\* connection is the one its user has, or closed.
THEOREM LimitersReachConnections == Spec => []HeldLimiterIsCurrent
<1>1. Inv => HeldLimiterIsCurrent
  BY DEF Inv
<1> QED
  BY <1>1, Invariance, PTL

-----------------------------------------------------------------------------
(* What a list leaves behind                                                *)
(*                                                                         *)
(* AppliedExactly speaks of the moments between two calls.  Inductive is    *)
(* what holds within a call, and after one that failed at any inbound: each *)
(* inbound authenticates at least the accounts common to the known list and *)
(* the one being applied, and at most those of both.                        *)

AccountsOf(list) == {Account(u) : u \in list}
SecretsApart(list) == \A u, v \in list : u.secret = v.secret => u = v

\* ApplyBox left nothing of its own behind.
Quiet == pc = "idle" => left = {} /\ half = None

\* bySecret finds a user with the secret, if there is one.
FindsBySecret ==
    \A s \in Secrets :
        LET owners == {u.id : u \in {u \in users : u.secret = s}}
        IN  IF owners = {} THEN bySecret[s] = None ELSE bySecret[s] \in owners

AllApart == ~shared => SecretsApart(users) /\ SecretsApart(next)

\* A closed limiter is held by a connection, and is no user's any more.
ClosedIsHeld == \A l \in closed : Held(l) /\ limiters[l.id] # l

HoldersAreRouted == \A c \in Conns : lim[c] # None => c \in routed

LimitersOf(list) ==
    /\ \A id \in Ids : limiters[id] # None <=> \E u \in list : u.id = id /\ u.limit > 0
    /\ \A u \in list : u.limit > 0 => rate[limiters[u.id]] = u.limit

\* The limiters are those of the list that was started last.
LimitersApplied ==
    /\ pc = "apply" => LimitersOf(next)
    /\ pc = "idle" /\ failed = {} => LimitersOf(users)

Between(i, list) ==
    /\ AccountsOf(users) \cap AccountsOf(list) \subseteq auth[i]
    /\ auth[i] \subseteq AccountsOf(users) \cup AccountsOf(list)

\* As long as no list but this one failed since the known one was applied.
BetweenLists ==
    ~mixed /\ ~shared =>
        \A list \in Lists :
            failed \subseteq {list} /\ (pc = "apply" => list = next)
                => \A i \in Inbounds : Between(i, list)

\* Inbounds ApplyBox has finished, and the one between its two calls.
InboundsDone ==
    ~mixed /\ ~shared /\ pc = "apply" /\ failed \subseteq {next} =>
        /\ \A i \in Inbounds \ left : auth[i] = AccountsOf(next)
        /\ half # None => auth[half] \subseteq AccountsOf(next)

Lasting == Quiet /\ FindsBySecret /\ AllApart /\ BetweenLists /\ InboundsDone

IInv == Inv /\ Lasting /\ HoldersAreRouted /\ ClosedIsHeld /\ LimitersApplied

LEMMA InitIInv == Init => IInv
<1> SUFFICES ASSUME Init PROVE IInv
  OBVIOUS
<1>1. Quiet /\ FindsBySecret /\ AllApart /\ InboundsDone
  BY DEF Init, Quiet, FindsBySecret, AllApart, SecretsApart, InboundsDone
<1>2. BetweenLists
  BY DEF Init, BetweenLists, Between, AccountsOf
<1>3. HoldersAreRouted /\ ClosedIsHeld /\ LimitersApplied
  BY DEF Init, HoldersAreRouted, ClosedIsHeld, LimitersApplied, LimitersOf
<1> QED
  BY <1>1, <1>2, <1>3, InitInv DEF IInv, Lasting

-----------------------------------------------------------------------------
(* The accounts *)

LEMMA LastingKept ==
    ASSUME Lasting, UNCHANGED <<known, box, past>>
    PROVE  Lasting'
<1>1. Quiet' /\ FindsBySecret' /\ AllApart'
  BY DEF Lasting, Quiet, FindsBySecret, AllApart, SecretsApart, known, box, past
<1>2. BetweenLists'
  BY DEF Lasting, BetweenLists, Between, AccountsOf, known, box, past
<1>3. InboundsDone'
  BY DEF Lasting, InboundsDone, AccountsOf, known, box, past
<1> QED
  BY <1>1, <1>2, <1>3 DEF Lasting

LEMMA StartApplyLasting ==
    ASSUME IInv, NEW list \in Lists, StartApply(list)
    PROVE  Lasting'
<1>1. /\ pc = "idle" /\ pc' = "apply" /\ next' = list /\ left' = Inbounds
      /\ UNCHANGED <<users, bySecret, auth, half, failed, mixed>>
      /\ shared' = (shared \/ \E u, v \in list : u # v /\ u.secret = v.secret)
  BY DEF StartApply, known
<1>2. left = {} /\ half = None
  BY <1>1 DEF IInv, Lasting, Quiet
<1>3. Quiet' /\ FindsBySecret'
  BY <1>1 DEF IInv, Lasting, Quiet, FindsBySecret
<1>4. AllApart'
  BY <1>1 DEF IInv, Lasting, AllApart, SecretsApart
<1>5. BetweenLists'
  BY <1>1 DEF IInv, Inv, TypeOK, Lasting, BetweenLists, Between, AccountsOf
<1>6. InboundsDone'
  BY <1>1, <1>2 DEF InboundsDone
<1> QED
  BY <1>3, <1>4, <1>5, <1>6 DEF Lasting

\* Deleting by secret or by id takes from an inbound no account that stays, as
\* users of one list have neither in common.
LEMMA DeletedHasNothingThatStays ==
    ASSUME Inv, SecretsApart(users), NEW a \in AccountsOf(users) \cap AccountsOf(next)
    PROVE  a.id \notin IdsOf(Deleted) /\ a.secret \notin {u.secret : u \in Deleted}
<1>1. PICK v \in users : a = Account(v)
  BY DEF AccountsOf
<1>2. v \notin Deleted
  BY <1>1 DEF Deleted, AccountsOf
<1>3. a.id = v.id /\ a.secret = v.secret
  BY <1>1 DEF Account
<1>4. \A u \in users : u.id = v.id \/ u.secret = v.secret => u = v
  BY DEF Inv, TypeOK, Lists, SecretsApart
<1> QED
  BY <1>2, <1>3, <1>4 DEF Deleted, IdsOf

LEMMA DelUsersLasting ==
    ASSUME IInv, NEW i \in Inbounds, DelUsers(i)
    PROVE  Lasting'
<1>1. /\ pc = "apply" /\ i \in left /\ half = None /\ half' = i
      /\ UNCHANGED <<users, bySecret, next, left, pc, failed, mixed, shared>>
      /\ auth' = [auth EXCEPT ![i] =
                    IF i \in IdInbounds THEN {a \in @ : a.id \notin IdsOf(Deleted)}
                    ELSE {a \in @ : a.secret \notin {u.secret : u \in Deleted}}]
  BY DEF DelUsers, known, past
<1>2. /\ \A j \in Inbounds \ {i} : auth'[j] = auth[j]
      /\ auth'[i] \subseteq auth[i]
      /\ \A a \in auth[i] : \/ a \in auth'[i]
                            \/ a.id \in IdsOf(Deleted)
                            \/ a.secret \in {u.secret : u \in Deleted}
      /\ \A u \in Deleted : Account(u) \notin auth'[i]
  <2>1. auth'[i] = IF i \in IdInbounds THEN {a \in auth[i] : a.id \notin IdsOf(Deleted)}
                   ELSE {a \in auth[i] : a.secret \notin {u.secret : u \in Deleted}}
    BY <1>1 DEF IInv, Inv, TypeOK
  <2>2. \A j \in Inbounds \ {i} : auth'[j] = auth[j]
    BY <1>1 DEF IInv, Inv, TypeOK
  <2>3. \A u \in Deleted : Account(u) \notin auth'[i]
    BY <2>1 DEF Account, IdsOf
  <2> QED
    BY <2>1, <2>2, <2>3
<1>3. Quiet' /\ FindsBySecret' /\ AllApart'
  BY <1>1 DEF IInv, Lasting, Quiet, FindsBySecret, AllApart, SecretsApart
<1>4. ASSUME ~mixed', ~shared', failed' \subseteq {next'}
      PROVE  /\ \A j \in Inbounds : Between(j, next)'
             /\ auth'[i] \subseteq AccountsOf(next)
  <2>1. next \in Lists /\ ~mixed /\ ~shared /\ failed \subseteq {next} /\ SecretsApart(users)
    BY <1>1, <1>4 DEF IInv, Inv, TypeOK, Lasting, AllApart
  <2>2. \A j \in Inbounds : Between(j, next)
    BY <1>1, <2>1 DEF IInv, Lasting, BetweenLists
  <2>3. AccountsOf(users) \cap AccountsOf(next) \subseteq auth'[i]
    BY <1>2, <2>1, <2>2, DeletedHasNothingThatStays DEF Between, IInv
  <2>4. \A a \in AccountsOf(users) \ AccountsOf(next) : a \notin auth'[i]
    BY <1>2 DEF AccountsOf, Deleted
  <2>5. auth'[i] \subseteq AccountsOf(next)
    BY <1>2, <2>2, <2>4 DEF Between
  <2>6. \A j \in Inbounds : Between(j, next)'
    BY <1>1, <1>2, <2>2, <2>3, <2>5 DEF Between, AccountsOf
  <2> QED
    BY <2>5, <2>6
<1>5. BetweenLists'
  BY <1>1, <1>4 DEF BetweenLists
<1>6. InboundsDone'
  <2>1. i # None
    OBVIOUS
  <2>2. ASSUME ~mixed', ~shared', pc' = "apply", failed' \subseteq {next'}
        PROVE  \A j \in Inbounds \ left' : auth'[j] = AccountsOf(next)
    BY <1>1, <1>2, <2>2 DEF IInv, Lasting, InboundsDone
  <2> QED
    BY <1>1, <1>4, <2>1, <2>2 DEF InboundsDone, AccountsOf
<1> QED
  BY <1>3, <1>5, <1>6 DEF Lasting

LEMMA AddUsersLasting ==
    ASSUME IInv, NEW i \in Inbounds, AddUsers(i)
    PROVE  Lasting'
<1>1. /\ pc = "apply" /\ half = i /\ half' = None /\ left' = left \ {i}
      /\ UNCHANGED <<users, bySecret, next, pc, failed, mixed, shared>>
      /\ auth' = [auth EXCEPT ![i] = @ \cup AccountsOf(Added)]
  BY DEF AddUsers, known, past, AccountsOf
<1>2. /\ \A j \in Inbounds \ {i} : auth'[j] = auth[j]
      /\ auth'[i] = auth[i] \cup AccountsOf(Added)
  BY <1>1 DEF IInv, Inv, TypeOK
<1>3. Quiet' /\ FindsBySecret' /\ AllApart'
  BY <1>1 DEF IInv, Lasting, Quiet, FindsBySecret, AllApart, SecretsApart
<1>4. ASSUME ~mixed', ~shared', failed' \subseteq {next'}
      PROVE  /\ \A j \in Inbounds : Between(j, next)'
             /\ auth'[i] = AccountsOf(next)
             /\ \A j \in Inbounds \ left : auth'[j] = AccountsOf(next)
  <2>1. next \in Lists /\ ~mixed /\ ~shared /\ failed \subseteq {next} /\ i # None
    BY <1>1, <1>4 DEF IInv, Inv, TypeOK
  <2>2. \A j \in Inbounds : Between(j, next)
    BY <1>1, <2>1 DEF IInv, Lasting, BetweenLists
  <2>3. /\ auth[i] \subseteq AccountsOf(next)
        /\ \A j \in Inbounds \ left : auth[j] = AccountsOf(next)
    BY <1>1, <2>1 DEF IInv, Lasting, InboundsDone
  <2>4. /\ AccountsOf(Added) \subseteq AccountsOf(next)
        /\ AccountsOf(next) \subseteq AccountsOf(Added) \cup AccountsOf(users)
    BY DEF AccountsOf, Added
  <2>5. auth'[i] = AccountsOf(next)
    BY <1>2, <2>2, <2>3, <2>4 DEF Between
  <2>6. \A j \in Inbounds : Between(j, next)'
    BY <1>1, <1>2, <2>2, <2>5 DEF Between, AccountsOf
  <2> QED
    BY <1>2, <2>3, <2>5, <2>6
<1>5. BetweenLists'
  BY <1>1, <1>4 DEF BetweenLists
<1>6. InboundsDone'
  BY <1>1, <1>4 DEF InboundsDone, AccountsOf
<1> QED
  BY <1>3, <1>5, <1>6 DEF Lasting

LEMMA ApplyFailsLasting ==
    ASSUME IInv, ApplyFails
    PROVE  Lasting'
<1>1. /\ pc = "apply" /\ pc' = "idle" /\ left' = {} /\ half' = None /\ next' = {}
      /\ failed' = failed \cup {next}
      /\ UNCHANGED <<users, bySecret, auth, mixed, shared>>
  BY DEF ApplyFails, known
<1>2. Quiet' /\ FindsBySecret' /\ AllApart' /\ InboundsDone'
  BY <1>1 DEF IInv, Lasting, Quiet, FindsBySecret, AllApart, SecretsApart, InboundsDone
<1>3. BetweenLists'
  <2> SUFFICES ASSUME ~mixed', ~shared', NEW list \in Lists, failed' \subseteq {list},
                      NEW i \in Inbounds
               PROVE  Between(i, list)'
    BY DEF BetweenLists
  <2>1. list = next /\ failed \subseteq {list} /\ ~mixed /\ ~shared
    BY <1>1
  <2>2. Between(i, list)
    BY <2>1 DEF IInv, Lasting, BetweenLists
  <2> QED
    BY <1>1, <2>2 DEF Between, AccountsOf
<1> QED
  BY <1>2, <1>3 DEF Lasting

\* A list is taken for known when every inbound has it.
LEMMA ApplyLasting ==
    ASSUME IInv, Apply
    PROVE  Lasting'
<1>1. /\ pc = "apply" /\ left = {} /\ users' = next /\ failed' = {} /\ pc' = "idle"
      /\ next' = {} /\ UNCHANGED <<auth, left, half, shared>>
      /\ mixed' = (mixed \/ \E l \in failed : l # next)
  BY DEF Apply
<1>2. half = None
  BY <1>1 DEF IInv, Inv, TypeOK
<1>3. Quiet' /\ AllApart' /\ InboundsDone'
  BY <1>1, <1>2 DEF IInv, Lasting, Quiet, AllApart, SecretsApart, InboundsDone
<1>4. FindsBySecret'
  BY <1>1 DEF FindsBySecret, Apply
<1>5. BetweenLists'
  <2> SUFFICES ASSUME ~mixed', ~shared', NEW list \in Lists, NEW i \in Inbounds
               PROVE  Between(i, list)'
    BY DEF BetweenLists
  <2>1. ~mixed /\ ~shared /\ failed \subseteq {next}
    BY <1>1
  <2>2. auth[i] = AccountsOf(next)
    BY <1>1, <2>1 DEF IInv, Lasting, InboundsDone
  <2> QED
    BY <1>1, <2>2 DEF Between, AccountsOf
<1> QED
  BY <1>3, <1>4, <1>5 DEF Lasting

-----------------------------------------------------------------------------
(* The limiters *)

LEMMA LimitersKept ==
    ASSUME ClosedIsHeld, LimitersApplied, UNCHANGED <<limiters, rate, closed, lim>>,
           \/ UNCHANGED <<pc, next, users, failed>>
           \/ pc' = "idle" /\ failed' # {}
           \/ pc = "apply" /\ pc' = "idle" /\ users' = next
    PROVE  ClosedIsHeld' /\ LimitersApplied'
<1>1. ClosedIsHeld'
  BY DEF ClosedIsHeld, Held
<1>2. LimitersApplied'
  BY DEF LimitersApplied, LimitersOf
<1> QED
  BY <1>1, <1>2

LEMMA StartApplyLimiters ==
    ASSUME IInv, NEW list \in Lists, StartApply(list)
    PROVE  ClosedIsHeld' /\ LimitersApplied'
<1>1. PICK gen \in [Ids -> Gens] :
        LET new(id)  == [id |-> id, gen |-> gen[id]]
            fresh    == {new(id) : id \in {id \in Ids : Renewed(id, list)}}
            limit(l) == (CHOOSE u \in list : u.id = l.id).limit
        IN  /\ \A l \in fresh : ~InUse(l)
            /\ limiters' = [id \in Ids |->
                              IF Dropped(id, list) THEN None
                              ELSE IF Renewed(id, list) THEN new(id) ELSE limiters[id]]
            /\ closed' = closed \cup {l \in Limiters :
                                         Held(l) /\ limiters[l.id] = l /\ Dropped(l.id, list)}
            /\ rate' = [l \in Limiters |-> IF limiters'[l.id] = l THEN limit(l)
                                           ELSE IF limiters[l.id] = l THEN 0 ELSE rate[l]]
  BY DEF StartApply
<1> DEFINE new(id)  == [id |-> id, gen |-> gen[id]]
           limit(l) == (CHOOSE u \in list : u.id = l.id).limit
<1>2. \A id \in Ids : new(id) \in Limiters /\ new(id).id = id
  BY DEF Limiters
<1>3. /\ \A id \in Ids : Renewed(id, list) => ~InUse(new(id))
      /\ \A id \in Ids : limiters'[id] = IF Dropped(id, list) THEN None
                                         ELSE IF Renewed(id, list) THEN new(id)
                                         ELSE limiters[id]
      /\ closed' = closed \cup {l \in Limiters :
                                   Held(l) /\ limiters[l.id] = l /\ Dropped(l.id, list)}
      /\ \A l \in Limiters : limiters'[l.id] = l => rate'[l] = limit(l)
  BY <1>1
<1>4. lim' = lim /\ next' = list /\ pc' = "apply"
  BY DEF StartApply, conns
<1> HIDE DEF new
<1>5. ASSUME NEW l \in closed' PROVE Held(l)' /\ limiters'[l.id] # l
  <2>1. l \in Limiters /\ Held(l) /\ (l \in closed => limiters[l.id] # l)
    BY <1>3 DEF IInv, ClosedIsHeld, Inv, TypeOK
  <2>2. l.id \in Ids /\ l # None
    BY <2>1, LimitersAreSomebodys
  <2>3. CASE Dropped(l.id, list)
    BY <1>3, <1>4, <2>1, <2>2, <2>3 DEF Held
  <2>4. CASE ~Dropped(l.id, list)
    <3>1. limiters[l.id] # l
      BY <1>3, <2>1, <2>4
    <3>2. CASE Renewed(l.id, list)
      <4>1. new(l.id) # l
        BY <1>3, <2>1, <2>2, <3>2 DEF InUse
      <4> QED
        BY <1>3, <1>4, <2>1, <2>2, <2>4, <3>2, <4>1 DEF Held
    <3>3. CASE ~Renewed(l.id, list)
      BY <1>3, <1>4, <2>1, <2>2, <2>4, <3>1, <3>3 DEF Held
    <3> QED
      BY <3>2, <3>3
  <2> QED
    BY <2>3, <2>4
<1>6. ASSUME NEW id \in Ids
      PROVE  limiters'[id] # None <=> \E u \in list : u.id = id /\ u.limit > 0
  <2>1. CASE Dropped(id, list)
    BY <1>3, <2>1 DEF Dropped
  <2>2. CASE ~Dropped(id, list)
    <3>1. limiters'[id] # None
      BY <1>2, <1>3, <2>2, LimitersAreSomebodys DEF Renewed, Dropped
    <3> QED
      BY <2>2, <3>1 DEF Dropped
  <2> QED
    BY <2>1, <2>2
<1>7. ASSUME NEW u \in list, u.limit > 0 PROVE rate'[limiters'[u.id]] = u.limit
  <2>1. u.id \in Ids
    BY EntriesOfAList
  <2>2. PICK l \in Limiters : l = limiters'[u.id] /\ l.id = u.id
    <3>1. limiters'[u.id] # None
      BY <1>6, <1>7, <2>1
    <3>2. Inv'
      BY StartApplyStep DEF IInv
    <3> QED
      BY <2>1, <3>1, <3>2 DEF Inv, TypeOK, LimitersOwned
  <2>3. (CHOOSE v \in list : v.id = l.id) = u
    BY <2>2 DEF Lists
  <2> QED
    BY <1>3, <2>2, <2>3
<1>8. ClosedIsHeld'
  BY <1>5 DEF ClosedIsHeld
<1>9. LimitersApplied'
  BY <1>4, <1>6, <1>7 DEF LimitersApplied, LimitersOf
<1> QED
  BY <1>8, <1>9

\* A connection that looks its limiter up had none, so that no closed limiter
\* loses its holder.
LEMMA RouteLimiters ==
    ASSUME IInv, NEW c \in Conns, Route(c)
    PROVE  HoldersAreRouted' /\ ClosedIsHeld' /\ LimitersApplied'
<1>1. /\ UNCHANGED <<limiters, rate, closed, pc, next, users, failed>>
      /\ c \notin routed /\ routed' = routed \cup {c}
  BY DEF Route, known, limits, box, past
<1>2. \A d \in Conns : d # c => lim'[d] = lim[d]
  BY DEF IInv, Inv, TypeOK, Route
<1>3. HoldersAreRouted'
  BY <1>1, <1>2 DEF IInv, HoldersAreRouted
<1>4. lim[c] = None
  BY <1>1 DEF IInv, HoldersAreRouted
<1>5. ASSUME NEW l \in closed PROVE Held(l)'
  <2>1. l \in Limiters /\ Held(l)
    BY <1>5 DEF IInv, ClosedIsHeld, Inv, TypeOK
  <2>2. PICK d \in Conns : lim[d] = l
    BY <2>1 DEF Held
  <2>3. d # c
    BY <1>4, <2>1, <2>2, LimitersAreSomebodys
  <2> QED
    BY <1>2, <2>2, <2>3 DEF Held
<1>6. ClosedIsHeld'
  BY <1>1, <1>5 DEF IInv, ClosedIsHeld
<1>7. LimitersApplied'
  BY <1>1 DEF IInv, LimitersApplied, LimitersOf
<1> QED
  BY <1>3, <1>6, <1>7

\* The last connection that holds a closed limiter takes it along.
LEMMA DisconnectLimiters ==
    ASSUME IInv, NEW c \in Conns, Disconnect(c)
    PROVE  HoldersAreRouted' /\ ClosedIsHeld' /\ LimitersApplied'
<1>1. /\ UNCHANGED <<limiters, rate, pc, next, users, failed>>
      /\ routed' = routed \ {c}
      /\ closed' = closed \ {l \in Limiters : l = lim[c] /\ ~\E d \in Conns \ {c} : lim[d] = l}
  BY DEF Disconnect, known, box, past
<1>2. lim'[c] = None /\ \A d \in Conns : d # c => lim'[d] = lim[d]
  BY DEF IInv, Inv, TypeOK, Disconnect
<1>3. HoldersAreRouted'
  BY <1>1, <1>2 DEF IInv, HoldersAreRouted
<1>4. ASSUME NEW l \in closed' PROVE Held(l)' /\ limiters[l.id] # l
  <2>1. l \in closed /\ l \in Limiters /\ Held(l) /\ limiters[l.id] # l
    BY <1>1, <1>4 DEF IInv, ClosedIsHeld, Inv, TypeOK
  <2>2. PICK d \in Conns \ {c} : lim[d] = l
    BY <1>1, <1>4, <2>1 DEF Held
  <2> QED
    BY <1>2, <2>1, <2>2 DEF Held
<1>5. ClosedIsHeld'
  BY <1>1, <1>4 DEF ClosedIsHeld
<1>6. LimitersApplied'
  BY <1>1 DEF IInv, LimitersApplied, LimitersOf
<1> QED
  BY <1>3, <1>5, <1>6

-----------------------------------------------------------------------------
LEMMA NextIInv == IInv /\ [Next]_vars => IInv'
<1> SUFFICES ASSUME IInv, [Next]_vars PROVE IInv'
  OBVIOUS
<1>1. Inv'
  BY NextInv DEF IInv
<1>2. Inv /\ Lasting /\ HoldersAreRouted /\ ClosedIsHeld /\ LimitersApplied
  BY DEF IInv
<1>3. CASE UNCHANGED vars
  <2>1. UNCHANGED <<known, box, past>> /\ UNCHANGED <<limiters, rate, closed, lim>>
        /\ UNCHANGED <<pc, next, users, failed>> /\ UNCHANGED <<routed>>
    BY <1>3 DEF vars, known, limits, box, conns, past
  <2>2. HoldersAreRouted'
    BY <1>2, <2>1 DEF HoldersAreRouted
  <2> QED
    BY <1>1, <1>2, <2>1, <2>2, LastingKept, LimitersKept DEF IInv
<1>4. CASE \E list \in Lists : StartApply(list)
  <2>1. PICK list \in Lists : StartApply(list)
    BY <1>4
  <2>2. HoldersAreRouted'
    BY <1>2, <2>1 DEF StartApply, HoldersAreRouted, conns
  <2> QED
    BY <1>1, <2>1, <2>2, StartApplyLasting, StartApplyLimiters DEF IInv
<1>5. CASE \E i \in Inbounds : DelUsers(i) \/ AddUsers(i)
  <2>1. PICK i \in Inbounds : DelUsers(i) \/ AddUsers(i)
    BY <1>5
  <2>2. UNCHANGED <<limiters, rate, closed, lim, routed>> /\ UNCHANGED <<pc, next, users, failed>>
    BY <2>1 DEF DelUsers, AddUsers, known, limits, conns, past
  <2>3. HoldersAreRouted'
    BY <1>2, <2>2 DEF HoldersAreRouted
  <2> QED
    BY <1>1, <1>2, <2>1, <2>2, <2>3, DelUsersLasting, AddUsersLasting, LimitersKept DEF IInv
<1>6. CASE ApplyFails
  <2>1. UNCHANGED <<limiters, rate, closed, lim, routed>> /\ pc' = "idle" /\ failed' # {}
    BY <1>6 DEF ApplyFails, limits, conns
  <2>2. HoldersAreRouted'
    BY <1>2, <2>1 DEF HoldersAreRouted
  <2> QED
    BY <1>1, <1>2, <1>6, <2>1, <2>2, ApplyFailsLasting, LimitersKept DEF IInv
<1>7. CASE Apply
  <2>1. UNCHANGED <<limiters, rate, closed, lim, routed>>
        /\ pc = "apply" /\ pc' = "idle" /\ users' = next
    BY <1>7 DEF Apply, limits, conns
  <2>2. HoldersAreRouted'
    BY <1>2, <2>1 DEF HoldersAreRouted
  <2> QED
    BY <1>1, <1>2, <1>7, <2>1, <2>2, ApplyLasting, LimitersKept DEF IInv
<1>8. CASE \E c \in Conns, i \in Inbounds, a \in Accounts : Authenticate(c, i, a)
  <2>1. UNCHANGED <<known, box, past>> /\ UNCHANGED <<limiters, rate, closed, lim, routed>>
    BY <1>8 DEF Authenticate, limits
  <2>2. UNCHANGED <<pc, next, users, failed>>
    BY <2>1 DEF known, box, past
  <2>3. HoldersAreRouted'
    BY <1>2, <2>1 DEF HoldersAreRouted
  <2> QED
    BY <1>1, <1>2, <2>1, <2>2, <2>3, LastingKept, LimitersKept DEF IInv
<1>9. CASE \E c \in Conns : Route(c) \/ Disconnect(c)
  <2>1. UNCHANGED <<known, box, past>>
    BY <1>9 DEF Route, Disconnect
  <2> QED
    BY <1>1, <1>2, <1>9, <2>1, LastingKept, RouteLimiters, DisconnectLimiters DEF IInv
<1> QED
  BY <1>3, <1>4, <1>5, <1>6, <1>7, <1>8, <1>9 DEF Next

LEMMA LastingInvariance == Spec => []IInv
BY InitIInv, NextIInv, PTL DEF Spec

\* What ApplyBox leaves behind when it succeeds is the list it was given: its
\* accounts at every inbound, and its limits in the limiters, also when calls
\* with this list failed before, at whatever inbound.
THEOREM ListsAreAppliedExactly == Spec => []AppliedExactly
<1>1. IInv => AppliedExactly
  <2> SUFFICES ASSUME IInv, Settled PROVE AppliedExactly
    BY DEF AppliedExactly
  <2>1. users \in Lists /\ pc = "idle" /\ failed = {} /\ ~mixed /\ ~shared
    BY DEF IInv, Inv, TypeOK, Settled
  <2>2. \A i \in Inbounds : auth[i] = {Account(u) : u \in users}
    BY <2>1 DEF IInv, Lasting, BetweenLists, Between, AccountsOf
  <2>3. LimitersOf(users)
    BY <2>1 DEF IInv, LimitersApplied
  <2>4. ASSUME NEW u \in users, u.limit > 0
        PROVE  limiters[u.id] \notin closed /\ rate[limiters[u.id]] = u.limit
    <3>1. u.id \in Ids
      BY <2>1, EntriesOfAList
    <3>2. limiters[u.id] # None
      BY <2>3, <2>4, <3>1 DEF LimitersOf
    <3>3. limiters[u.id].id = u.id
      BY <3>1, <3>2 DEF IInv, Inv, LimitersOwned
    <3> QED
      BY <2>3, <2>4, <3>3 DEF IInv, ClosedIsHeld, LimitersOf
  <2> QED
    BY <2>2, <2>3, <2>4 DEF AppliedExactly, LimitersOf
<1> QED
  BY <1>1, LastingInvariance, PTL

\* Where the inbounds that name users by id are given users named by id, as
\* FetchUsers names them, every limited user is limited at every inbound.
THEOREM LimitsReachEveryInbound ==
    ASSUME Named \/ IdInbounds = {}
    PROVE  Spec => []LimitReachesEveryInbound
<1>1. IInv => LimitReachesEveryInbound
  <2> SUFFICES ASSUME IInv, Settled, NEW i \in Inbounds, NEW a \in auth[i],
                      NEW u \in users, Account(u) = a, u.limit > 0
               PROVE  LimiterFor(i, a) # None /\ LimiterFor(i, a).id = a.id
    BY DEF LimitReachesEveryInbound
  <2>1. users \in Lists /\ pc = "idle" /\ failed = {} /\ ~shared
    BY DEF IInv, Inv, TypeOK, Settled
  <2>2. a.id = u.id /\ a.secret = u.secret /\ u.id \in Ids /\ u.secret \in Secrets
    BY <2>1, EntriesOfAList DEF Account
  <2>3. limiters[u.id] # None /\ limiters[u.id].id = u.id
    BY <2>1, <2>2 DEF IInv, Inv, LimitersOwned, LimitersApplied, LimitersOf
  <2>4. bySecret[u.secret] = u.id
    <3>1. \A v \in users : v.secret = u.secret => v = u
      BY <2>1 DEF IInv, Lasting, AllApart, SecretsApart
    <3>2. {v.id : v \in {v \in users : v.secret = u.secret}} = {u.id}
      BY <3>1
    <3> QED
      BY <2>2, <3>2 DEF IInv, Lasting, FindsBySecret
  <2>5. UserOf(i, a) = u.id
    BY <2>2, <2>4 DEF UserOf, IdsOf
  <2> QED
    BY <2>2, <2>3, <2>5 DEF LimiterFor
<1> QED
  BY <1>1, LastingInvariance, PTL

=============================================================================
