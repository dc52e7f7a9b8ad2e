-------------------------- MODULE TrafficAccounting --------------------------
(***************************************************************************)
(* From the bytes a proxied connection counts to the bytes the panel bills. *)
(*                                                                         *)
(* Connection goroutines resolve their user, take a TrafficStorage from the *)
(* counter registry and add to it for as long as they live; the one syncer  *)
(* goroutine applies the panel's user list, drops the storages of absent    *)
(* users, snapshots what is not yet committed, pushes it to the panel       *)
(* clients one after the other and commits it.  Nothing but atomics and     *)
(* sync.Map relates the two sides, so every load and every map operation    *)
(* that the other side can see is a step of its own.                        *)
(*                                                                         *)
(* A storage's upload and download counters are one counter here: they go   *)
(* through the same calls side by side.  ApplyBox is one step, because      *)
(* Resolve waits for the mutex it holds (UserManager models its inside).    *)
(***************************************************************************)
EXTENDS Integers

CONSTANTS
    Users,       \* panel user ids
    Tags,        \* inbound tags (with their source label, if any)
    IdTags,      \* the tags whose protocol names a user by the numeric id
    PanelCount,  \* number of panel clients pushed to, in order
    PanelOf,     \* PanelOf[t]: the client whose matchesInbound takes tag t; 0: none
    Conns,       \* slots for concurrently open connections
    Storages,    \* TrafficStorage objects that can be allocated
    None,        \* the nil pointer / absent entry
    MaxBytes,    \* bound: bytes a storage counts
    MaxFaults    \* bound: pushes that fail after a client has billed

ASSUME PanelAssumption ==
    /\ PanelCount \in Nat
    /\ PanelOf \in [Tags -> 0 .. PanelCount]
    /\ IdTags \subseteq Tags

ASSUME BoundAssumption == MaxBytes \in Nat /\ MaxFaults \in Nat

\* What a connection authenticated as, before its user name is resolved.
Logins == [tag : Tags, user : Users]

\* An entry of Hook.byInbound[tag].Counters: the numeric id of a user, or the
\* raw secret of a user the manager does not know.
Keys == [tag : Tags, user : Users, numeric : BOOLEAN]

ASSUME NoneAssumption == None \notin Storages \cup Keys \cup Logins

VARIABLES
    accepted,  \* users the inbounds authenticate
    known,     \* UserManager.users / bySecret: users that resolve to an id
    registry,  \* registry[k]: the storage stored under k in the sync.Map
    owner,     \* owner[s]: the key s was allocated for; None: not allocated
    counted,   \* UpCounter/DownCounter
    committed, \* CommittedUp/CommittedDown
    login,     \* login[c]: authenticated, user not resolved yet
    want,      \* want[c]: the key c resolved to, before it has its storage
    missed,    \* missed[c]: GetCounter's Load found nothing
    store,     \* store[c]: the storage pointer an open connection holds
    pc,        \* where the syncer goroutine is
    due,       \* keys the Range of the current loop must still visit
    visited,   \* keys the Range of the current loop has visited
    target,    \* the key RemoveAbsent found settled and is about to delete
    delta,     \* the snapshot being pushed; 0: no entry
    panel,     \* index of the client being pushed to
    cancelled, \* ctx.Done(): the process was told to stop
    final,     \* the syncer is in its last flush
    billed,    \* history: bytes of storage s the panel clients have received
    settled,   \* history: what RemoveAbsent read of s when it dropped it; -1: never
    faults     \* history: pushes that failed although a client had billed

agent    == <<accepted, known>>
counters == <<registry, owner, counted, committed>>
conns    == <<login, want, missed, store>>
loop     == <<due, visited, target, delta, panel>>
history  == <<billed, settled, faults>>
vars     == <<agent, counters, conns, pc, loop, cancelled, final, history>>

Registered(s) == owner[s] # None /\ registry[owner[s]] = s
Entries       == {k \in Keys : registry[k] # None}

Init ==
    /\ accepted = {} /\ known = {}
    /\ registry  = [k \in Keys |-> None]
    /\ owner     = [s \in Storages |-> None]
    /\ counted   = [s \in Storages |-> 0]
    /\ committed = [s \in Storages |-> 0]
    /\ login  = [c \in Conns |-> None]
    /\ want   = [c \in Conns |-> None]
    /\ missed = [c \in Conns |-> FALSE]
    /\ store  = [c \in Conns |-> None]
    /\ pc = "fetch"
    /\ due = {} /\ visited = {} /\ target = None
    /\ delta = [k \in Keys |-> 0]
    /\ panel = 1
    /\ cancelled = FALSE /\ final = FALSE
    /\ billed  = [s \in Storages |-> 0]
    /\ settled = [s \in Storages |-> -1]
    /\ faults  = 0

-----------------------------------------------------------------------------
(* Connection goroutines *)

Idle(c) == login[c] = None /\ want[c] = None /\ store[c] = None

\* An inbound accepts a user and hands the connection to the router.
Authenticate(c, l) ==
    /\ pc # "exited"
    /\ Idle(c)
    /\ l.user \in accepted
    /\ login' = [login EXCEPT ![c] = l]
    /\ UNCHANGED <<agent, counters, want, missed, store, pc, loop, cancelled, final, history>>

\* Resolve: the id of a known secret, otherwise the name the protocol gave.
Resolve(l) == [tag |-> l.tag, user |-> l.user,
               numeric |-> l.user \in known \/ l.tag \in IdTags]

ResolveUser(c) ==
    /\ pc # "exited"
    /\ login[c] # None
    /\ want'  = [want EXCEPT ![c] = Resolve(login[c])]
    /\ login' = [login EXCEPT ![c] = None]
    /\ UNCHANGED <<agent, counters, missed, store, pc, loop, cancelled, final, history>>

Hold(c, s) ==
    /\ store'  = [store EXCEPT ![c] = s]
    /\ want'   = [want EXCEPT ![c] = None]
    /\ missed' = [missed EXCEPT ![c] = FALSE]

\* GetCounter, first half: Load.
LoadCounter(c) ==
    /\ pc # "exited"
    /\ want[c] # None /\ ~missed[c]
    /\ \/ /\ registry[want[c]] # None
          /\ Hold(c, registry[want[c]])
       \/ /\ registry[want[c]] = None
          /\ missed' = [missed EXCEPT ![c] = TRUE]
          /\ UNCHANGED <<want, store>>
    /\ UNCHANGED <<agent, counters, login, pc, loop, cancelled, final, history>>

Allocate(c, s) ==
    /\ owner[s] = None
    /\ owner'    = [owner EXCEPT ![s] = want[c]]
    /\ registry' = [registry EXCEPT ![want[c]] = s]
    /\ Hold(c, s)

\* Mutant of LoadOrStoreCounter: Store instead of LoadOrStore.
StoreCounter(c) ==
    /\ pc # "exited"
    /\ want[c] # None /\ missed[c]
    /\ \E s \in Storages : Allocate(c, s)
    /\ UNCHANGED <<agent, counted, committed, login, pc, loop, cancelled, final, history>>

\* GetCounter, second half: LoadOrStore, which keeps an entry stored meanwhile.
LoadOrStoreCounter(c) ==
    /\ pc # "exited"
    /\ want[c] # None /\ missed[c]
    /\ \/ /\ registry[want[c]] # None
          /\ Hold(c, registry[want[c]])
          /\ UNCHANGED <<owner, registry>>
       \/ /\ registry[want[c]] = None
          /\ \E s \in Storages : Allocate(c, s)
    /\ UNCHANGED <<agent, counted, committed, login, pc, loop, cancelled, final, history>>

\* countUp / countDown of an open connection.
Count(c) ==
    /\ pc # "exited"
    /\ store[c] # None
    /\ counted[store[c]] < MaxBytes
    /\ counted' = [counted EXCEPT ![store[c]] = @ + 1]
    /\ UNCHANGED <<agent, registry, owner, committed, conns, pc, loop, cancelled, final, history>>

CloseConn(c) ==
    /\ pc # "exited"
    /\ store[c] # None
    /\ store' = [store EXCEPT ![c] = None]
    /\ UNCHANGED <<agent, counters, login, want, missed, pc, loop, cancelled, final, history>>

-----------------------------------------------------------------------------
(* The syncer goroutine: fetch -> remove/delete -> snapshot -> push -> commit *)

\* Go to a loop that Ranges over the registry: the entries present now are
\* visited, the ones stored meanwhile may be.
StartRange(next) ==
    /\ pc' = next
    /\ due' = Entries
    /\ visited' = {}

\* syncOnce ended: wait for the ticker, or stop if this was the final flush.
EndRound ==
    /\ pc' = IF final THEN "done" ELSE "fetch"
    /\ due' = {} /\ visited' = {}
    /\ delta' = [k \in Keys |-> 0]
    /\ panel' = 1

\* FetchUsers succeeded with list and ApplyBox applied it: the inbounds get the
\* difference to the users known before.
ApplyUsers(list) ==
    /\ pc = "fetch"
    /\ accepted' = (accepted \ (known \ list)) \cup (list \ known)
    /\ known' = list
    /\ StartRange("remove")
    /\ UNCHANGED <<counters, conns, target, delta, panel, cancelled, final, history>>

\* ApplyBox stopped at an error of an inbound: some of the difference may have
\* been applied, the manager still knows the old users, RemoveAbsent is skipped.
ApplyUsersFails(list) ==
    /\ pc = "fetch"
    /\ \/ accepted' = accepted
       \/ accepted' = accepted \ (known \ list)
       \/ accepted' = (accepted \ (known \ list)) \cup (list \ known)
    /\ StartRange("snapshot")
    /\ UNCHANGED <<known, counters, conns, target, delta, panel, cancelled, final, history>>

FetchUsersFails ==
    /\ pc = "fetch"
    /\ StartRange("snapshot")
    /\ UNCHANGED <<agent, counters, conns, target, delta, panel, cancelled, final, history>>

\* Run saw ctx.Done(): one flush, without fetching users.  (The select may as
\* well choose a pending tick, hence no ~cancelled in the actions above.)
FinalFlush ==
    /\ pc = "fetch" /\ cancelled
    /\ final' = TRUE
    /\ StartRange("snapshot")
    /\ UNCHANGED <<agent, counters, conns, target, delta, panel, cancelled, history>>

Visit(k) ==
    /\ k \in Entries \ visited
    /\ visited' = visited \cup {k}
    /\ due' = due \ {k}

Active(k) == k.numeric /\ k.user \in known

\* Mutant of CheckAbsent: absent users are dropped whatever is pending.
CheckAbsentUnsettled(k) ==
    /\ pc = "remove"
    /\ Visit(k)
    /\ ~Active(k)
    /\ pc' = "delete"
    /\ target' = k
    /\ settled' = [settled EXCEPT ![registry[k]] = counted[registry[k]]]
    /\ UNCHANGED <<agent, counters, conns, delta, panel, cancelled, final, billed, faults>>

\* RemoveAbsent, one entry: the counters of an absent user are read and, if
\* nothing is pending in them, the entry goes to the next step to be deleted.
CheckAbsent(k) ==
    /\ pc = "remove"
    /\ Visit(k)
    /\ \/ /\ ~Active(k)
          /\ counted[registry[k]] = committed[registry[k]]
          /\ pc' = "delete"
          /\ target' = k
          /\ settled' = [settled EXCEPT ![registry[k]] = counted[registry[k]]]
       \/ /\ \/ Active(k)
             \/ counted[registry[k]] # committed[registry[k]]
          /\ UNCHANGED <<pc, target, settled>>
    /\ UNCHANGED <<agent, counters, conns, delta, panel, cancelled, final, billed, faults>>

DeleteAbsent ==
    /\ pc = "delete"
    /\ registry' = [registry EXCEPT ![target] = None]
    /\ target' = None
    /\ pc' = "remove"
    /\ UNCHANGED <<agent, owner, counted, committed, conns, due, visited, delta, panel,
                   cancelled, final, history>>

RemoveAbsentDone ==
    /\ pc = "remove" /\ due = {}
    /\ StartRange("snapshot")
    /\ UNCHANGED <<agent, counters, conns, target, delta, panel, cancelled, final, history>>

Pending(s) == counted[s] - committed[s]

\* SnapshotDelta, one entry.
SnapshotEntry(k) ==
    /\ pc = "snapshot"
    /\ Visit(k)
    /\ delta' = [delta EXCEPT ![k] = IF Pending(registry[k]) > 0 THEN Pending(registry[k]) ELSE 0]
    /\ UNCHANGED <<agent, counters, conns, pc, target, panel, cancelled, final, history>>

\* Mutant of PushedBy: every client takes every inbound.
PushedByAll(i) == {k \in Keys : delta[k] > 0 /\ k.numeric}

\* The keys with an entry in the snapshot, and those Client i pushes.
InDelta    == {k \in Keys : delta[k] > 0}
PushedBy(i) == {k \in InDelta : k.numeric /\ PanelOf[k.tag] = i}

\* Mutant of SnapshotDone: an entry without a numeric id stops the flush.
SnapshotDoneAllNumeric ==
    /\ pc = "snapshot" /\ due = {}
    /\ \/ /\ InDelta # {} /\ \A k \in InDelta : k.numeric
          /\ pc' = "push"
          /\ due' = {} /\ visited' = {}
          /\ UNCHANGED <<delta, panel>>
       \/ /\ InDelta = {} \/ \E k \in InDelta : ~k.numeric
          /\ EndRound
    /\ UNCHANGED <<agent, counters, conns, target, cancelled, final, history>>

SnapshotDone ==
    /\ pc = "snapshot" /\ due = {}
    /\ \/ /\ \E k \in InDelta : k.numeric
          /\ pc' = "push"
          /\ due' = {} /\ visited' = {}
          /\ UNCHANGED <<delta, panel>>
       \/ /\ \A k \in InDelta : ~k.numeric
          /\ EndRound
    /\ UNCHANGED <<agent, counters, conns, target, cancelled, final, history>>

\* A client has received its part of the snapshot.
Deliver(i) ==
    billed' = [s \in Storages |->
                 IF Registered(s) /\ owner[s] \in PushedBy(i)
                 THEN billed[s] + delta[owner[s]] ELSE billed[s]]

NextPanel ==
    /\ panel' = panel + 1
    /\ UNCHANGED <<due, visited, delta, pc>>

\* Mutant of PushSkipped: the loop over the clients runs once too often.
PushSkippedPastEnd ==
    /\ pc = "push" /\ panel <= PanelCount + 1
    /\ PushedBy(panel) = {}
    /\ NextPanel
    /\ UNCHANGED <<agent, counters, conns, target, cancelled, final, history>>

\* Client.PushTraffic with nothing to send returns without a request.
PushSkipped ==
    /\ pc = "push" /\ panel <= PanelCount
    /\ PushedBy(panel) = {}
    /\ NextPanel
    /\ UNCHANGED <<agent, counters, conns, target, cancelled, final, history>>

PushAccepted ==
    /\ pc = "push" /\ panel <= PanelCount
    /\ PushedBy(panel) # {}
    /\ Deliver(panel)
    /\ NextPanel
    /\ UNCHANGED <<agent, counters, conns, target, cancelled, final, settled, faults>>

\* Mutant of PushRefused: the error is logged and the loop goes on.
PushRefusedIgnored ==
    /\ pc = "push" /\ panel <= PanelCount
    /\ PushedBy(panel) # {}
    /\ NextPanel
    /\ UNCHANGED <<agent, counters, conns, target, cancelled, final, history>>

\* The request failed before this client took it; an earlier one may have.
PushRefused ==
    /\ pc = "push" /\ panel <= PanelCount
    /\ PushedBy(panel) # {}
    /\ \/ /\ \A i \in 1 .. panel - 1 : PushedBy(i) = {}
          /\ faults' = faults
       \/ /\ \E i \in 1 .. panel - 1 : PushedBy(i) # {}
          /\ faults < MaxFaults
          /\ faults' = faults + 1
    /\ EndRound
    /\ UNCHANGED <<agent, counters, conns, target, cancelled, final, billed, settled>>

\* The client took it, but the answer was lost, late or not 2xx.
PushAnswerLost ==
    /\ pc = "push" /\ panel <= PanelCount
    /\ PushedBy(panel) # {}
    /\ faults < MaxFaults
    /\ faults' = faults + 1
    /\ Deliver(panel)
    /\ EndRound
    /\ UNCHANGED <<agent, counters, conns, target, cancelled, final, settled>>

\* Mutant of Commit: what is counted now is committed, not what was pushed.
CommitCurrent ==
    /\ pc = "push" /\ panel > PanelCount
    /\ committed' = [s \in Storages |->
                       IF Registered(s) /\ owner[s].numeric THEN counted[s] ELSE committed[s]]
    /\ EndRound
    /\ UNCHANGED <<agent, registry, owner, counted, conns, target, cancelled, final, history>>

\* Commit(commitDelta(delta)): every numeric entry, whichever client took it.
\* Only this goroutine touches the committed counters, so the loop is one step.
Commit ==
    /\ pc = "push" /\ panel > PanelCount
    /\ committed' = [s \in Storages |->
                       IF Registered(s) /\ owner[s].numeric
                       THEN committed[s] + delta[owner[s]] ELSE committed[s]]
    /\ EndRound
    /\ UNCHANGED <<agent, registry, owner, counted, conns, target, cancelled, final, history>>

-----------------------------------------------------------------------------
(* Shutdown *)

Cancel ==
    /\ ~cancelled
    /\ cancelled' = TRUE
    /\ UNCHANGED <<agent, counters, conns, pc, loop, final, history>>

\* main closes the box and returns as soon as ctx is done, whatever the syncer
\* and the connections are doing.  The goroutines end with the process.
Exit ==
    /\ cancelled
    /\ pc # "exited"
    /\ pc' = "exited"
    /\ login'  = [c \in Conns |-> None]
    /\ want'   = [c \in Conns |-> None]
    /\ missed' = [c \in Conns |-> FALSE]
    /\ store'  = [c \in Conns |-> None]
    /\ due' = {} /\ visited' = {} /\ target' = None
    /\ delta' = [k \in Keys |-> 0]
    /\ panel' = 1
    /\ UNCHANGED <<agent, counters, cancelled, final, history>>

Exited == pc = "exited" /\ UNCHANGED vars

-----------------------------------------------------------------------------
Connection(c) ==
    \/ \E l \in Logins : Authenticate(c, l)
    \/ ResolveUser(c)
    \/ LoadCounter(c)
    \/ LoadOrStoreCounter(c)
    \/ Count(c)
    \/ CloseConn(c)

Push == PushSkipped \/ PushAccepted \/ PushRefused \/ PushAnswerLost

Syncer ==
    \/ \E list \in SUBSET Users : ApplyUsers(list) \/ ApplyUsersFails(list)
    \/ FetchUsersFails
    \/ FinalFlush
    \/ \E k \in Keys : CheckAbsent(k) \/ SnapshotEntry(k)
    \/ DeleteAbsent
    \/ RemoveAbsentDone
    \/ SnapshotDone
    \/ Push
    \/ Commit

Next ==
    \/ \E c \in Conns : Connection(c)
    \/ Syncer
    \/ Cancel
    \/ Exit
    \/ Exited

Spec == Init /\ [][Next]_vars

\* The syncer goroutine keeps being scheduled, and a client that is asked again
\* and again is answered again and again.
Fairness ==
    /\ WF_vars(Syncer)
    /\ \A i \in 1 .. PanelCount : SF_vars(PushAccepted /\ panel = i)

FairSpec == Spec /\ Fairness

-----------------------------------------------------------------------------
(* Properties *)

TypeOK ==
    /\ accepted \subseteq Users /\ known \subseteq Users
    /\ registry \in [Keys -> Storages \cup {None}]
    /\ owner \in [Storages -> Keys \cup {None}]
    /\ counted \in [Storages -> Nat] /\ committed \in [Storages -> Nat]
    /\ login \in [Conns -> Logins \cup {None}]
    /\ want \in [Conns -> Keys \cup {None}]
    /\ missed \in [Conns -> BOOLEAN]
    /\ store \in [Conns -> Storages \cup {None}]
    /\ pc \in {"fetch", "remove", "delete", "snapshot", "push", "done", "exited"}
    /\ due \subseteq Keys /\ visited \subseteq Keys
    /\ target \in Keys \cup {None}
    /\ delta \in [Keys -> Nat]
    /\ panel \in 1 .. PanelCount + 1
    /\ cancelled \in BOOLEAN /\ final \in BOOLEAN
    /\ billed \in [Storages -> Nat]
    /\ settled \in [Storages -> Nat \cup {-1}]
    /\ faults \in Nat

\* Some client takes the traffic of storage s.
Billable(s) == owner[s] # None /\ owner[s].numeric /\ PanelOf[owner[s].tag] # 0

\* A commit never covers bytes the storage did not count: the storage that is
\* in the map at commit time is the one the snapshot read.
CommittedWithinCounted == \A s \in Storages : committed[s] <= counted[s]

\* What is committed is never pushed again, so it must have reached the panel:
\* an error of any client leaves the whole snapshot uncommitted.
CommitOnlyAfterDelivery ==
    \A s \in Storages : Billable(s) => committed[s] <= billed[s]

\* As long as no push failed after a client had billed (a lost answer, or a
\* later client of the same push refusing), no byte is billed twice.
NoDoubleBilling == faults = 0 => \A s \in Storages : billed[s] <= counted[s]

\* A storage leaves the registry only through RemoveAbsent, and what
\* RemoveAbsent read in it then had all been committed: neither a concurrent
\* GetCounter nor the removal of a user hides counted bytes from the syncer.
DroppedStoragesSettled ==
    \A s \in Storages :
        owner[s] # None /\ ~Registered(s) =>
            settled[s] >= 0 /\ committed[s] = settled[s]

\* RemoveAbsent is between its check of s and its delete.
BeingDropped(s) == pc = "delete" /\ registry[target] = s

\* Bytes counted in a storage the registry keeps are eventually billed, through
\* any number of failing fetches, failing pushes and user removals, unless the
\* process is told to stop.
EventuallyBilled ==
    \A s \in Storages, n \in 1 .. MaxBytes :
        (Registered(s) /\ Billable(s) /\ ~BeingDropped(s) /\ counted[s] >= n)
            ~> (billed[s] >= n \/ cancelled)

\* The counters, the pushes and the commits implement the ledger: whatever the
\* interleaving, bytes are delivered at least once before they are written off.
Ledger == INSTANCE UsageLedger WITH
    Items <- Storages, used <- counted, delivered <- billed, writtenOff <- committed

ImplementsLedger == Ledger!Spec

\* Bytes counted for a user the manager knows are in a storage that a later
\* snapshot will read.
NoUnreportableTraffic ==
    \A s \in Storages :
        (/\ owner[s] # None /\ owner[s].numeric /\ owner[s].user \in known
         /\ counted[s] > committed[s])
            => Registered(s)

=============================================================================
