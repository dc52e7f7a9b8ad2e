----------------------- MODULE TrafficAccountingProofs -----------------------
(* Proofs about TrafficAccounting, for any users, tags, clients and bounds. *)
EXTENDS TrafficAccounting, TLAPS

USE PanelAssumption, NoneAssumption, BoundAssumption

-----------------------------------------------------------------------------
(* Type correctness *)

\* The types hold when the process starts.
LEMMA TypeInit == Init => TypeOK
<1> SUFFICES ASSUME Init PROVE TypeOK
    OBVIOUS
<1>1. /\ accepted \subseteq Users /\ known \subseteq Users
      /\ due \subseteq Keys /\ visited \subseteq Keys /\ target \in Keys \cup {None}
    BY DEF Init
<1>2. /\ registry \in [Keys -> Storages \cup {None}]
      /\ owner \in [Storages -> Keys \cup {None}]
      /\ login \in [Conns -> Logins \cup {None}]
      /\ want \in [Conns -> Keys \cup {None}]
      /\ missed \in [Conns -> BOOLEAN]
      /\ store \in [Conns -> Storages \cup {None}]
    BY DEF Init
<1>3. /\ counted \in [Storages -> Nat] /\ committed \in [Storages -> Nat]
      /\ delta \in [Keys -> Nat]
      /\ billed \in [Storages -> Nat]
      /\ settled \in [Storages -> Nat \cup {-1}]
    BY DEF Init
<1>4. pc \in {"fetch", "remove", "delete", "snapshot", "push", "done", "exited"}
    BY DEF Init
<1>5. panel \in 1 .. PanelCount + 1 /\ faults \in Nat
    BY DEF Init
<1>6. cancelled \in BOOLEAN /\ final \in BOOLEAN
    BY DEF Init
<1>. QED
    BY <1>1, <1>2, <1>3, <1>4, <1>5, <1>6 DEF TypeOK

\* A resolved user name is a key of the counter registry.
LEMMA ResolveType == ASSUME NEW l \in Logins PROVE Resolve(l) \in Keys
<1>1. l.tag \in Tags /\ l.user \in Users
    BY DEF Logins
<1>2. (l.user \in known \/ l.tag \in IdTags) \in BOOLEAN
    OBVIOUS
<1>. QED
    BY <1>1, <1>2 DEF Resolve, Keys

\* What a client is sent comes from storages that have an owner.
LEMMA DeliverType ==
    ASSUME TypeOK, NEW i \in 1 .. PanelCount, Deliver(i)
    PROVE  billed' \in [Storages -> Nat]
<1>1. \A s \in Storages : owner[s] \in PushedBy(i) => owner[s] \in Keys
    BY DEF PushedBy, InDelta
<1>2. \A s \in Storages :
          (IF Registered(s) /\ owner[s] \in PushedBy(i)
           THEN billed[s] + delta[owner[s]] ELSE billed[s]) \in Nat
    BY <1>1 DEF TypeOK
<1>. QED
    BY <1>2 DEF Deliver

\* No operation takes a variable out of its type.
LEMMA TypeStep == TypeOK /\ [Next]_vars => TypeOK'
<1> SUFFICES ASSUME TypeOK, [Next]_vars PROVE TypeOK'
    OBVIOUS
<1> USE DEF TypeOK
<1>1. ASSUME NEW c \in Conns, NEW l \in Logins, Authenticate(c, l) PROVE TypeOK'
    BY <1>1 DEF Authenticate, agent, counters, loop, history
<1>2. ASSUME NEW c \in Conns, ResolveUser(c) PROVE TypeOK'
  <2>1. Resolve(login[c]) \in Keys
    BY <1>2, ResolveType DEF ResolveUser
  <2>. QED
    BY <1>2, <2>1 DEF ResolveUser, agent, counters, loop, history
<1>3. ASSUME NEW c \in Conns, LoadCounter(c) PROVE TypeOK'
    BY <1>3 DEF LoadCounter, Hold, agent, counters, loop, history
<1>4. ASSUME NEW c \in Conns, LoadOrStoreCounter(c) PROVE TypeOK'
  <2>1. /\ registry' \in [Keys -> Storages \cup {None}]
        /\ owner' \in [Storages -> Keys \cup {None}]
        /\ store' \in [Conns -> Storages \cup {None}]
    BY <1>4 DEF LoadOrStoreCounter, Allocate, Hold
  <2>2. want' \in [Conns -> Keys \cup {None}] /\ missed' \in [Conns -> BOOLEAN]
    BY <1>4 DEF LoadOrStoreCounter, Allocate, Hold
  <2>. QED
    BY <1>4, <2>1, <2>2 DEF LoadOrStoreCounter, agent, loop, history
<1>5. ASSUME NEW c \in Conns, Count(c) PROVE TypeOK'
    BY <1>5 DEF Count, agent, conns, loop, history
<1>6. ASSUME NEW c \in Conns, CloseConn(c) PROVE TypeOK'
    BY <1>6 DEF CloseConn, agent, counters, loop, history
<1>7. ASSUME NEW list \in SUBSET Users, ApplyUsers(list) PROVE TypeOK'
    BY <1>7 DEF ApplyUsers, StartRange, Entries, counters, conns, history
<1>8. ASSUME NEW list \in SUBSET Users, ApplyUsersFails(list) PROVE TypeOK'
    BY <1>8 DEF ApplyUsersFails, StartRange, Entries, counters, conns, history
<1>9. CASE FetchUsersFails
    BY <1>9 DEF FetchUsersFails, StartRange, Entries, agent, counters, conns, history
<1>10. CASE FinalFlush
    BY <1>10 DEF FinalFlush, StartRange, Entries, agent, counters, conns, history
<1>11. ASSUME NEW k \in Keys, CheckAbsent(k) PROVE TypeOK'
  <2>1. registry[k] \in Storages
    BY <1>11 DEF CheckAbsent, Visit, Entries
  <2>2. settled' \in [Storages -> Nat \cup {-1}] /\ target' \in Keys \cup {None}
    BY <1>11, <2>1 DEF CheckAbsent
  <2>3. pc' \in {"delete", "remove"}
    BY <1>11 DEF CheckAbsent
  <2>. QED
    BY <1>11, <2>2, <2>3 DEF CheckAbsent, Visit, Entries, agent, counters, conns
<1>12. ASSUME NEW k \in Keys, SnapshotEntry(k) PROVE TypeOK'
  <2>1. registry[k] \in Storages
    BY <1>12 DEF SnapshotEntry, Visit, Entries
  <2>2. (IF Pending(registry[k]) > 0 THEN Pending(registry[k]) ELSE 0) \in Nat
    BY <2>1 DEF Pending
  <2>3. delta' \in [Keys -> Nat]
    BY <1>12, <2>2 DEF SnapshotEntry
  <2>. QED
    BY <1>12, <2>3 DEF SnapshotEntry, Visit, Entries, agent, counters, conns, history
<1>13. CASE DeleteAbsent
    BY <1>13 DEF DeleteAbsent, agent, conns, history
<1>14. CASE RemoveAbsentDone
    BY <1>14 DEF RemoveAbsentDone, StartRange, Entries, agent, counters, conns, history
<1>15. CASE SnapshotDone
  <2>1. pc' \in {"push", "done", "fetch"}
    BY <1>15 DEF SnapshotDone, EndRound
  <2>2. delta' \in [Keys -> Nat]
    BY <1>15 DEF SnapshotDone, EndRound
  <2>4. panel' \in 1 .. PanelCount + 1
    BY <1>15 DEF SnapshotDone, EndRound
  <2>3. due' = {} /\ visited' = {}
    BY <1>15 DEF SnapshotDone, EndRound
  <2>. QED
    BY <1>15, <2>1, <2>2, <2>3, <2>4 DEF SnapshotDone, agent, counters, conns, history
<1>16. CASE PushSkipped
    BY <1>16 DEF PushSkipped, NextPanel, agent, counters, conns, history
<1>17. CASE PushAccepted
  <2>1. billed' \in [Storages -> Nat]
    BY <1>17, DeliverType DEF PushAccepted
  <2>. QED
    BY <1>17, <2>1 DEF PushAccepted, NextPanel, agent, counters, conns
<1>18. CASE PushRefused
    BY <1>18 DEF PushRefused, EndRound, agent, counters, conns
<1>19. CASE PushAnswerLost
  <2>1. billed' \in [Storages -> Nat]
    BY <1>19, DeliverType DEF PushAnswerLost
  <2>. QED
    BY <1>19, <2>1 DEF PushAnswerLost, EndRound, agent, counters, conns
<1>20. CASE Commit
  <2>1. \A s \in Storages :
          (IF Registered(s) /\ owner[s].numeric
           THEN committed[s] + delta[owner[s]] ELSE committed[s]) \in Nat
    BY DEF Registered
  <2>2. committed' \in [Storages -> Nat]
    BY <1>20, <2>1 DEF Commit
  <2>. QED
    BY <1>20, <2>2 DEF Commit, EndRound, agent, conns, history
<1>21. CASE Cancel
    BY <1>21 DEF Cancel, agent, counters, conns, loop, history
<1>22. CASE Exit
    BY <1>22 DEF Exit, agent, counters, history
<1>23. CASE UNCHANGED vars
    BY <1>23 DEF vars, agent, counters, conns, loop, history
<1>. QED
    BY <1>1, <1>2, <1>3, <1>4, <1>5, <1>6, <1>7, <1>8, <1>9, <1>10, <1>11, <1>12, <1>13,
       <1>14, <1>15, <1>16, <1>17, <1>18, <1>19, <1>20, <1>21, <1>22, <1>23
    DEF Next, Connection, Syncer, Push, Exited

\* Every variable keeps its type, whatever the panel answers.
THEOREM TypeCorrect == Spec => []TypeOK
<1>1. Init => TypeOK
    BY TypeInit
<1>2. TypeOK /\ [Next]_vars => TypeOK'
    BY TypeStep
<1>. QED
    BY <1>1, <1>2, PTL DEF Spec

-----------------------------------------------------------------------------
(* The inductive invariant *)

\* An entry leads to the storage allocated for it, so no two keys share one.
EntriesOwned == \A k \in Keys : registry[k] # None => owner[registry[k]] = k

\* A storage nobody asked for yet has no history.
FreshEmpty ==
    \A s \in Storages : owner[s] = None => committed[s] = 0 /\ billed[s] = 0

\* A snapshot entry is not more than what is pending in the registered storage.
DeltaPending ==
    \A k \in Keys : delta[k] > 0 =>
        /\ registry[k] # None
        /\ committed[registry[k]] + delta[k] <= counted[registry[k]]

\* Between the rounds there is no snapshot, outside a push no client's turn, and
\* the entry RemoveAbsent is about to delete was settled when it was read.
PhaseOK ==
    /\ pc \notin {"snapshot", "push"} => \A k \in Keys : delta[k] = 0
    /\ pc # "push" => panel = 1
    /\ pc = "delete" =>
          /\ target \in Keys
          /\ registry[target] # None
          /\ settled[registry[target]] = committed[registry[target]]

\* The bytes of s are in the snapshot and a client has already received them.
InFlight(s) ==
    /\ Registered(s)
    /\ delta[owner[s]] > 0
    /\ owner[s].numeric
    /\ PanelOf[owner[s].tag] \in 1 .. panel - 1

DeliveredBeforeCommit ==
    \A s \in Storages : InFlight(s) => committed[s] + delta[owner[s]] <= billed[s]

\* Without a fault, a client has what is committed and what is in flight (until
\* the process exits in the middle of a push).
BilledExactly ==
    faults = 0 /\ pc # "exited" =>
        \A s \in Storages :
            /\ InFlight(s) => billed[s] <= committed[s] + delta[owner[s]]
            /\ ~InFlight(s) => billed[s] <= committed[s]

Inv ==
    /\ TypeOK
    /\ EntriesOwned
    /\ FreshEmpty
    /\ DeltaPending
    /\ PhaseOK
    /\ CommittedWithinCounted
    /\ DeliveredBeforeCommit
    /\ CommitOnlyAfterDelivery
    /\ BilledExactly
    /\ NoDoubleBilling
    /\ DroppedStoragesSettled

\* An empty registry satisfies the inductive invariant.
LEMMA InvInit == Init => Inv
<1> SUFFICES ASSUME Init PROVE Inv
    OBVIOUS
<1>1. TypeOK
    BY TypeInit
<1>2. /\ \A s \in Storages : owner[s] = None /\ billed[s] = 0 /\ committed[s] = 0
                            /\ counted[s] = 0
      /\ \A k \in Keys : registry[k] = None /\ delta[k] = 0
      /\ pc = "fetch" /\ panel = 1
    BY DEF Init
<1>3. \A s \in Storages : ~Registered(s) /\ ~InFlight(s) /\ ~Billable(s)
    BY <1>2 DEF Registered, InFlight, Billable
<1>4. EntriesOwned /\ FreshEmpty /\ DeltaPending /\ PhaseOK
    BY <1>2 DEF EntriesOwned, FreshEmpty, DeltaPending, PhaseOK
<1>5. CommittedWithinCounted /\ DeliveredBeforeCommit /\ CommitOnlyAfterDelivery
    BY <1>2, <1>3 DEF CommittedWithinCounted, DeliveredBeforeCommit, CommitOnlyAfterDelivery
<1>6. BilledExactly /\ NoDoubleBilling /\ DroppedStoragesSettled
    BY <1>2, <1>3 DEF BilledExactly, NoDoubleBilling, DroppedStoragesSettled
<1>. QED
    BY <1>1, <1>4, <1>5, <1>6 DEF Inv

\* Steps that touch neither the registry nor the books, or only count bytes.
LEMMA Frame ==
    ASSUME Inv, TypeOK', PhaseOK', pc # "exited" \/ pc' = pc,
           UNCHANGED <<registry, owner, committed, delta, panel, billed, settled, faults>>,
           \A s \in Storages : counted[s] <= counted'[s]
    PROVE  Inv'
<1> USE DEF Inv
<1>1. \A s \in Storages : /\ Registered(s)' <=> Registered(s)
                          /\ InFlight(s)' <=> InFlight(s)
                          /\ Billable(s)' <=> Billable(s)
    BY DEF Registered, InFlight, Billable
<1>2. \A k \in Keys : registry[k] # None => registry[k] \in Storages
    BY DEF TypeOK
<1>3. EntriesOwned' /\ FreshEmpty'
    BY DEF EntriesOwned, FreshEmpty
<1>4. DeltaPending'
    BY <1>2 DEF DeltaPending, TypeOK
<1>5. CommittedWithinCounted'
    BY DEF CommittedWithinCounted, TypeOK
<1>6. DeliveredBeforeCommit' /\ CommitOnlyAfterDelivery'
    BY <1>1 DEF DeliveredBeforeCommit, CommitOnlyAfterDelivery
<1>7. BilledExactly'
    BY <1>1 DEF BilledExactly
<1>8. NoDoubleBilling'
    BY DEF NoDoubleBilling, TypeOK
<1>9. DroppedStoragesSettled'
    BY <1>1 DEF DroppedStoragesSettled
<1>. QED
    BY <1>3, <1>4, <1>5, <1>6, <1>7, <1>8, <1>9

\* The first storage of a key enters the registry.
LEMMA AllocateStep ==
    ASSUME Inv, TypeOK', NEW k \in Keys, NEW s \in Storages,
           registry[k] = None, owner[s] = None,
           owner' = [owner EXCEPT ![s] = k], registry' = [registry EXCEPT ![k] = s],
           UNCHANGED <<counted, committed, delta, panel, billed, settled, faults, pc, target>>
    PROVE  Inv'
<1> USE DEF Inv
<1>0. s # None /\ k # None
    BY NoneAssumption
<1>1. ~Registered(s) /\ delta[k] = 0 /\ committed[s] = 0 /\ billed[s] = 0
    BY DEF Registered, DeltaPending, FreshEmpty, TypeOK
<1>2. \A t \in Storages \ {s} : owner'[t] = owner[t]
    BY DEF TypeOK
<1>3. \A l \in Keys \ {k} : registry'[l] = registry[l]
    BY DEF TypeOK
<1>4. owner'[s] = k /\ registry'[k] = s
    BY DEF TypeOK
<1>5. \A t \in Storages \ {s} : Registered(t)' <=> Registered(t)
  <2> SUFFICES ASSUME NEW t \in Storages \ {s} PROVE Registered(t)' <=> Registered(t)
    OBVIOUS
  <2>1. CASE owner[t] = k
    BY <2>1, <1>0, <1>2, <1>4, NoneAssumption DEF Registered
  <2>2. CASE owner[t] # k
    BY <2>2, <1>2, <1>3 DEF Registered, TypeOK
  <2>. QED
    BY <2>1, <2>2
<1>6. \A t \in Storages \ {s} : (InFlight(t)' <=> InFlight(t)) /\ (Billable(t)' <=> Billable(t))
    BY <1>2, <1>5 DEF InFlight, Billable
<1>7. ~InFlight(s)' /\ ~InFlight(s)
    BY <1>1, <1>4 DEF InFlight
<1>8. EntriesOwned'
  <2> SUFFICES ASSUME NEW l \in Keys, registry'[l] # None PROVE owner'[registry'[l]] = l
    BY DEF EntriesOwned
  <2>1. CASE l = k
    BY <2>1, <1>4
  <2>2. CASE l # k
    BY <2>2, <1>2, <1>3, NoneAssumption DEF EntriesOwned, TypeOK
  <2>. QED
    BY <2>1, <2>2
<1>9. FreshEmpty'
    BY <1>0, <1>2, <1>4 DEF FreshEmpty
<1>10. DeltaPending'
    BY <1>1, <1>3 DEF DeltaPending
<1>11. PhaseOK'
    BY <1>3 DEF PhaseOK
<1>12. CommittedWithinCounted' /\ NoDoubleBilling'
    BY DEF CommittedWithinCounted, NoDoubleBilling
<1>13. DeliveredBeforeCommit'
    BY <1>2, <1>6, <1>7 DEF DeliveredBeforeCommit
<1>14. CommitOnlyAfterDelivery'
    BY <1>1, <1>6 DEF CommitOnlyAfterDelivery
<1>15. BilledExactly'
    BY <1>2, <1>6, <1>7 DEF BilledExactly
<1>16. DroppedStoragesSettled'
    BY <1>2, <1>4, <1>5, <1>0 DEF DroppedStoragesSettled, Registered
<1>. QED
    BY <1>8, <1>9, <1>10, <1>11, <1>12, <1>13, <1>14, <1>15, <1>16

\* RemoveAbsent read an entry and found nothing pending.
LEMMA CheckStep ==
    ASSUME Inv, TypeOK', NEW k \in Keys, CheckAbsent(k)
    PROVE  Inv'
<1> USE DEF Inv
<1>1. UNCHANGED <<registry, owner, counted, committed, delta, panel, billed, faults>>
    BY DEF CheckAbsent, counters
<1>2. registry[k] \in Storages /\ owner[registry[k]] = k
    BY DEF CheckAbsent, Visit, Entries, EntriesOwned, TypeOK
<1>3. Registered(registry[k]) /\ k # None
    BY <1>2, NoneAssumption DEF Registered
<1>4. \A s \in Storages : s # registry[k] => settled'[s] = settled[s]
    BY <1>2 DEF CheckAbsent, TypeOK
<1>5. pc = "remove" /\ pc' \in {"remove", "delete"}
    BY DEF CheckAbsent
<1>6. \A s \in Storages : /\ Registered(s)' <=> Registered(s)
                          /\ InFlight(s)' <=> InFlight(s)
                          /\ Billable(s)' <=> Billable(s)
    BY <1>1 DEF Registered, InFlight, Billable
<1>7. PhaseOK'
  <2>1. pc' = "delete" => target' = k /\ settled'[registry[k]] = committed[registry[k]]
    BY <1>2, <1>5 DEF CheckAbsent, TypeOK
  <2>. QED
    BY <2>1, <1>1, <1>2, <1>5, NoneAssumption DEF PhaseOK
<1>8. EntriesOwned' /\ FreshEmpty' /\ DeltaPending'
    BY <1>1 DEF EntriesOwned, FreshEmpty, DeltaPending
<1>9. CommittedWithinCounted' /\ NoDoubleBilling'
    BY <1>1 DEF CommittedWithinCounted, NoDoubleBilling
<1>10. DeliveredBeforeCommit' /\ CommitOnlyAfterDelivery' /\ BilledExactly'
    BY <1>1, <1>5, <1>6 DEF DeliveredBeforeCommit, CommitOnlyAfterDelivery, BilledExactly
<1>11. DroppedStoragesSettled'
    BY <1>1, <1>3, <1>4, <1>6 DEF DroppedStoragesSettled
<1>. QED
    BY <1>7, <1>8, <1>9, <1>10, <1>11

\* The entry found settled is deleted, although connections may have counted
\* more in its storage since.
LEMMA DeleteStep ==
    ASSUME Inv, TypeOK', DeleteAbsent
    PROVE  Inv'
<1> USE DEF Inv
<1> DEFINE d == registry[target]
<1>1. /\ target \in Keys /\ d \in Storages /\ owner[d] = target
      /\ settled[d] = committed[d]
    BY DEF DeleteAbsent, PhaseOK, EntriesOwned, TypeOK
<1>2. UNCHANGED <<owner, counted, committed, delta, panel, billed, settled, faults>>
    BY DEF DeleteAbsent, history
<1>3. /\ registry'[target] = None /\ \A l \in Keys \ {target} : registry'[l] = registry[l]
      /\ pc = "delete" /\ pc' = "remove"
    BY DEF DeleteAbsent, TypeOK
<1>4. \A k \in Keys : delta[k] = 0
    BY <1>3 DEF PhaseOK
<1>5. \A s \in Storages : ~InFlight(s)
    BY <1>4 DEF InFlight, Registered, TypeOK
<1>6. \A s \in Storages : ~InFlight(s)'
    BY <1>2, <1>4 DEF InFlight, Registered, TypeOK
<1>7. \A s \in Storages : s # d => (Registered(s)' <=> Registered(s))
  <2> SUFFICES ASSUME NEW s \in Storages, s # d PROVE Registered(s)' <=> Registered(s)
    OBVIOUS
  <2>1. CASE owner[s] = target
    BY <2>1, <1>2, <1>3, NoneAssumption DEF Registered
  <2>2. CASE owner[s] # target
    BY <2>2, <1>2, <1>3 DEF Registered, TypeOK
  <2>. QED
    BY <2>1, <2>2
<1>8. EntriesOwned' /\ FreshEmpty' /\ DeltaPending'
    BY <1>2, <1>3, <1>4 DEF EntriesOwned, FreshEmpty, DeltaPending
<1>9. PhaseOK'
    BY <1>2, <1>3, <1>4 DEF PhaseOK
<1>10. CommittedWithinCounted' /\ NoDoubleBilling'
    BY <1>2 DEF CommittedWithinCounted, NoDoubleBilling
<1>11. DeliveredBeforeCommit' /\ BilledExactly'
    BY <1>2, <1>3, <1>5, <1>6 DEF DeliveredBeforeCommit, BilledExactly
<1>12. CommitOnlyAfterDelivery'
    BY <1>2 DEF CommitOnlyAfterDelivery, Billable
<1>13. DroppedStoragesSettled'
    BY <1>1, <1>2, <1>7 DEF DroppedStoragesSettled, TypeOK
<1>. QED
    BY <1>8, <1>9, <1>10, <1>11, <1>12, <1>13

\* An entry is read into the snapshot.
LEMMA SnapshotStep ==
    ASSUME Inv, TypeOK', NEW k \in Keys, SnapshotEntry(k)
    PROVE  Inv'
<1> USE DEF Inv
<1>1. /\ UNCHANGED <<registry, owner, counted, committed, panel, billed, settled, faults>>
      /\ pc = "snapshot" /\ pc' = pc /\ panel = 1
    BY DEF SnapshotEntry, counters, history, PhaseOK
<1>2. registry[k] \in Storages
    BY DEF SnapshotEntry, Visit, Entries, TypeOK
<1>3. /\ delta'[k] > 0 => delta'[k] = counted[registry[k]] - committed[registry[k]]
      /\ \A l \in Keys \ {k} : delta'[l] = delta[l]
    BY <1>2 DEF SnapshotEntry, Pending, TypeOK
<1>4. \A s \in Storages : ~InFlight(s) /\ ~InFlight(s)'
    BY <1>1 DEF InFlight
<1>5. \A s \in Storages : (Registered(s)' <=> Registered(s)) /\ (Billable(s)' <=> Billable(s))
    BY <1>1 DEF Registered, Billable
<1>6. DeltaPending'
    BY <1>1, <1>2, <1>3, NoneAssumption DEF DeltaPending, TypeOK
<1>7. EntriesOwned' /\ FreshEmpty' /\ PhaseOK'
    BY <1>1 DEF EntriesOwned, FreshEmpty, PhaseOK
<1>8. CommittedWithinCounted' /\ NoDoubleBilling'
    BY <1>1 DEF CommittedWithinCounted, NoDoubleBilling
<1>9. DeliveredBeforeCommit' /\ BilledExactly'
    BY <1>1, <1>4 DEF DeliveredBeforeCommit, BilledExactly
<1>10. CommitOnlyAfterDelivery' /\ DroppedStoragesSettled'
    BY <1>1, <1>5 DEF CommitOnlyAfterDelivery, DroppedStoragesSettled
<1>. QED
    BY <1>6, <1>7, <1>8, <1>9, <1>10

\* The snapshot is dropped: the round is over, or the process is.
LEMMA DropDelta ==
    ASSUME Inv, TypeOK',
           UNCHANGED <<registry, owner, counted, committed, settled>>,
           \A k \in Keys : delta'[k] = 0, panel' = 1,
           pc' \in {"fetch", "done", "exited"},
           FreshEmpty', CommitOnlyAfterDelivery', BilledExactly', NoDoubleBilling'
    PROVE  Inv'
<1> USE DEF Inv
<1>1. \A s \in Storages : Registered(s)' <=> Registered(s)
    BY DEF Registered
<1>2. EntriesOwned' /\ DeltaPending' /\ PhaseOK'
    BY DEF EntriesOwned, DeltaPending, PhaseOK
<1>3. CommittedWithinCounted' /\ DroppedStoragesSettled'
    BY <1>1 DEF CommittedWithinCounted, DroppedStoragesSettled
<1>4. DeliveredBeforeCommit'
    BY DEF DeliveredBeforeCommit, InFlight, Registered, TypeOK
<1>. QED
    BY <1>2, <1>3, <1>4

\* The effect of one client receiving its part of the snapshot.
LEMMA DeliverStep ==
    ASSUME Inv, NEW i \in 1 .. PanelCount, Deliver(i),
           NEW s \in Storages
    PROVE  IF Registered(s) /\ owner[s] \in PushedBy(i)
           THEN billed'[s] = billed[s] + delta[owner[s]] ELSE billed'[s] = billed[s]
BY DEF Deliver

\* A client took its part: the bytes in flight are now on its side too.
LEMMA AcceptedStep ==
    ASSUME Inv, TypeOK', PushAccepted
    PROVE  Inv'
<1> USE DEF Inv
<1>1. /\ UNCHANGED <<registry, owner, counted, committed, delta, settled, faults, pc>>
      /\ pc = "push" /\ panel \in 1 .. PanelCount /\ panel' = panel + 1
      /\ Deliver(panel)
    BY DEF PushAccepted, NextPanel, counters, TypeOK
<1>2. \A s \in Storages : (Registered(s)' <=> Registered(s)) /\ (Billable(s)' <=> Billable(s))
    BY <1>1 DEF Registered, Billable
<1>3. \A s \in Storages : Registered(s) => owner[s] \in Keys
    BY DEF Registered, TypeOK
<1>4. \A s \in Storages : Registered(s) => PanelOf[owner[s].tag] \in Nat
    BY <1>3, PanelAssumption DEF Keys
<1> DEFINE Mine(s) == Registered(s) /\ owner[s] \in PushedBy(panel)
<1>5. \A s \in Storages : Mine(s) <=> /\ Registered(s) /\ delta[owner[s]] > 0
                                      /\ owner[s].numeric /\ PanelOf[owner[s].tag] = panel
    BY <1>3 DEF PushedBy, InDelta
<1>6. \A s \in Storages : Mine(s) => ~InFlight(s)
    BY <1>1, <1>5 DEF InFlight
<1>7. \A s \in Storages : InFlight(s)' <=> InFlight(s) \/ Mine(s)
    BY <1>1, <1>2, <1>4, <1>5 DEF InFlight
<1>8. \A s \in Storages : Mine(s) => Billable(s)
    BY <1>1, <1>5 DEF Billable, Registered
<1>9. \A s \in Storages : IF Mine(s) THEN billed'[s] = billed[s] + delta[owner[s]]
                                   ELSE billed'[s] = billed[s]
    BY <1>1, DeliverStep
<1>10. \A s \in Storages : /\ counted[s] \in Nat /\ committed[s] \in Nat /\ billed[s] \in Nat
                           /\ Registered(s) => delta[owner[s]] \in Nat
    BY <1>3 DEF TypeOK
<1> HIDE DEF Mine
<1>11. EntriesOwned' /\ DeltaPending' /\ PhaseOK' /\ CommittedWithinCounted'
    BY <1>1 DEF EntriesOwned, DeltaPending, PhaseOK, CommittedWithinCounted
<1>12. FreshEmpty'
    BY <1>1, <1>8, <1>9 DEF FreshEmpty, Billable
<1>13. DeliveredBeforeCommit'
  <2> SUFFICES ASSUME NEW s \in Storages, InFlight(s)'
               PROVE  committed[s] + delta[owner[s]] <= billed'[s]
    BY <1>1 DEF DeliveredBeforeCommit
  <2>1. CASE Mine(s)
    <3>1. Registered(s) /\ committed[s] <= billed[s]
      BY <2>1, <1>5, <1>8 DEF CommitOnlyAfterDelivery
    <3>. QED
      BY <2>1, <3>1, <1>9, <1>10
  <2>2. CASE ~Mine(s)
    BY <2>2, <1>7, <1>9 DEF DeliveredBeforeCommit
  <2>. QED
    BY <2>1, <2>2
<1>14. CommitOnlyAfterDelivery'
  <2> SUFFICES ASSUME NEW s \in Storages, Billable(s) PROVE committed[s] <= billed'[s]
    BY <1>1, <1>2 DEF CommitOnlyAfterDelivery
  <2>1. committed[s] <= billed[s]
    BY DEF CommitOnlyAfterDelivery, Billable
  <2>2. CASE Mine(s)
    <3>1. Registered(s)
      BY <2>2, <1>5
    <3>. QED
      BY <2>1, <2>2, <3>1, <1>9, <1>10
  <2>3. CASE ~Mine(s)
    BY <2>1, <2>3, <1>9
  <2>. QED
    BY <2>2, <2>3
<1>15. BilledExactly'
  <2> SUFFICES ASSUME faults = 0, NEW s \in Storages
               PROVE  /\ InFlight(s)' => billed'[s] <= committed[s] + delta[owner[s]]
                      /\ ~InFlight(s)' => billed'[s] <= committed[s]
    BY <1>1 DEF BilledExactly
  <2>1. /\ InFlight(s) => billed[s] <= committed[s] + delta[owner[s]]
        /\ ~InFlight(s) => billed[s] <= committed[s]
    BY <1>1 DEF BilledExactly
  <2>2. CASE Mine(s)
    <3>1. Registered(s) /\ ~InFlight(s)
      BY <2>2, <1>5, <1>6
    <3>. QED
      BY <2>1, <2>2, <3>1, <1>7, <1>9, <1>10
  <2>3. CASE ~Mine(s)
    BY <2>1, <2>3, <1>7, <1>9
  <2>. QED
    BY <2>2, <2>3
<1>16. NoDoubleBilling'
  <2> SUFFICES ASSUME faults = 0, NEW s \in Storages PROVE billed'[s] <= counted[s]
    BY <1>1 DEF NoDoubleBilling
  <2>1. CASE InFlight(s)'
    <3>1. Registered(s) /\ delta[owner[s]] > 0 /\ owner[s] \in Keys
      BY <2>1, <1>1, <1>2, <1>3 DEF InFlight
    <3>2. committed[s] + delta[owner[s]] <= counted[s]
      BY <3>1 DEF DeltaPending, Registered
    <3>. QED
      BY <2>1, <3>1, <3>2, <1>1, <1>10, <1>15, TypeOK' DEF BilledExactly, TypeOK
  <2>2. CASE ~InFlight(s)'
    BY <2>2, <1>1, <1>10, <1>15, TypeOK' DEF BilledExactly, CommittedWithinCounted, TypeOK
  <2>. QED
    BY <2>1, <2>2
<1>17. DroppedStoragesSettled'
    BY <1>1, <1>2 DEF DroppedStoragesSettled
<1>. QED
    BY <1>11, <1>12, <1>13, <1>14, <1>15, <1>16, <1>17

\* A refused push: nothing was billed, or the step is counted as a fault.
LEMMA RefusedStep ==
    ASSUME Inv, TypeOK', PushRefused
    PROVE  Inv'
<1> USE DEF Inv
<1>1. /\ UNCHANGED <<registry, owner, counted, committed, billed, settled>>
      /\ pc = "push" /\ panel \in 1 .. PanelCount
      /\ \A k \in Keys : delta'[k] = 0
      /\ panel' = 1 /\ pc' \in {"fetch", "done"}
    BY DEF PushRefused, EndRound, counters, TypeOK
<1>2. \A s \in Storages : (Billable(s)' <=> Billable(s)) /\ ~InFlight(s)'
    BY <1>1 DEF Billable, InFlight
<1>3. FreshEmpty' /\ CommitOnlyAfterDelivery'
    BY <1>1, <1>2 DEF FreshEmpty, CommitOnlyAfterDelivery
<1>4. faults' = 0 => faults = 0 /\ \A i \in 1 .. panel - 1 : PushedBy(i) = {}
    BY DEF PushRefused, TypeOK
<1>5. \A s \in Storages : InFlight(s) => owner[s] \in PushedBy(PanelOf[owner[s].tag])
    BY DEF InFlight, PushedBy, InDelta, Registered, TypeOK
<1>6. faults' = 0 => \A s \in Storages : ~InFlight(s)
    BY <1>4, <1>5 DEF InFlight
<1>7. BilledExactly'
    BY <1>1, <1>2, <1>4, <1>6 DEF BilledExactly
<1>8. NoDoubleBilling'
    BY <1>1, <1>4 DEF NoDoubleBilling
<1>. QED
    BY <1>1, <1>3, <1>7, <1>8, DropDelta

\* A lost answer: the client has billed, the step is counted as a fault.
LEMMA LostStep ==
    ASSUME Inv, TypeOK', PushAnswerLost
    PROVE  Inv'
<1> USE DEF Inv
<1>1. /\ UNCHANGED <<registry, owner, counted, committed, settled>>
      /\ panel \in 1 .. PanelCount /\ Deliver(panel)
      /\ \A k \in Keys : delta'[k] = 0
      /\ panel' = 1 /\ pc' \in {"fetch", "done"} /\ faults' # 0
    BY DEF PushAnswerLost, EndRound, counters, TypeOK
<1>2. \A s \in Storages : Billable(s)' <=> Billable(s)
    BY <1>1 DEF Billable
<1>3. \A s \in Storages : Registered(s) => owner[s] # None /\ delta[owner[s]] \in Nat
    BY DEF Registered, TypeOK
<1>4. \A s \in Storages :
          billed'[s] # billed[s] => Registered(s) /\ billed'[s] = billed[s] + delta[owner[s]]
    BY <1>1, DeliverStep
<1>5. \A s \in Storages : billed[s] \in Nat /\ billed[s] <= billed'[s]
    BY <1>3, <1>4 DEF TypeOK
<1>6. FreshEmpty'
    BY <1>1, <1>3, <1>4 DEF FreshEmpty
<1>7. CommitOnlyAfterDelivery'
    BY <1>1, <1>2, <1>5 DEF CommitOnlyAfterDelivery, TypeOK
<1>8. BilledExactly' /\ NoDoubleBilling'
    BY <1>1 DEF BilledExactly, NoDoubleBilling
<1>. QED
    BY <1>1, <1>6, <1>7, <1>8, DropDelta

\* Every client has its part of the snapshot: it is committed.
LEMMA CommitStep ==
    ASSUME Inv, TypeOK', Commit
    PROVE  Inv'
<1> USE DEF Inv
<1>1. /\ UNCHANGED <<registry, owner, counted, billed, settled, faults>>
      /\ pc = "push" /\ panel = PanelCount + 1
      /\ \A k \in Keys : delta'[k] = 0
      /\ panel' = 1 /\ pc' \in {"fetch", "done"}
    BY DEF Commit, EndRound, history, TypeOK
<1>2. \A s \in Storages : /\ Registered(s)' <=> Registered(s)
                          /\ Billable(s)' <=> Billable(s)
                          /\ ~InFlight(s)'
    BY <1>1 DEF Registered, Billable, InFlight
<1>3. \A s \in Storages : /\ counted[s] \in Nat /\ committed[s] \in Nat /\ billed[s] \in Nat
                          /\ Registered(s) => owner[s] \in Keys /\ delta[owner[s]] \in Nat
    BY DEF TypeOK, Registered
<1>4. \A s \in Storages : committed'[s] = IF Registered(s) /\ owner[s].numeric
                                          THEN committed[s] + delta[owner[s]] ELSE committed[s]
    BY DEF Commit
<1>5. \A s \in Storages : Registered(s) /\ owner[s].numeric /\ delta[owner[s]] > 0 /\ Billable(s)
                              => InFlight(s)
  <2> SUFFICES ASSUME NEW s \in Storages, Registered(s), Billable(s)
               PROVE  PanelOf[owner[s].tag] \in 1 .. panel - 1
    BY DEF InFlight
  <2>. QED
    BY <1>1, <1>3, PanelAssumption DEF Billable, Keys
<1>6. \A s \in Storages : InFlight(s) => Registered(s) /\ owner[s].numeric /\ delta[owner[s]] > 0
    BY DEF InFlight
<1>7. EntriesOwned' /\ DeltaPending' /\ PhaseOK'
    BY <1>1 DEF EntriesOwned, DeltaPending, PhaseOK
<1>8. FreshEmpty'
    BY <1>1, <1>4 DEF FreshEmpty, Registered
<1>9. CommittedWithinCounted'
  <2> SUFFICES ASSUME NEW s \in Storages PROVE committed'[s] <= counted[s]
    BY <1>1 DEF CommittedWithinCounted
  <2>1. Registered(s) /\ delta[owner[s]] > 0 => committed[s] + delta[owner[s]] <= counted[s]
    BY <1>3 DEF DeltaPending, Registered
  <2>. QED
    BY <2>1, <1>3, <1>4 DEF CommittedWithinCounted
<1>10. DeliveredBeforeCommit'
    BY <1>2 DEF DeliveredBeforeCommit
<1>11. CommitOnlyAfterDelivery'
  <2> SUFFICES ASSUME NEW s \in Storages, Billable(s) PROVE committed'[s] <= billed[s]
    BY <1>1, <1>2 DEF CommitOnlyAfterDelivery
  <2>. QED
    BY <1>3, <1>4, <1>5 DEF CommitOnlyAfterDelivery, DeliveredBeforeCommit
<1>12. BilledExactly'
  <2> SUFFICES ASSUME faults = 0, NEW s \in Storages PROVE billed[s] <= committed'[s]
    BY <1>1, <1>2 DEF BilledExactly
  <2>. QED
    BY <1>1, <1>3, <1>4, <1>6 DEF BilledExactly
<1>13. NoDoubleBilling'
    BY <1>1 DEF NoDoubleBilling
<1>14. DroppedStoragesSettled'
    BY <1>1, <1>2, <1>4 DEF DroppedStoragesSettled
<1>. QED
    BY <1>7, <1>8, <1>9, <1>10, <1>11, <1>12, <1>13, <1>14

\* Every operation of a connection or of the syncer preserves the invariant.
LEMMA InvStep == Inv /\ [Next]_vars => Inv'
<1> SUFFICES ASSUME Inv, [Next]_vars PROVE Inv'
    OBVIOUS
<1>0. TypeOK /\ TypeOK'
    BY TypeStep DEF Inv
<1>t. \A s \in Storages : counted[s] \in Nat
    BY <1>0 DEF TypeOK
<1>1. ASSUME NEW c \in Conns, NEW l \in Logins, Authenticate(c, l) PROVE Inv'
    BY <1>0, <1>t, <1>1, Frame DEF Authenticate, agent, counters, loop, history, Inv, PhaseOK
<1>2. ASSUME NEW c \in Conns, ResolveUser(c) PROVE Inv'
    BY <1>0, <1>t, <1>2, Frame DEF ResolveUser, agent, counters, loop, history, Inv, PhaseOK
<1>3. ASSUME NEW c \in Conns, LoadCounter(c) PROVE Inv'
    BY <1>0, <1>t, <1>3, Frame DEF LoadCounter, agent, counters, loop, history, Inv, PhaseOK
<1>4. ASSUME NEW c \in Conns, LoadOrStoreCounter(c) PROVE Inv'
  <2>1. CASE UNCHANGED <<owner, registry>>
    BY <1>0, <1>t, <1>4, <2>1, Frame DEF LoadOrStoreCounter, loop, history, Inv, PhaseOK
  <2>2. ASSUME NEW s \in Storages, registry[want[c]] = None, Allocate(c, s) PROVE Inv'
    <3>1. want[c] \in Keys
      BY <1>0, <1>4 DEF LoadOrStoreCounter, TypeOK
    <3>. QED
      BY <1>0, <1>4, <2>2, <3>1, AllocateStep DEF LoadOrStoreCounter, Allocate, loop, history
  <2>. QED
    BY <1>4, <2>1, <2>2 DEF LoadOrStoreCounter
<1>5. ASSUME NEW c \in Conns, Count(c) PROVE Inv'
  <2>1. \A s \in Storages : counted[s] <= counted'[s]
    BY <1>0, <1>t, <1>5 DEF Count, TypeOK
  <2>. QED
    BY <1>0, <1>5, <2>1, Frame DEF Count, loop, history, Inv, PhaseOK
<1>6. ASSUME NEW c \in Conns, CloseConn(c) PROVE Inv'
    BY <1>0, <1>t, <1>6, Frame DEF CloseConn, agent, counters, loop, history, Inv, PhaseOK
<1>7. ASSUME NEW list \in SUBSET Users, ApplyUsers(list) PROVE Inv'
    BY <1>0, <1>t, <1>7, Frame DEF ApplyUsers, StartRange, counters, history, Inv, PhaseOK
<1>8. ASSUME NEW list \in SUBSET Users, ApplyUsersFails(list) PROVE Inv'
    BY <1>0, <1>t, <1>8, Frame DEF ApplyUsersFails, StartRange, counters, history, Inv, PhaseOK
<1>9. CASE FetchUsersFails
    BY <1>0, <1>t, <1>9, Frame DEF FetchUsersFails, StartRange, counters, history, Inv, PhaseOK
<1>10. CASE FinalFlush
    BY <1>0, <1>t, <1>10, Frame DEF FinalFlush, StartRange, counters, history, Inv, PhaseOK
<1>11. ASSUME NEW k \in Keys, CheckAbsent(k) PROVE Inv'
    BY <1>0, <1>11, CheckStep
<1>12. ASSUME NEW k \in Keys, SnapshotEntry(k) PROVE Inv'
    BY <1>0, <1>12, SnapshotStep
<1>13. CASE DeleteAbsent
    BY <1>0, <1>13, DeleteStep
<1>14. CASE RemoveAbsentDone
    BY <1>0, <1>t, <1>14, Frame DEF RemoveAbsentDone, StartRange, counters, history, Inv, PhaseOK
<1>15. CASE SnapshotDone
  <2>1. CASE pc' = "push" /\ UNCHANGED <<delta, panel>>
    BY <1>0, <1>t, <1>15, <2>1, Frame DEF SnapshotDone, counters, history, Inv, PhaseOK
  <2>2. CASE EndRound
    <3>1. /\ UNCHANGED <<registry, owner, counted, committed, settled, billed, faults>>
          /\ \A k \in Keys : delta'[k] = 0
          /\ panel = 1 /\ panel' = 1 /\ pc = "snapshot" /\ pc' \in {"fetch", "done"}
      BY <1>0, <1>15, <2>2 DEF SnapshotDone, EndRound, counters, history, Inv, PhaseOK, TypeOK
    <3>2. \A s \in Storages : ~InFlight(s) /\ ~InFlight(s)' /\ (Billable(s)' <=> Billable(s))
      BY <3>1 DEF InFlight, Billable
    <3>3. FreshEmpty' /\ CommitOnlyAfterDelivery' /\ BilledExactly' /\ NoDoubleBilling'
      BY <3>1, <3>2 DEF Inv, FreshEmpty, CommitOnlyAfterDelivery, BilledExactly, NoDoubleBilling
    <3>. QED
      BY <1>0, <3>1, <3>3, DropDelta
  <2>. QED
    BY <1>15, <2>1, <2>2 DEF SnapshotDone
<1>16. CASE PushSkipped
  <2>1. /\ UNCHANGED <<registry, owner, counted, committed, delta, billed, settled, faults, pc>>
        /\ pc = "push" /\ panel \in 1 .. PanelCount /\ panel' = panel + 1
    BY <1>0, <1>16 DEF PushSkipped, NextPanel, counters, history, TypeOK
  <2>2. \A s \in Storages : (Registered(s)' <=> Registered(s)) /\ (Billable(s)' <=> Billable(s))
    BY <2>1 DEF Registered, Billable
  <2>3. \A s \in Storages : Registered(s) => owner[s] \in Keys /\ PanelOf[owner[s].tag] \in Nat
    BY <1>0, PanelAssumption DEF Registered, TypeOK, Keys
  <2>4. \A s \in Storages : Registered(s) /\ delta[owner[s]] > 0 /\ owner[s].numeric
                                => PanelOf[owner[s].tag] # panel
    BY <1>16, <2>3 DEF PushSkipped, PushedBy, InDelta
  <2>5. \A s \in Storages : InFlight(s)' <=> InFlight(s)
    BY <2>1, <2>2, <2>3, <2>4 DEF InFlight
  <2>6. EntriesOwned' /\ FreshEmpty' /\ DeltaPending' /\ PhaseOK'
    BY <2>1 DEF Inv, EntriesOwned, FreshEmpty, DeltaPending, PhaseOK
  <2>7. CommittedWithinCounted' /\ CommitOnlyAfterDelivery' /\ NoDoubleBilling'
    BY <2>1, <2>2 DEF Inv, CommittedWithinCounted, CommitOnlyAfterDelivery, NoDoubleBilling
  <2>8. DeliveredBeforeCommit' /\ BilledExactly' /\ DroppedStoragesSettled'
    BY <2>1, <2>2, <2>5 DEF Inv, DeliveredBeforeCommit, BilledExactly, DroppedStoragesSettled
  <2>. QED
    BY <1>0, <2>6, <2>7, <2>8 DEF Inv
<1>17. CASE PushAccepted
    BY <1>0, <1>17, AcceptedStep
<1>18. CASE PushRefused
    BY <1>0, <1>18, RefusedStep
<1>19. CASE PushAnswerLost
    BY <1>0, <1>19, LostStep
<1>20. CASE Commit
    BY <1>0, <1>20, CommitStep
<1>21. CASE Cancel
    BY <1>0, <1>t, <1>21, Frame DEF Cancel, counters, loop, history, Inv, PhaseOK
<1>22. CASE Exit
  <2>1. /\ UNCHANGED <<registry, owner, counted, committed, settled, billed, faults>>
        /\ \A k \in Keys : delta'[k] = 0
        /\ panel' = 1 /\ pc' = "exited"
    BY <1>22 DEF Exit, counters, history
  <2>2. FreshEmpty' /\ CommitOnlyAfterDelivery' /\ BilledExactly' /\ NoDoubleBilling'
    BY <2>1 DEF Inv, FreshEmpty, CommitOnlyAfterDelivery, BilledExactly, NoDoubleBilling, Billable
  <2>. QED
    BY <1>0, <2>1, <2>2, DropDelta
<1>23. CASE UNCHANGED vars
    BY <1>0, <1>t, <1>23, Frame DEF vars, counters, loop, history, Inv, PhaseOK
<1>. QED
    BY <1>1, <1>2, <1>3, <1>4, <1>5, <1>6, <1>7, <1>8, <1>9, <1>10, <1>11, <1>12, <1>13,
       <1>14, <1>15, <1>16, <1>17, <1>18, <1>19, <1>20, <1>21, <1>22, <1>23
    DEF Next, Connection, Syncer, Push, Exited

\* The inductive invariant holds throughout.
LEMMA InductiveInvariant == Spec => []Inv
<1>1. Init => Inv
    BY InvInit
<1>2. Inv /\ [Next]_vars => Inv'
    BY InvStep
<1>. QED
    BY <1>1, <1>2, PTL DEF Spec

-----------------------------------------------------------------------------
(* Results *)

\* No commit covers bytes that were not counted in the storage it is added to.
THEOREM CommitsAreCounted == Spec => []CommittedWithinCounted
<1>1. Inv => CommittedWithinCounted
    BY DEF Inv
<1>. QED
    BY <1>1, InductiveInvariant, PTL

\* Traffic some client takes is committed only after that client received it.
THEOREM CommitsAreDelivered == Spec => []CommitOnlyAfterDelivery
<1>1. Inv => CommitOnlyAfterDelivery
    BY DEF Inv
<1>. QED
    BY <1>1, InductiveInvariant, PTL

\* Without a push that fails after billing, no byte is billed twice.
THEOREM BilledOnce == Spec => []NoDoubleBilling
<1>1. Inv => NoDoubleBilling
    BY DEF Inv
<1>. QED
    BY <1>1, InductiveInvariant, PTL

\* What RemoveAbsent saw in a storage it dropped had all been committed.
THEOREM DropsAreSettled == Spec => []DroppedStoragesSettled
<1>1. Inv => DroppedStoragesSettled
    BY DEF Inv
<1>. QED
    BY <1>1, InductiveInvariant, PTL

\* A push delivers at most what is counted and not committed.
LEMMA DeliveredIsPending ==
    ASSUME Inv, TypeOK', NEW i \in 1 .. PanelCount, Deliver(i), UNCHANGED <<counted, committed>>
    PROVE  Ledger!Deliver
<1> USE DEF Inv
<1>1. billed' = [s \in Storages |-> billed'[s]]
    BY DEF TypeOK
<1>2. ASSUME NEW s \in Storages
      PROVE  billed'[s] \in billed[s] .. billed[s] + (counted[s] - committed[s])
  <2>1. /\ billed[s] \in Nat /\ counted[s] \in Nat /\ committed[s] \in Nat
        /\ committed[s] <= counted[s]
    BY DEF TypeOK, CommittedWithinCounted
  <2>2. CASE Registered(s) /\ owner[s] \in PushedBy(i)
    <3>1. owner[s] \in Keys /\ delta[owner[s]] \in Nat /\ delta[owner[s]] > 0
      BY <2>2 DEF PushedBy, InDelta, TypeOK
    <3>2. committed[s] + delta[owner[s]] <= counted[s]
      BY <2>2, <3>1 DEF DeltaPending, Registered
    <3>. QED
      BY <2>1, <2>2, <3>1, <3>2, DeliverStep
  <2>3. CASE ~(Registered(s) /\ owner[s] \in PushedBy(i))
    BY <2>1, <2>3, DeliverStep
  <2>. QED
    BY <2>2, <2>3
<1>. QED
    BY <1>1, <1>2 DEF Ledger!Deliver

\* Each step is a step of the ledger: bytes counted, bytes delivered, bytes
\* written off, or nothing the ledger knows of.
LEMMA LedgerStep ==
    ASSUME \A t \in Tags : PanelOf[t] # 0, Inv, Inv', [Next]_vars
    PROVE  [Ledger!Next]_(Ledger!vars)
<1> USE DEF Ledger!vars
<1>0. TypeOK /\ TypeOK' /\ CommitOnlyAfterDelivery' /\ CommittedWithinCounted'
    BY DEF Inv
<1>1. ASSUME NEW c \in Conns, Count(c) PROVE Ledger!Use
  <2>1. store[c] \in Storages
    BY <1>0, <1>1 DEF Count, TypeOK
  <2>. QED
    BY <1>1, <2>1 DEF Count, history, Ledger!Use
<1>2. CASE PushAccepted
  <2>1. panel \in 1 .. PanelCount
    BY <1>0, <1>2 DEF PushAccepted, TypeOK
  <2>2. Ledger!Deliver
    BY <1>0, <1>2, <2>1, DeliveredIsPending DEF PushAccepted, counters
  <2>. QED
    BY <2>2 DEF Ledger!Next
<1>3. CASE PushAnswerLost
  <2>1. panel \in 1 .. PanelCount
    BY <1>0, <1>3 DEF PushAnswerLost, TypeOK
  <2>2. Ledger!Deliver
    BY <1>0, <1>3, <2>1, DeliveredIsPending DEF PushAnswerLost, counters
  <2>. QED
    BY <2>2 DEF Ledger!Next
<1>4. CASE Commit
  <2>1. /\ UNCHANGED <<counted, billed, owner>>
        /\ committed' = [s \in Storages |-> committed'[s]]
    BY <1>0, <1>4 DEF Commit, history, TypeOK
  <2>2. ASSUME NEW s \in Storages, committed'[s] # committed[s]
        PROVE  /\ committed[s] < committed'[s]
               /\ committed'[s] <= counted[s]
               /\ committed'[s] <= billed[s]
    <3>1. Registered(s) /\ owner[s].numeric /\ committed'[s] = committed[s] + delta[owner[s]]
      BY <1>4, <2>2 DEF Commit
    <3>2. owner[s] \in Keys /\ delta[owner[s]] \in Nat /\ committed[s] \in Nat
      BY <1>0, <3>1 DEF Registered, TypeOK
    <3>3. Billable(s)'
      BY <2>1, <3>1, <3>2 DEF Billable, Registered, Keys
    <3>. QED
      BY <1>0, <2>1, <2>2, <3>1, <3>2, <3>3 DEF CommitOnlyAfterDelivery, CommittedWithinCounted
  <2>. QED
    BY <2>1, <2>2 DEF Ledger!WriteOff, Ledger!Next
<1>5. \/ \E c \in Conns : Count(c)
      \/ PushAccepted \/ PushAnswerLost \/ Commit
      \/ UNCHANGED <<counted, billed, committed>>
  <2>1. ASSUME NEW c \in Conns, Connection(c), ~Count(c) PROVE UNCHANGED <<counted, billed, committed>>
    BY <2>1 DEF Connection, Authenticate, ResolveUser, LoadCounter, LoadOrStoreCounter,
                CloseConn, counters, history
  <2>2. ASSUME NEW list \in SUBSET Users, ApplyUsers(list) \/ ApplyUsersFails(list)
        PROVE  UNCHANGED <<counted, billed, committed>>
    BY <2>2 DEF ApplyUsers, ApplyUsersFails, counters, history
  <2>3. ASSUME NEW k \in Keys, CheckAbsent(k) \/ SnapshotEntry(k)
        PROVE  UNCHANGED <<counted, billed, committed>>
    BY <2>3 DEF CheckAbsent, SnapshotEntry, counters, history
  <2>4. ASSUME \/ FetchUsersFails \/ FinalFlush \/ DeleteAbsent \/ RemoveAbsentDone
               \/ SnapshotDone \/ PushSkipped \/ PushRefused \/ Cancel \/ Exit
        PROVE  UNCHANGED <<counted, billed, committed>>
    BY <2>4 DEF FetchUsersFails, FinalFlush, DeleteAbsent, RemoveAbsentDone, SnapshotDone,
                PushSkipped, PushRefused, Cancel, Exit, counters, history
  <2>5. UNCHANGED vars => UNCHANGED <<counted, billed, committed>>
    BY DEF vars, counters, history
  <2>. QED
    BY <2>1, <2>2, <2>3, <2>4, <2>5 DEF Next, Syncer, Push, Exited
<1>. QED
  <2>1. Ledger!Use => Ledger!Next
    BY DEF Ledger!Next
  <2>. QED
    BY <1>1, <1>2, <1>3, <1>4, <1>5, <2>1

\* When every inbound has a client that takes it, the counters, the pushes and
\* the commits implement the ledger.
THEOREM AccountingImplementsLedger ==
    ASSUME \A t \in Tags : PanelOf[t] # 0
    PROVE  Spec => ImplementsLedger
<1>1. Init => Ledger!Init
    BY DEF Init, Ledger!Init, Ledger!Zero
<1>2. Inv /\ Inv' /\ [Next]_vars => [Ledger!Next]_(Ledger!vars)
    BY LedgerStep
<1>. QED
    BY <1>1, <1>2, InductiveInvariant, PTL DEF Spec, ImplementsLedger, Ledger!Spec
=============================================================================
