----------------------- MODULE DeviceReportingProofs -----------------------
(***************************************************************************)
(* Proofs about the session tracker, about alive reporting, and about both  *)
(* together: for any connections, directions, users, addresses, tags and    *)
(* clients.                                                                *)
(***************************************************************************)
EXTENDS DeviceReporting, FiniteSetTheorems, TLAPS

USE TrackerAssumption, AliveAssumption

-----------------------------------------------------------------------------
(* Type correctness *)

\* The flags and counters are well typed when a connection is prepared.
LEMMA TypeInit == Init => TypeOK
    BY DEF Init, TypeOK, Threads, Labels

\* No statement of activate or closePending takes a variable out of its type.
LEMMA TypeStep == TypeOK /\ [Next]_vars => TypeOK'
<1> SUFFICES ASSUME TypeOK, [Next]_vars PROVE TypeOK'
    OBVIOUS
<1> USE DEF TypeOK
<1>1. ASSUME NEW c \in Conns, NEW d \in Dirs PROVE <<c, d>> \in Threads
    BY DEF Threads
<1>2. ASSUME NEW c \in Conns, NEW d \in Dirs, NEW from, NEW to \in Labels, Go(c, d, from, to)
      PROVE  pc' \in [Threads -> Labels]
    BY <1>2 DEF Go
<1>3. ASSUME NEW c \in Conns, NEW d \in Dirs, Transfer(c, d) PROVE TypeOK'
  <2>1. PICK n \in Sizes \ {0} : bytes' = [bytes EXCEPT ![<<c, d>>] = n]
    BY <1>3 DEF Transfer
  <2>2. bytes' \in [Threads -> Nat]
    BY <2>1
  <2>. QED
    BY <1>2, <1>3, <2>2 DEF Transfer, Labels
<1>4. ASSUME NEW c \in Conns, NEW d \in Dirs, Close(c, d) PROVE TypeOK'
    BY <1>2, <1>4 DEF Close, Labels
<1>5. ASSUME NEW c \in Conns, NEW d \in Dirs, Check(c, d) PROVE TypeOK'
    BY <1>2, <1>5 DEF Check, Labels
<1>6. ASSUME NEW c \in Conns, NEW d \in Dirs, Add(c, d) PROVE TypeOK'
  <2>1. seen[c] + bytes[<<c, d>>] \in Nat
    BY <1>1
  <2>2. seen' \in [Conns -> Nat]
    BY <1>6, <2>1 DEF Add
  <2>. QED
    BY <1>2, <1>6, <2>2 DEF Add, Labels
<1>7. ASSUME NEW c \in Conns, NEW d \in Dirs, Lock(c, d) PROVE TypeOK'
    BY <1>2, <1>7 DEF Lock, Labels
<1>8. ASSUME NEW c \in Conns, NEW d \in Dirs, Recheck(c, d) PROVE TypeOK'
    BY <1>2, <1>8 DEF Recheck, Labels
<1>9. ASSUME NEW c \in Conns, NEW d \in Dirs, Open(c, d) PROVE TypeOK'
  <2>1. refs' \in [RefKeys -> Nat]
    BY <1>9 DEF Open
  <2>. QED
    BY <1>2, <1>9, <2>1 DEF Open, Labels
<1>10. ASSUME NEW c \in Conns, NEW d \in Dirs, StoreActive(c, d) PROVE TypeOK'
    BY <1>2, <1>10 DEF StoreActive, Labels
<1>11. ASSUME NEW c \in Conns, NEW d \in Dirs, SwapClosed(c, d) PROVE TypeOK'
    BY <1>2, <1>11 DEF SwapClosed, Labels
<1>12. ASSUME NEW c \in Conns, NEW d \in Dirs, TakeRelease(c, d) PROVE TypeOK'
  <2>1. taken' \in [Threads -> BOOLEAN]
    BY <1>1, <1>12 DEF TakeRelease
  <2>. QED
    BY <1>2, <1>12, <2>1 DEF TakeRelease, Labels
<1>13. ASSUME NEW c \in Conns, NEW d \in Dirs, Release(c, d) PROVE TypeOK'
  <2>1. refs' \in [RefKeys -> Nat]
    BY <1>13 DEF Release
  <2>. QED
    BY <1>2, <1>13, <2>1 DEF Release, Labels
<1>14. CASE UNCHANGED vars
    BY <1>14 DEF vars
<1>. QED
    BY <1>3, <1>4, <1>5, <1>6, <1>7, <1>8, <1>9, <1>10, <1>11, <1>12, <1>13, <1>14
    DEF Next, Running, Activation, Closing, Ended

\* Every variable of the tracker keeps its type.
THEOREM TypeCorrect == Spec => []TypeOK
    BY TypeInit, TypeStep, PTL DEF Spec

-----------------------------------------------------------------------------
(* The inductive invariant, connection by connection *)

Inside   == {"recheck", "open", "store", "take"}  \* statements under mu
Deciding == {"lock", "recheck", "open"}           \* activation at the threshold
Leaving  == {"closeLock", "take", "release"}      \* after the first Swap

At(c, S) == \E d \in Dirs : pc[<<c, d>>] \in S

\* mu is held by the direction between its Lock and its Unlock.
MutexOK(c) == \A d \in Dirs : holder[c] = d <=> pc[<<c, d>>] \in Inside

\* Who is past the Swap has set closed, and one direction at most won it.
CloseOK(c) ==
    /\ \A d \in Dirs : pc[<<c, d>>] \in Leaving \cup {"ended"} => closed[c]
    /\ \A d, e \in Dirs : pc[<<c, d>>] \in Leaving /\ pc[<<c, e>>] \in Leaving => d = e
    /\ \A d \in Dirs : taken[<<c, d>>] <=> pc[<<c, d>>] = "release"

\* Who is about to open found no session under the mutex, and there is none.
OpenOK(c) ==
    /\ At(c, {"open"}) => ~Holding(c)
    /\ At(c, {"store"}) => release[c]
    /\ release[c] => active[c] \/ At(c, {"store"})

\* A close that comes before or during the activation is still to take it back.
TakerOK(c) ==
    closed[c] /\ (release[c] \/ At(c, {"open"})) => At(c, {"closeLock", "take"})

\* A session means the threshold was reached, and the threshold reached means a
\* session, or one that is being decided, as long as the connection is open.
ThresholdOK(c) ==
    /\ release[c] \/ At(c, Deciding \cup {"store"}) => seen[c] >= Threshold
    /\ ~closed[c] /\ active[c] => release[c]
    /\ ~closed[c] /\ seen[c] >= Threshold => release[c] \/ At(c, Deciding)

ConnOK(c) ==
    MutexOK(c) /\ CloseOK(c) /\ OpenOK(c) /\ TakerOK(c) /\ ThresholdOK(c)

Inv == TypeOK /\ \A c \in Conns : ConnOK(c)

\* Nothing that the invariant says of connection c changed.
Same(c) ==
    /\ seen'[c] = seen[c] /\ active'[c] = active[c] /\ closed'[c] = closed[c]
    /\ release'[c] = release[c] /\ holder'[c] = holder[c]
    /\ \A d \in Dirs : pc'[<<c, d>>] = pc[<<c, d>>] /\ taken'[<<c, d>>] = taken[<<c, d>>]

\* Then what it says of c is still true.
LEMMA Frame ==
    ASSUME NEW c \in Conns, ConnOK(c), Same(c)
    PROVE  ConnOK(c)'
<1>1. MutexOK(c)'
    BY DEF ConnOK, Same, MutexOK
<1>2. CloseOK(c)'
    BY DEF ConnOK, Same, CloseOK
<1>3. OpenOK(c)' /\ TakerOK(c)' /\ ThresholdOK(c)'
    BY DEF ConnOK, Same, OpenOK, TakerOK, ThresholdOK, At, Holding
<1>. QED
    BY <1>1, <1>2, <1>3 DEF ConnOK

\* One statement of a goroutine moves that goroutine only.
LEMMA Moves ==
    ASSUME TypeOK, NEW c \in Conns, NEW d \in Dirs, NEW from, NEW to, Go(c, d, from, to)
    PROVE  /\ pc[<<c, d>>] = from /\ pc'[<<c, d>>] = to
           /\ \A b \in Conns, e \in Dirs : b # c \/ e # d => pc'[<<b, e>>] = pc[<<b, e>>]
    BY DEF TypeOK, Threads, Go

-----------------------------------------------------------------------------
(* Every statement preserves the invariant *)

\* No statement changes anything of another connection.
LEMMA OthersSame ==
    ASSUME TypeOK, NEW c \in Conns, NEW d \in Dirs,
           Transfer(c, d) \/ Close(c, d) \/ Running(c, d),
           NEW b \in Conns \ {c}
    PROVE  Same(b)
<1>1. \A e \in Dirs : pc'[<<b, e>>] = pc[<<b, e>>]
    BY Moves DEF Transfer, Close, Running, Activation, Closing, Check, Add, Lock, Recheck,
                 Open, StoreActive, SwapClosed, TakeRelease, Release
<1>2. \A e \in Dirs : taken'[<<b, e>>] = taken[<<b, e>>]
    BY DEF TypeOK, Threads, Transfer, Close, Running, Activation, Closing, Check, Add, Lock,
           Recheck, Open, StoreActive, SwapClosed, TakeRelease, Release
<1>3. /\ seen'[b] = seen[b] /\ active'[b] = active[b] /\ closed'[b] = closed[b]
      /\ release'[b] = release[b] /\ holder'[b] = holder[b]
    BY DEF TypeOK, Transfer, Close, Running, Activation, Closing, Check, Add, Lock, Recheck,
           Open, StoreActive, SwapClosed, TakeRelease, Release
<1>. QED
    BY <1>1, <1>2, <1>3 DEF Same

\* A goroutine that calls activate has decided nothing yet.
LEMMA TransferStep ==
    ASSUME TypeOK, NEW c \in Conns, ConnOK(c), NEW d \in Dirs, Transfer(c, d)
    PROVE  ConnOK(c)'
<1>1. /\ pc[<<c, d>>] = "idle" /\ pc'[<<c, d>>] = "check"
      /\ \A e \in Dirs \ {d} : pc'[<<c, e>>] = pc[<<c, e>>]
    BY Moves DEF Transfer
<1>2. /\ active'[c] = active[c] /\ closed'[c] = closed[c] /\ release'[c] = release[c]
      /\ holder'[c] = holder[c] /\ seen'[c] = seen[c]
    BY DEF Transfer, TypeOK, Threads
<1>3. /\ \A e \in Dirs : taken'[<<c, e>>] = taken[<<c, e>>]
    BY DEF Transfer, TypeOK, Threads
<1>4. MutexOK(c)'
    BY <1>1, <1>2 DEF ConnOK, MutexOK, Inside
<1>5. CloseOK(c)'
    BY <1>1, <1>2, <1>3 DEF ConnOK, CloseOK, Leaving
<1>6. OpenOK(c)'
    BY <1>1, <1>2, <1>3 DEF ConnOK, MutexOK, CloseOK, OpenOK, Holding, At, Inside, Leaving
<1>7. TakerOK(c)'
    BY <1>1, <1>2 DEF ConnOK, MutexOK, CloseOK, OpenOK, TakerOK, At, Inside, Leaving
<1>8. ThresholdOK(c)'
    BY <1>1, <1>2 DEF ConnOK, MutexOK, OpenOK, ThresholdOK, At, Inside, Deciding
<1>. QED
    BY <1>4, <1>5, <1>6, <1>7, <1>8 DEF ConnOK

\* A goroutine that closes has not swapped yet.
LEMMA CloseStep ==
    ASSUME TypeOK, NEW c \in Conns, ConnOK(c), NEW d \in Dirs, Close(c, d)
    PROVE  ConnOK(c)'
<1>1. /\ pc[<<c, d>>] = "idle" /\ pc'[<<c, d>>] = "swap"
      /\ \A e \in Dirs \ {d} : pc'[<<c, e>>] = pc[<<c, e>>]
    BY Moves DEF Close
<1>2. /\ active'[c] = active[c] /\ closed'[c] = closed[c] /\ release'[c] = release[c]
      /\ holder'[c] = holder[c] /\ seen'[c] = seen[c]
    BY DEF Close, TypeOK, Threads
<1>3. /\ \A e \in Dirs : taken'[<<c, e>>] = taken[<<c, e>>]
    BY DEF Close, TypeOK, Threads
<1>4. MutexOK(c)'
    BY <1>1, <1>2 DEF ConnOK, MutexOK, Inside
<1>5. CloseOK(c)'
    BY <1>1, <1>2, <1>3 DEF ConnOK, CloseOK, Leaving
<1>6. OpenOK(c)'
    BY <1>1, <1>2, <1>3 DEF ConnOK, MutexOK, CloseOK, OpenOK, Holding, At, Inside, Leaving
<1>7. TakerOK(c)'
    BY <1>1, <1>2 DEF ConnOK, MutexOK, CloseOK, OpenOK, TakerOK, At, Inside, Leaving
<1>8. ThresholdOK(c)'
    BY <1>1, <1>2 DEF ConnOK, MutexOK, OpenOK, ThresholdOK, At, Inside, Deciding
<1>. QED
    BY <1>4, <1>5, <1>6, <1>7, <1>8 DEF ConnOK

\* The fast path out is taken on a session or a close only.
LEMMA CheckStep ==
    ASSUME TypeOK, NEW c \in Conns, ConnOK(c), NEW d \in Dirs, Check(c, d)
    PROVE  ConnOK(c)'
<1>1. /\ pc[<<c, d>>] = "check" /\ pc'[<<c, d>>] \in {"idle", "add"}
      /\ \A e \in Dirs \ {d} : pc'[<<c, e>>] = pc[<<c, e>>]
    BY Moves DEF Check
<1>2. /\ active'[c] = active[c] /\ closed'[c] = closed[c] /\ release'[c] = release[c]
      /\ holder'[c] = holder[c] /\ seen'[c] = seen[c]
    BY DEF Check, TypeOK, Threads
<1>3. /\ \A e \in Dirs : taken'[<<c, e>>] = taken[<<c, e>>]
    BY DEF Check, TypeOK, Threads
<1>4. MutexOK(c)'
    BY <1>1, <1>2 DEF ConnOK, MutexOK, Inside
<1>5. CloseOK(c)'
    BY <1>1, <1>2, <1>3 DEF ConnOK, CloseOK, Leaving
<1>6. OpenOK(c)'
    BY <1>1, <1>2, <1>3 DEF ConnOK, MutexOK, CloseOK, OpenOK, Holding, At, Inside, Leaving
<1>7. TakerOK(c)'
    BY <1>1, <1>2 DEF ConnOK, MutexOK, CloseOK, OpenOK, TakerOK, At, Inside, Leaving
<1>8. ThresholdOK(c)'
    BY <1>1, <1>2 DEF ConnOK, MutexOK, OpenOK, ThresholdOK, At, Inside, Deciding
<1>. QED
    BY <1>4, <1>5, <1>6, <1>7, <1>8 DEF ConnOK

\* The sum over both directions decides who goes to the mutex.
LEMMA AddStep ==
    ASSUME TypeOK, NEW c \in Conns, ConnOK(c), NEW d \in Dirs, Add(c, d)
    PROVE  ConnOK(c)'
<1>1. /\ pc[<<c, d>>] = "add"
      /\ IF seen'[c] < Threshold THEN pc'[<<c, d>>] = "idle" ELSE pc'[<<c, d>>] = "lock"
      /\ \A e \in Dirs \ {d} : pc'[<<c, e>>] = pc[<<c, e>>]
    BY Moves DEF Add, TypeOK, Threads
<1>2. /\ seen[c] \in Nat /\ seen'[c] \in Nat /\ seen[c] <= seen'[c]
      /\ active'[c] = active[c] /\ closed'[c] = closed[c] /\ release'[c] = release[c]
      /\ holder'[c] = holder[c]
    BY DEF Add, TypeOK, Threads
<1>3. /\ \A e \in Dirs : taken'[<<c, e>>] = taken[<<c, e>>]
    BY DEF Add, TypeOK, Threads
<1>4. MutexOK(c)'
    BY <1>1, <1>2 DEF ConnOK, MutexOK, Inside
<1>5. CloseOK(c)'
    BY <1>1, <1>2, <1>3 DEF ConnOK, CloseOK, Leaving
<1>6. OpenOK(c)'
    BY <1>1, <1>2, <1>3 DEF ConnOK, MutexOK, CloseOK, OpenOK, Holding, At, Inside, Leaving
<1>7. TakerOK(c)'
    BY <1>1, <1>2 DEF ConnOK, MutexOK, CloseOK, OpenOK, TakerOK, At, Inside, Leaving
<1>8. ThresholdOK(c)'
  <2>1. At(c, Deciding \cup {"store"})' => At(c, Deciding \cup {"store"}) \/ seen'[c] >= Threshold
    BY <1>1, <1>2 DEF At, Deciding
  <2>2. At(c, Deciding) \/ seen'[c] >= Threshold => At(c, Deciding)' \/ seen'[c] < Threshold
    BY <1>1, <1>2 DEF At, Deciding
  <2>3. At(c, Deciding) => seen'[c] >= Threshold
    BY <1>2 DEF ConnOK, ThresholdOK, At, Deciding
  <2>. QED
    BY <1>2, <2>1, <2>2, <2>3 DEF ConnOK, ThresholdOK
<1>. QED
    BY <1>4, <1>5, <1>6, <1>7, <1>8 DEF ConnOK

\* The mutex has one holder.
LEMMA LockStep ==
    ASSUME TypeOK, NEW c \in Conns, ConnOK(c), NEW d \in Dirs, Lock(c, d)
    PROVE  ConnOK(c)'
<1>1. /\ \/ pc[<<c, d>>] = "lock" /\ pc'[<<c, d>>] = "recheck"
         \/ pc[<<c, d>>] = "closeLock" /\ pc'[<<c, d>>] = "take"
      /\ \A e \in Dirs \ {d} : pc'[<<c, e>>] = pc[<<c, e>>]
    BY Moves DEF Lock
<1>2. /\ holder[c] = Nobody /\ holder'[c] = d
      /\ active'[c] = active[c] /\ closed'[c] = closed[c] /\ release'[c] = release[c]
      /\ seen'[c] = seen[c]
    BY DEF Lock, TypeOK, Threads
<1>3. /\ \A e \in Dirs : taken'[<<c, e>>] = taken[<<c, e>>]
    BY DEF Lock, TypeOK, Threads
<1>4. MutexOK(c)'
    BY <1>1, <1>2 DEF ConnOK, MutexOK, Inside
<1>5. CloseOK(c)'
    BY <1>1, <1>2, <1>3 DEF ConnOK, CloseOK, Leaving
<1>6. OpenOK(c)'
    BY <1>1, <1>2, <1>3 DEF ConnOK, MutexOK, CloseOK, OpenOK, Holding, At, Inside, Leaving
<1>7. TakerOK(c)'
    BY <1>1, <1>2 DEF ConnOK, MutexOK, CloseOK, OpenOK, TakerOK, At, Inside, Leaving
<1>8. ThresholdOK(c)'
    BY <1>1, <1>2 DEF ConnOK, MutexOK, OpenOK, ThresholdOK, At, Inside, Deciding
<1>. QED
    BY <1>4, <1>5, <1>6, <1>7, <1>8 DEF ConnOK

\* Past the second look there is no session and no close.
LEMMA RecheckStep ==
    ASSUME TypeOK, NEW c \in Conns, ConnOK(c), NEW d \in Dirs, Recheck(c, d)
    PROVE  ConnOK(c)'
<1>1. /\ pc[<<c, d>>] = "recheck"
      /\ \/ (active[c] \/ closed[c]) /\ pc'[<<c, d>>] = "idle" /\ holder'[c] = Nobody
         \/ ~(active[c] \/ closed[c]) /\ pc'[<<c, d>>] = "open" /\ holder'[c] = holder[c]
      /\ \A e \in Dirs \ {d} : pc'[<<c, e>>] = pc[<<c, e>>]
    BY Moves DEF Recheck, TypeOK, Threads
<1>2. /\ active'[c] = active[c] /\ closed'[c] = closed[c] /\ release'[c] = release[c]
      /\ seen'[c] = seen[c]
    BY DEF Recheck, TypeOK, Threads
<1>3. /\ \A e \in Dirs : taken'[<<c, e>>] = taken[<<c, e>>]
    BY DEF Recheck, TypeOK, Threads
<1>4. MutexOK(c)'
    BY <1>1, <1>2 DEF ConnOK, MutexOK, Inside
<1>5. CloseOK(c)'
    BY <1>1, <1>2, <1>3 DEF ConnOK, CloseOK, Leaving
<1>6. OpenOK(c)'
  <2>1. At(c, {"store"})' => At(c, {"store"})
    BY <1>1 DEF At
  <2>2. At(c, {"store"}) => At(c, {"store"})'
    BY <1>1 DEF At
  <2>3. Holding(c)' <=> Holding(c)
    BY <1>2, <1>3 DEF Holding
  <2>4. ASSUME At(c, {"open"})' PROVE ~Holding(c)
    <3>1. CASE At(c, {"open"})
      BY <3>1 DEF ConnOK, OpenOK
    <3>2. CASE ~At(c, {"open"})
      <4>1. ~(active[c] \/ closed[c])
        BY <1>1, <2>4, <3>2 DEF At
      <4>2. ~release[c]
        BY <1>1, <4>1 DEF ConnOK, OpenOK, MutexOK, At, Inside
      <4>3. \A e \in Dirs : ~taken[<<c, e>>]
        BY <4>1 DEF ConnOK, CloseOK, Leaving
      <4> QED
        BY <4>2, <4>3 DEF Holding
    <3> QED
      BY <3>1, <3>2
  <2>. QED
    BY <1>2, <2>1, <2>2, <2>3, <2>4 DEF ConnOK, OpenOK
<1>7. TakerOK(c)'
    BY <1>1, <1>2 DEF ConnOK, MutexOK, CloseOK, OpenOK, TakerOK, At, Inside, Leaving
<1>8. ThresholdOK(c)'
    BY <1>1, <1>2 DEF ConnOK, MutexOK, OpenOK, ThresholdOK, At, Inside, Deciding
<1>. QED
    BY <1>4, <1>5, <1>6, <1>7, <1>8 DEF ConnOK

\* A session is opened by the holder of the mutex, once.
LEMMA OpenStep ==
    ASSUME TypeOK, NEW c \in Conns, ConnOK(c), NEW d \in Dirs, Open(c, d)
    PROVE  ConnOK(c)'
<1>1. /\ pc[<<c, d>>] = "open" /\ pc'[<<c, d>>] = "store"
      /\ \A e \in Dirs \ {d} : pc'[<<c, e>>] = pc[<<c, e>>]
    BY Moves DEF Open
<1>2. /\ release'[c] = TRUE
      /\ active'[c] = active[c] /\ closed'[c] = closed[c] /\ holder'[c] = holder[c]
      /\ seen'[c] = seen[c]
    BY DEF Open, TypeOK, Threads
<1>3. /\ \A e \in Dirs : taken'[<<c, e>>] = taken[<<c, e>>]
    BY DEF Open, TypeOK, Threads
<1>4. MutexOK(c)'
    BY <1>1, <1>2 DEF ConnOK, MutexOK, Inside
<1>5. CloseOK(c)'
    BY <1>1, <1>2, <1>3 DEF ConnOK, CloseOK, Leaving
<1>6. OpenOK(c)'
  <2>1. \A e \in Dirs : pc'[<<c, e>>] # "open"
    BY <1>1 DEF ConnOK, MutexOK, Inside
  <2>2. ~At(c, {"open"})'
    BY <2>1 DEF At
  <2>3. At(c, {"store"})'
    BY <1>1 DEF At
  <2>. QED
    BY <1>2, <2>2, <2>3 DEF OpenOK
<1>7. TakerOK(c)'
    BY <1>1, <1>2 DEF ConnOK, MutexOK, CloseOK, OpenOK, TakerOK, At, Inside, Leaving
<1>8. ThresholdOK(c)'
    BY <1>1, <1>2 DEF ConnOK, MutexOK, OpenOK, ThresholdOK, At, Inside, Deciding
<1>. QED
    BY <1>4, <1>5, <1>6, <1>7, <1>8 DEF ConnOK

\* The flag is set before the mutex is given back.
LEMMA StoreActiveStep ==
    ASSUME TypeOK, NEW c \in Conns, ConnOK(c), NEW d \in Dirs, StoreActive(c, d)
    PROVE  ConnOK(c)'
<1>1. /\ pc[<<c, d>>] = "store" /\ pc'[<<c, d>>] = "idle"
      /\ \A e \in Dirs \ {d} : pc'[<<c, e>>] = pc[<<c, e>>]
    BY Moves DEF StoreActive
<1>2. /\ active'[c] = TRUE /\ holder'[c] = Nobody
      /\ closed'[c] = closed[c] /\ release'[c] = release[c] /\ seen'[c] = seen[c]
    BY DEF StoreActive, TypeOK, Threads
<1>3. /\ \A e \in Dirs : taken'[<<c, e>>] = taken[<<c, e>>]
    BY DEF StoreActive, TypeOK, Threads
<1>4. MutexOK(c)'
    BY <1>1, <1>2 DEF ConnOK, MutexOK, Inside
<1>5. CloseOK(c)'
    BY <1>1, <1>2, <1>3 DEF ConnOK, CloseOK, Leaving
<1>6. OpenOK(c)'
    BY <1>1, <1>2, <1>3 DEF ConnOK, MutexOK, CloseOK, OpenOK, Holding, At, Inside, Leaving
<1>7. TakerOK(c)'
    BY <1>1, <1>2 DEF ConnOK, MutexOK, CloseOK, OpenOK, TakerOK, At, Inside, Leaving
<1>8. ThresholdOK(c)'
    BY <1>1, <1>2 DEF ConnOK, MutexOK, OpenOK, ThresholdOK, At, Inside, Deciding
<1>. QED
    BY <1>4, <1>5, <1>6, <1>7, <1>8 DEF ConnOK

\* The first close has to take back whatever is opened.
LEMMA SwapClosedStep ==
    ASSUME TypeOK, NEW c \in Conns, ConnOK(c), NEW d \in Dirs, SwapClosed(c, d)
    PROVE  ConnOK(c)'
<1>1. /\ pc[<<c, d>>] = "swap" /\ closed'[c] = TRUE
      /\ IF closed[c] THEN pc'[<<c, d>>] = "ended" ELSE pc'[<<c, d>>] = "closeLock"
      /\ \A e \in Dirs \ {d} : pc'[<<c, e>>] = pc[<<c, e>>]
    BY Moves DEF SwapClosed, TypeOK, Threads
<1>2. /\ active'[c] = active[c] /\ release'[c] = release[c] /\ holder'[c] = holder[c]
      /\ seen'[c] = seen[c]
    BY DEF SwapClosed, TypeOK, Threads
<1>3. /\ \A e \in Dirs : taken'[<<c, e>>] = taken[<<c, e>>]
    BY DEF SwapClosed, TypeOK, Threads
<1>4. MutexOK(c)'
    BY <1>1, <1>2 DEF ConnOK, MutexOK, Inside
<1>5. CloseOK(c)'
    BY <1>1, <1>2, <1>3 DEF ConnOK, CloseOK, Leaving
<1>6. OpenOK(c)'
    BY <1>1, <1>2, <1>3 DEF ConnOK, MutexOK, CloseOK, OpenOK, Holding, At, Inside, Leaving
<1>7. TakerOK(c)'
    BY <1>1, <1>2 DEF ConnOK, MutexOK, CloseOK, OpenOK, TakerOK, At, Inside, Leaving
<1>8. ThresholdOK(c)'
    BY <1>1, <1>2 DEF ConnOK, MutexOK, OpenOK, ThresholdOK, At, Inside, Deciding
<1>. QED
    BY <1>4, <1>5, <1>6, <1>7, <1>8 DEF ConnOK

\* The closure is taken under the mutex, after any activation.
LEMMA TakeReleaseStep ==
    ASSUME TypeOK, NEW c \in Conns, ConnOK(c), NEW d \in Dirs, TakeRelease(c, d)
    PROVE  ConnOK(c)'
<1>1. /\ pc[<<c, d>>] = "take"
      /\ IF release[c] THEN pc'[<<c, d>>] = "release" ELSE pc'[<<c, d>>] = "ended"
      /\ \A e \in Dirs \ {d} : pc'[<<c, e>>] = pc[<<c, e>>]
    BY Moves DEF TakeRelease
<1>2. /\ release'[c] = FALSE /\ holder'[c] = Nobody
      /\ active'[c] = active[c] /\ closed'[c] = closed[c] /\ seen'[c] = seen[c]
    BY DEF TakeRelease, TypeOK, Threads
<1>3. /\ taken'[<<c, d>>] = release[c]
      /\ \A e \in Dirs \ {d} : taken'[<<c, e>>] = taken[<<c, e>>]
    BY DEF TakeRelease, TypeOK, Threads
<1>4. MutexOK(c)'
    BY <1>1, <1>2 DEF ConnOK, MutexOK, Inside
<1>5. CloseOK(c)'
    BY <1>1, <1>2, <1>3 DEF ConnOK, CloseOK, Leaving
<1>6. OpenOK(c)'
  <2>1. \A e \in Dirs : pc'[<<c, e>>] \notin {"open", "store"}
    BY <1>1 DEF ConnOK, MutexOK, Inside
  <2>2. ~At(c, {"open"})' /\ ~At(c, {"store"})'
    BY <2>1 DEF At
  <2>. QED
    BY <1>2, <2>2 DEF OpenOK
<1>7. TakerOK(c)'
    BY <1>1, <1>2 DEF ConnOK, MutexOK, CloseOK, OpenOK, TakerOK, At, Inside, Leaving
<1>8. ThresholdOK(c)'
    BY <1>1, <1>2 DEF ConnOK, MutexOK, CloseOK, ThresholdOK, At, Inside, Deciding, Leaving
<1>. QED
    BY <1>4, <1>5, <1>6, <1>7, <1>8 DEF ConnOK

\* The session ends with the close that took it.
LEMMA ReleaseStep ==
    ASSUME TypeOK, NEW c \in Conns, ConnOK(c), NEW d \in Dirs, Release(c, d)
    PROVE  ConnOK(c)'
<1>1. /\ pc[<<c, d>>] = "release" /\ pc'[<<c, d>>] = "ended"
      /\ \A e \in Dirs \ {d} : pc'[<<c, e>>] = pc[<<c, e>>]
    BY Moves DEF Release
<1>2. /\ active'[c] = active[c] /\ closed'[c] = closed[c] /\ release'[c] = release[c]
      /\ holder'[c] = holder[c] /\ seen'[c] = seen[c]
    BY DEF Release, TypeOK, Threads
<1>3. /\ taken'[<<c, d>>] = FALSE
      /\ \A e \in Dirs \ {d} : taken'[<<c, e>>] = taken[<<c, e>>]
    BY DEF Release, TypeOK, Threads
<1>4. MutexOK(c)'
    BY <1>1, <1>2 DEF ConnOK, MutexOK, Inside
<1>5. CloseOK(c)'
    BY <1>1, <1>2, <1>3 DEF ConnOK, CloseOK, Leaving
<1>6. OpenOK(c)'
    BY <1>1, <1>2, <1>3 DEF ConnOK, MutexOK, CloseOK, OpenOK, Holding, At, Inside, Leaving
<1>7. TakerOK(c)'
    BY <1>1, <1>2 DEF ConnOK, MutexOK, CloseOK, OpenOK, TakerOK, At, Inside, Leaving
<1>8. ThresholdOK(c)'
    BY <1>1, <1>2 DEF ConnOK, MutexOK, OpenOK, ThresholdOK, At, Inside, Deciding
<1>. QED
    BY <1>4, <1>5, <1>6, <1>7, <1>8 DEF ConnOK

-----------------------------------------------------------------------------
(* The invariant holds *)

\* A prepared connection is open, without bytes and without a session.
LEMMA InvInit == Init => Inv
<1> SUFFICES ASSUME Init PROVE Inv
    OBVIOUS
<1>1. ASSUME NEW c \in Conns PROVE ConnOK(c)
  <2>1. \A d \in Dirs : <<c, d>> \in Threads /\ d # Nobody
    BY DEF Threads
  <2>2. \A d \in Dirs : pc[<<c, d>>] = "idle" /\ taken[<<c, d>>] = FALSE
    BY <2>1 DEF Init
  <2>3. /\ holder[c] = Nobody /\ closed[c] = FALSE /\ active[c] = FALSE
        /\ release[c] = FALSE /\ seen[c] = 0
    BY DEF Init
  <2>4. MutexOK(c) /\ CloseOK(c)
    BY <2>1, <2>2, <2>3 DEF MutexOK, CloseOK, Inside, Leaving
  <2>5. OpenOK(c) /\ TakerOK(c)
    BY <2>2, <2>3 DEF OpenOK, TakerOK, At, Holding
  <2>6. ~At(c, Deciding \cup {"store"})
    BY <2>2 DEF At, Deciding
  <2>7. ~(0 >= Threshold)
    OBVIOUS
  <2>8. ThresholdOK(c)
    BY <2>3, <2>6, <2>7 DEF ThresholdOK
  <2>. QED
    BY <2>4, <2>5, <2>8 DEF ConnOK
<1>. QED
    BY <1>1, TypeInit DEF Inv

\* A step of the program is a statement of one goroutine, or nothing happens.
LEMMA InvStep == Inv /\ [Next]_vars => Inv'
<1> SUFFICES ASSUME Inv, [Next]_vars PROVE Inv'
    OBVIOUS
<1>1. TypeOK /\ TypeOK'
    BY TypeStep DEF Inv
<1>2. ASSUME NEW c \in Conns, NEW d \in Dirs, Transfer(c, d) \/ Close(c, d) \/ Running(c, d)
      PROVE  \A b \in Conns : ConnOK(b)'
  <2>1. ConnOK(c)'
    BY <1>1, <1>2, TransferStep, CloseStep, CheckStep, AddStep, LockStep, RecheckStep,
       OpenStep, StoreActiveStep, SwapClosedStep, TakeReleaseStep, ReleaseStep
       DEF Inv, Running, Activation, Closing
  <2>2. ASSUME NEW b \in Conns \ {c} PROVE ConnOK(b)'
    BY <1>1, <1>2, OthersSame, Frame DEF Inv
  <2>. QED
    BY <2>1, <2>2
<1>3. CASE UNCHANGED vars
  <2>1. \A b \in Conns : Same(b)
    BY <1>3 DEF vars, Same
  <2>. QED
    BY <1>1, <2>1, Frame DEF Inv
<1>. QED
    BY <1>1, <1>2, <1>3 DEF Inv, Next, Ended

\* Every state a run of the tracker reaches satisfies the invariant.
LEMMA Invariance == Spec => []Inv
    BY InvInit, InvStep, PTL DEF Spec

-----------------------------------------------------------------------------
(* No session leaks, and the threshold decides *)

\* A connection whose goroutines have ended is not counted: no activation that
\* overlaps the close leaves a device online for ever.
THEOREM SessionsEnd ==
    ASSUME Dirs # {}
    PROVE  Spec => []NoLeakedSession
<1>1. Inv => NoLeakedSession
  <2> SUFFICES ASSUME Inv, NEW c \in Conns, \A d \in Dirs : pc[<<c, d>>] = "ended"
               PROVE  ~Holding(c)
    BY DEF NoLeakedSession
  <2>1. ConnOK(c)
    BY DEF Inv
  <2>2. closed[c] /\ ~At(c, {"closeLock", "take"})
    BY <2>1 DEF ConnOK, CloseOK, At
  <2>3. ~release[c]
    BY <2>1, <2>2 DEF ConnOK, TakerOK
  <2>4. \A d \in Dirs : ~taken[<<c, d>>]
    BY <2>1 DEF ConnOK, CloseOK
  <2>. QED
    BY <2>3, <2>4 DEF Holding
<1>. QED
    BY <1>1, Invariance, PTL

\* An open connection nobody is activating is counted exactly if both directions
\* together moved the threshold.
THEOREM ThresholdDecides == Spec => []OnlineFromThreshold
<1>1. Inv => OnlineFromThreshold
  <2> SUFFICES ASSUME Inv, NEW c \in Conns, ~closed[c], \A d \in Dirs : pc[<<c, d>>] = "idle"
               PROVE  Holding(c) <=> seen[c] >= Threshold
    BY DEF OnlineFromThreshold
  <2>1. ConnOK(c)
    BY DEF Inv
  <2>2. ~At(c, Deciding)
    BY DEF At, Deciding
  <2>3. \A d \in Dirs : ~taken[<<c, d>>]
    BY <2>1 DEF ConnOK, CloseOK
  <2>. QED
    BY <2>1, <2>2, <2>3 DEF ConnOK, ThresholdOK, Holding
<1>. QED
    BY <1>1, Invariance, PTL

-----------------------------------------------------------------------------
(* Sessions open once and end once *)

\* What a statement does to the session of its connection.
LEMMA SessionStep ==
    ASSUME TypeOK, NEW c \in Conns, NEW d \in Dirs, ConnOK(c)
    PROVE  /\ Open(c, d) => ~Holding(c) /\ Holding(c)'
           /\ Release(c, d) => Holding(c) /\ ~Holding(c)'
           /\ \/ Transfer(c, d) \/ Close(c, d) \/ Check(c, d) \/ Add(c, d) \/ Lock(c, d)
              \/ Recheck(c, d) \/ StoreActive(c, d) \/ SwapClosed(c, d) \/ TakeRelease(c, d)
              => (Holding(c)' <=> Holding(c)) /\ refs' = refs
<1>1. <<c, d>> \in Threads
    BY DEF Threads
<1>2. ASSUME Open(c, d) PROVE ~Holding(c) /\ Holding(c)'
  <2>1. pc[<<c, d>>] = "open" /\ release'[c] = TRUE
    BY <1>2, Moves DEF Open, TypeOK
  <2>2. At(c, {"open"})
    BY <2>1 DEF At
  <2>3. ~Holding(c)
    BY <2>2 DEF ConnOK, OpenOK
  <2>4. Holding(c)'
    BY <2>1 DEF Holding
  <2>. QED
    BY <2>3, <2>4
<1>3. ASSUME Release(c, d) PROVE Holding(c) /\ ~Holding(c)'
  <2>1. pc[<<c, d>>] = "release"
    BY <1>3, Moves DEF Release
  <2>2. taken[<<c, d>>] /\ closed[c]
    BY <2>1 DEF ConnOK, CloseOK, Leaving
  <2>3. \A e \in Dirs \ {d} : ~taken[<<c, e>>] /\ pc[<<c, e>>] \notin {"closeLock", "take"}
    BY <2>1 DEF ConnOK, CloseOK, Leaving
  <2>4. ~release[c]
    BY <2>1, <2>2, <2>3 DEF ConnOK, TakerOK, At
  <2>5. ~release'[c] /\ \A e \in Dirs : ~taken'[<<c, e>>]
    BY <1>1, <1>3, <2>3, <2>4 DEF Release, TypeOK, Threads
  <2>. QED
    BY <2>2, <2>5 DEF Holding
<1>4. ASSUME \/ Transfer(c, d) \/ Close(c, d) \/ Check(c, d) \/ Add(c, d) \/ Lock(c, d)
             \/ Recheck(c, d) \/ StoreActive(c, d) \/ SwapClosed(c, d)
      PROVE  (Holding(c)' <=> Holding(c)) /\ refs' = refs
    BY <1>4 DEF Transfer, Close, Check, Add, Lock, Recheck, StoreActive, SwapClosed, Holding
<1>5. ASSUME TakeRelease(c, d) PROVE (Holding(c)' <=> Holding(c)) /\ refs' = refs
  <2>1. pc[<<c, d>>] = "take"
    BY <1>5, Moves DEF TakeRelease
  <2>2. ~taken[<<c, d>>]
    BY <2>1 DEF ConnOK, CloseOK
  <2>3. /\ ~release'[c] /\ taken'[<<c, d>>] = release[c]
        /\ \A e \in Dirs \ {d} : taken'[<<c, e>>] = taken[<<c, e>>]
    BY <1>1, <1>5 DEF TakeRelease, TypeOK, Threads
  <2>. QED
    BY <1>5, <2>2, <2>3 DEF Holding, TakeRelease
<1>. QED
    BY <1>2, <1>3, <1>4, <1>5

\* Every statement leaves the phase of its connection as it is, or takes it from
\* pending to online, or takes it to gone.
LEMMA PhaseStep ==
    ASSUME TypeOK, NEW c \in Conns, ConnOK(c), NEW d \in Dirs,
           Transfer(c, d) \/ Close(c, d) \/ Running(c, d)
    PROVE  \/ PhaseOf(c)' = PhaseOf(c)
           \/ PhaseOf(c) = "pending" /\ PhaseOf(c)' = "online"
           \/ PhaseOf(c) # "gone" /\ PhaseOf(c)' = "gone"
<1>1. CASE Open(c, d)
  <2>1. PhaseOf(c)' = "online"
    BY <1>1, SessionStep DEF PhaseOf
  <2>2. Opening(c)
    BY <1>1, Moves DEF Open, Opening
  <2>. QED
    BY <1>1, <2>1, <2>2, SessionStep DEF PhaseOf
<1>2. CASE Release(c, d)
  <2>1. pc[<<c, d>>] = "release" /\ \A e \in Dirs \ {d} : pc'[<<c, e>>] = pc[<<c, e>>]
    BY <1>2, Moves DEF Release
  <2>2. closed[c] /\ closed'[c]
    BY <1>2, <2>1 DEF ConnOK, CloseOK, Leaving, Release
  <2>3. ~At(c, {"closeLock", "take"})
    BY <2>1 DEF ConnOK, CloseOK, Leaving, At
  <2>4. ~Opening(c)
    BY <2>2, <2>3 DEF ConnOK, TakerOK, At, Opening
  <2>5. ~Opening(c)'
    BY <1>2, <2>1, <2>4, Moves DEF Release, Opening
  <2>. QED
    BY <1>2, <2>2, <2>5, SessionStep DEF PhaseOf
<1>3. CASE Recheck(c, d)
  <2>1. pc[<<c, d>>] = "recheck" /\ \A e \in Dirs \ {d} : pc'[<<c, e>>] = pc[<<c, e>>]
    BY <1>3, Moves DEF Recheck
  <2>2. closed'[c] = closed[c] /\ (closed[c] => pc'[<<c, d>>] = "idle")
    BY <1>3, Moves DEF Recheck
  <2>3. closed[c] => (Opening(c)' <=> Opening(c))
    BY <2>1, <2>2 DEF Opening
  <2>. QED
    BY <1>3, <2>2, <2>3, SessionStep DEF PhaseOf
<1>4. CASE SwapClosed(c, d)
  <2>1. /\ pc[<<c, d>>] = "swap" /\ pc'[<<c, d>>] \in {"ended", "closeLock"}
        /\ \A e \in Dirs \ {d} : pc'[<<c, e>>] = pc[<<c, e>>]
    BY <1>4, Moves DEF SwapClosed
  <2>2. Opening(c)' <=> Opening(c)
    BY <2>1 DEF Opening
  <2>3. closed'[c]
    BY <1>4 DEF SwapClosed, TypeOK
  <2>. QED
    BY <1>4, <2>2, <2>3, SessionStep DEF PhaseOf
<1>5. CASE \/ Transfer(c, d) \/ Close(c, d) \/ Check(c, d) \/ Add(c, d) \/ Lock(c, d)
           \/ StoreActive(c, d) \/ TakeRelease(c, d)
  <2>1. pc[<<c, d>>] # "open" /\ pc'[<<c, d>>] # "open"
    BY <1>5, Moves DEF Transfer, Close, Check, Add, Lock, StoreActive, TakeRelease
  <2>2. \A e \in Dirs \ {d} : pc'[<<c, e>>] = pc[<<c, e>>]
    BY <1>5, Moves DEF Transfer, Close, Check, Add, Lock, StoreActive, TakeRelease
  <2>3. Opening(c)' <=> Opening(c)
    BY <2>1, <2>2 DEF Opening
  <2>4. closed' = closed
    BY <1>5 DEF Transfer, Close, Check, Add, Lock, StoreActive, TakeRelease
  <2>. QED
    BY <1>5, <2>3, <2>4, SessionStep DEF PhaseOf
<1>. QED
    BY <1>1, <1>2, <1>3, <1>4, <1>5 DEF Running, Activation, Closing

\* A connection nothing changes of keeps its session.
LEMMA SamePhase ==
    ASSUME NEW c \in Conns, Same(c)
    PROVE  (Holding(c)' <=> Holding(c)) /\ PhaseOf(c)' = PhaseOf(c)
    BY DEF Same, Holding, PhaseOf, Opening

\* Each connection goes from pending to online at most once, and is gone for good.
THEOREM TrackerImplementsDevices == Spec => ImplementsOnlineDevices
<1>1. ASSUME Init PROVE Devices!Init
  <2>1. ASSUME NEW c \in Conns PROVE ~Holding(c) /\ closed[c] = FALSE
    BY <1>1 DEF Init, Holding, Threads
  <2>. QED
    BY <2>1 DEF Devices!Init, phases, PhaseOf
<1>2. ASSUME Inv, [Next]_vars PROVE [Devices!Next]_(phases)
  <2>1. ASSUME NEW c \in Conns, NEW d \in Dirs,
               Transfer(c, d) \/ Close(c, d) \/ Running(c, d)
        PROVE  phases' = phases \/ Devices!Activate(c) \/ Devices!Leave(c)
    <3>1. \A b \in Conns \ {c} : PhaseOf(b)' = PhaseOf(b)
      BY <1>2, <2>1, OthersSame, SamePhase DEF Inv
    <3>2. \/ PhaseOf(c)' = PhaseOf(c)
          \/ PhaseOf(c) = "pending" /\ PhaseOf(c)' = "online"
          \/ PhaseOf(c) # "gone" /\ PhaseOf(c)' = "gone"
      BY <1>2, <2>1, PhaseStep DEF Inv
    <3>3. CASE PhaseOf(c)' = PhaseOf(c)
      BY <3>1, <3>3 DEF phases
    <3>4. CASE PhaseOf(c) = "pending" /\ PhaseOf(c)' = "online"
      <4>1. phases[c] = "pending" /\ phases' = [phases EXCEPT ![c] = "online"]
        BY <3>1, <3>4 DEF phases
      <4>. QED
        BY <4>1 DEF Devices!Activate
    <3>5. CASE PhaseOf(c) # "gone" /\ PhaseOf(c)' = "gone"
      <4>1. phases[c] # "gone" /\ phases' = [phases EXCEPT ![c] = "gone"]
        BY <3>1, <3>5 DEF phases
      <4>. QED
        BY <4>1 DEF Devices!Leave
    <3>. QED
      BY <3>2, <3>3, <3>4, <3>5
  <2>2. CASE UNCHANGED vars
    <3>1. \A b \in Conns : Same(b)
      BY <2>2 DEF vars, Same
    <3>. QED
      BY <3>1, SamePhase DEF phases
  <2>. QED
    BY <1>2, <2>1, <2>2 DEF Next, Ended, Devices!Next
<1>. QED
    BY <1>1, <1>2, Invariance, PTL DEF Spec, ImplementsOnlineDevices, Devices!Spec

-----------------------------------------------------------------------------
(* The counters are the numbers of sessions *)

\* The connections entry k counts.  Sessions open one by one, so they are finitely
\* many, however many connections there are.
Counted(k) == {c \in Conns : Holding(c) /\ k \in KeysOf[c]}

RefsInv == \A k \in RefKeys : IsFiniteSet(Counted(k)) /\ refs[k] = Cardinality(Counted(k))

\* At the start nothing is counted.
LEMMA RefsInit == Init => RefsInv
<1> SUFFICES ASSUME Init, NEW k \in RefKeys
             PROVE  IsFiniteSet(Counted(k)) /\ refs[k] = Cardinality(Counted(k))
    BY DEF RefsInv
<1>1. Counted(k) = {}
    BY DEF Init, Counted, Holding, Threads
<1>. QED
    BY <1>1, FS_EmptySet DEF Init

\* Opening adds a connection that was not counted, releasing takes one away that
\* was, and the counters follow.
LEMMA RefsStep == Inv /\ RefsInv /\ [Next]_vars => RefsInv'
<1> SUFFICES ASSUME Inv, RefsInv, [Next]_vars, NEW k \in RefKeys
             PROVE  IsFiniteSet(Counted(k))' /\ refs'[k] = Cardinality(Counted(k)')
    BY DEF RefsInv
<1>1. /\ IsFiniteSet(Counted(k)) /\ refs[k] = Cardinality(Counted(k))
      /\ Cardinality(Counted(k)) \in Nat
    BY FS_CardinalityType DEF RefsInv
<1>2. TypeOK
    BY DEF Inv
<1>3. ASSUME NEW c \in Conns, NEW d \in Dirs, Transfer(c, d) \/ Close(c, d) \/ Running(c, d)
      PROVE  IsFiniteSet(Counted(k)') /\ refs'[k] = Cardinality(Counted(k)')
  <2>1. \A b \in Conns \ {c} : Holding(b)' <=> Holding(b)
    BY <1>2, <1>3, OthersSame, SamePhase
  <2>2. ConnOK(c)
    BY DEF Inv
  <2>3. CASE Open(c, d)
    <3>1. ~Holding(c) /\ Holding(c)'
      BY <1>2, <2>2, <2>3, SessionStep
    <3>2. refs'[k] = IF k \in KeysOf[c] THEN refs[k] + 1 ELSE refs[k]
      BY <2>3 DEF Open
    <3>3. CASE k \in KeysOf[c]
      <4>1. Counted(k)' = Counted(k) \cup {c} /\ c \notin Counted(k)
        BY <2>1, <3>1, <3>3 DEF Counted
      <4>. QED
        BY <1>1, <3>2, <3>3, <4>1, FS_AddElement
    <3>4. CASE k \notin KeysOf[c]
      <4>1. Counted(k)' = Counted(k)
        BY <2>1, <3>4 DEF Counted
      <4>. QED
        BY <1>1, <3>2, <3>4, <4>1
    <3>. QED
      BY <3>3, <3>4
  <2>4. CASE Release(c, d)
    <3>1. Holding(c) /\ ~Holding(c)'
      BY <1>2, <2>2, <2>4, SessionStep
    <3>2. refs'[k] = IF k \in KeysOf[c] THEN IF refs[k] - 1 <= 0 THEN 0 ELSE refs[k] - 1
                     ELSE refs[k]
      BY <2>4 DEF Release
    <3>3. CASE k \in KeysOf[c]
      <4>1. Counted(k)' = Counted(k) \ {c} /\ c \in Counted(k)
        BY <2>1, <3>1, <3>3 DEF Counted
      <4>2. /\ IsFiniteSet(Counted(k)') /\ Cardinality(Counted(k)') \in Nat
            /\ Cardinality(Counted(k)') = Cardinality(Counted(k)) - 1
        BY <1>1, <4>1, FS_RemoveElement, FS_CardinalityType
      <4>. QED
        BY <1>1, <3>2, <3>3, <4>2
    <3>4. CASE k \notin KeysOf[c]
      <4>1. Counted(k)' = Counted(k)
        BY <2>1, <3>4 DEF Counted
      <4>. QED
        BY <1>1, <3>2, <3>4, <4>1
    <3>. QED
      BY <3>3, <3>4
  <2>5. CASE ~Open(c, d) /\ ~Release(c, d)
    <3>1. (Holding(c)' <=> Holding(c)) /\ refs' = refs
      BY <1>2, <1>3, <2>2, <2>5, SessionStep DEF Running, Activation, Closing
    <3>2. Counted(k)' = Counted(k)
      BY <2>1, <3>1 DEF Counted
    <3>. QED
      BY <1>1, <3>1, <3>2
  <2>. QED
    BY <2>3, <2>4, <2>5
<1>4. CASE UNCHANGED vars
  <2>1. Counted(k)' = Counted(k) /\ refs' = refs
    BY <1>4 DEF vars, Counted, Holding
  <2>. QED
    BY <1>1, <2>1
<1>. QED
    BY <1>3, <1>4 DEF Next, Ended

\* An entry counts exactly the connections that hold it: two directions that cross
\* the threshold together count once, and no release is lost or repeated.
THEOREM EntriesCountSessions == Spec => []RefsMatchSessions
<1>1. RefsInv => RefsMatchSessions
    BY DEF RefsInv, RefsMatchSessions, Counted
<1>. QED
    BY <1>1, RefsInit, RefsStep, Invariance, PTL DEF Spec

-----------------------------------------------------------------------------
(***************************************************************************)
(* Alive reporting, whatever makes the devices come and go.                 *)
(***************************************************************************)

\* Each client has one tag.  When two tags are routed to one client, the list of
\* one takes the place of the other's.
OneTagEach == \A s, t \in Tags : PanelOf[s] = PanelOf[t] => s = t

\* A payload is the difference of the snapshot and the memory of its round, as
\* neither changes before the round ends.
PayloadIsDelta == round = "push" => payload = Delta

AliveInv == AliveTypeOK /\ PayloadIsDelta /\ LastAliveIsShown /\ PushIsOneSnapshot

-----------------------------------------------------------------------------
(* Type correctness *)

LEMMA PeersArePairs == \A t \in Tags, u \in Users : <<t, u>> \in Peers
BY DEF Peers

LEMMA DeltaType ==
    ASSUME AliveTypeOK
    PROVE  /\ DOMAIN Delta \subseteq Peers
           /\ \A p \in DOMAIN Delta : Delta[p] = current[p] /\ Delta[p] \subseteq Ips
BY DEF AliveTypeOK, Delta

LEMMA EndRoundType ==
    ASSUME EndRound
    PROVE  /\ current' \in [Peers -> SUBSET Ips]
           /\ DOMAIN payload' = {} /\ todo' = {} /\ round' = "tick"
BY DEF EndRound, NoDevices, NoDelta

LEMMA TakeType ==
    ASSUME AliveTypeOK, NEW i \in Clients, Take(i)
    PROVE  view' \in [Clients -> [Users -> SUBSET Ips]]
<1>1. PICK pick \in [Users -> Tags] :
        /\ \A u \in Users : Entries(i, u) # {} => pick[u] \in Entries(i, u)
        /\ view' = [view EXCEPT ![i] =
                     [u \in Users |-> IF Entries(i, u) # {} THEN payload[<<pick[u], u>>]
                                      ELSE view[i][u]]]
  BY DEF Take
<1> DEFINE list(u) == IF Entries(i, u) # {} THEN payload[<<pick[u], u>>] ELSE view[i][u]
<1>2. ASSUME NEW u \in Users PROVE list(u) \in SUBSET Ips
  <2>1. view[i][u] \in SUBSET Ips
    BY DEF AliveTypeOK
  <2>2. Entries(i, u) # {} => <<pick[u], u>> \in DOMAIN payload
    BY <1>1 DEF Entries
  <2> QED
    BY <2>1, <2>2 DEF AliveTypeOK
<1>3. view' = [view EXCEPT ![i] = [u \in Users |-> list(u)]]
  BY <1>1
<1> HIDE DEF list
<1> QED
  BY <1>2, <1>3 DEF AliveTypeOK

LEMMA AliveTypeInit == InitAlive => AliveTypeOK
BY DEF InitAlive, AliveTypeOK, NoDevices, NoDelta

LEMMA AliveTypeStep == AliveTypeOK /\ [NextAlive]_aliveVars => AliveTypeOK'
<1> SUFFICES ASSUME AliveTypeOK, [NextAlive]_aliveVars PROVE AliveTypeOK'
  OBVIOUS
<1>1. ASSUME NEW p \in Peers, NEW ip \in Ips, Appear(p, ip) \/ Disappear(p, ip)
      PROVE  AliveTypeOK'
  <2>1. devices' \in [Peers -> SUBSET Ips]
    BY <1>1 DEF AliveTypeOK, Appear, Disappear
  <2> QED
    BY <1>1, <2>1 DEF AliveTypeOK, Appear, Disappear
<1>2. CASE DevicesSnapshot
  BY <1>2 DEF AliveTypeOK, DevicesSnapshot
<1>3. CASE AliveDelta
  BY <1>3, DeltaType, EndRoundType DEF AliveTypeOK, AliveDelta
<1>4. ASSUME NEW i \in Clients, PushSkipped(i) PROVE AliveTypeOK'
  BY <1>4 DEF AliveTypeOK, PushSkipped, Asked
<1>5. ASSUME NEW i \in Clients, PushAccepted(i) PROVE AliveTypeOK'
  BY <1>5, TakeType DEF AliveTypeOK, PushAccepted, Asked
<1>6. ASSUME NEW i \in Clients, PushRefused(i) PROVE AliveTypeOK'
  BY <1>6, EndRoundType DEF AliveTypeOK, PushRefused
<1>7. ASSUME NEW i \in Clients, PushAnswerLost(i) PROVE AliveTypeOK'
  BY <1>7, TakeType, EndRoundType DEF AliveTypeOK, PushAnswerLost
<1>8. CASE CommitAlive
  <2>1. lastAlive' \in [Peers -> SUBSET Ips]
    BY <1>8 DEF AliveTypeOK, CommitAlive
  <2> QED
    BY <1>8, <2>1, EndRoundType DEF AliveTypeOK, CommitAlive
<1>9. CASE Exit
  BY <1>9 DEF AliveTypeOK, Exit, NoDevices, NoDelta
<1>10. CASE UNCHANGED aliveVars
  BY <1>10 DEF AliveTypeOK, aliveVars
<1> QED
  BY <1>1, <1>2, <1>3, <1>4, <1>5, <1>6, <1>7, <1>8, <1>9, <1>10
  DEF NextAlive, Syncer, Push, Exited

\* The variables keep their types: what is remembered, sent and shown are sets of
\* addresses of known tags and users, whatever fails.
THEOREM AliveTypeCorrect == AliveSpec => []AliveTypeOK
BY AliveTypeInit, AliveTypeStep, PTL DEF AliveSpec

-----------------------------------------------------------------------------
(* What is shown *)

\* A client shows for a user what two maps say alike if they agree on its tags.
LEMMA SameIsShown ==
    ASSUME NEW m, NEW n, NEW i \in Clients, NEW u \in Users,
           \A t \in Tags : PanelOf[t] = i => m[<<t, u>>] = n[<<t, u>>]
    PROVE  ShownFor(m, i, u) = ShownFor(n, i, u)
BY DEF ShownFor

\* A client without an entry for a user: nothing changed under its tags.
LEMMA NoEntryNoChange ==
    ASSUME AliveTypeOK, payload = Delta, NEW i \in Clients, NEW u \in Users, Entries(i, u) = {}
    PROVE  ShownFor(lastAlive, i, u) = ShownFor(current, i, u)
<1>1. ASSUME NEW t \in Tags, PanelOf[t] = i
      PROVE  lastAlive[<<t, u>>] = current[<<t, u>>]
  <2>1. <<t, u>> \in Peers /\ <<t, u>> \notin DOMAIN Delta
    BY <1>1, PeersArePairs DEF Entries
  <2> QED
    BY <2>1 DEF Delta
<1> QED
  BY <1>1, SameIsShown

\* What a client shows after it took its part is the snapshot of the round.
LEMMA TakenIsShown ==
    ASSUME AliveTypeOK, OneTagEach, payload = Delta, NEW i \in Clients, Take(i),
           \A u \in Users : view[i][u] = ShownFor(lastAlive, i, u),
           NEW u \in Users
    PROVE  view'[i][u] = ShownFor(current, i, u)
<1>1. PICK pick \in [Users -> Tags] :
        /\ \A v \in Users : Entries(i, v) # {} => pick[v] \in Entries(i, v)
        /\ view' = [view EXCEPT ![i] =
                     [v \in Users |-> IF Entries(i, v) # {} THEN payload[<<pick[v], v>>]
                                      ELSE view[i][v]]]
  BY DEF Take
<1>2. view'[i][u] = IF Entries(i, u) # {} THEN payload[<<pick[u], u>>] ELSE view[i][u]
  BY <1>1 DEF AliveTypeOK
<1>3. CASE Entries(i, u) = {}
  BY <1>2, <1>3, NoEntryNoChange
<1>4. CASE Entries(i, u) # {}
  <2>1. pick[u] \in Tags /\ PanelOf[pick[u]] = i /\ <<pick[u], u>> \in DOMAIN payload
    BY <1>1, <1>4 DEF Entries
  <2>2. {t \in Tags : PanelOf[t] = i} = {pick[u]}
    BY <2>1 DEF OneTagEach
  <2>3. ShownFor(current, i, u) = current[<<pick[u], u>>]
    <3>1. ShownFor(current, i, u) = UNION {current[<<t, u>>] : t \in {pick[u]}}
      BY <2>2 DEF ShownFor
    <3>2. \A ip : ip \in ShownFor(current, i, u) <=> ip \in current[<<pick[u], u>>]
      BY <3>1
    <3> QED
      BY <3>2
  <2>4. payload[<<pick[u], u>>] = current[<<pick[u], u>>]
    BY <2>1, DeltaType
  <2> QED
    BY <1>2, <1>4, <2>3, <2>4
<1> QED
  BY <1>3, <1>4

-----------------------------------------------------------------------------
LEMMA AliveInvInit == InitAlive => AliveInv
<1> SUFFICES ASSUME InitAlive PROVE AliveInv
  OBVIOUS
<1>1. \A i \in Clients, u \in Users : view[i][u] = ShownFor(lastAlive, i, u)
  <2>1. ASSUME NEW i \in Clients, NEW u \in Users PROVE ShownFor(lastAlive, i, u) = {}
    BY PeersArePairs DEF InitAlive, ShownFor, NoDevices
  <2> QED
    BY <2>1 DEF InitAlive
<1> QED
  BY <1>1, AliveTypeInit DEF InitAlive, AliveInv, PayloadIsDelta, LastAliveIsShown, PushIsOneSnapshot, Shown

\* Devices come and go, and neither memory nor panel takes note.
LEMMA DevicesOnlyStep ==
    ASSUME AliveInv, AliveTypeOK', UNCHANGED <<lastAlive, current, payload, todo, round, view, faults>>
    PROVE  AliveInv'
<1>1. PayloadIsDelta'
  BY DEF AliveInv, PayloadIsDelta, Delta
<1>2. LastAliveIsShown'
  BY DEF AliveInv, LastAliveIsShown, Shown
<1>3. PushIsOneSnapshot'
  BY DEF AliveInv, PushIsOneSnapshot
<1> QED
  BY <1>1, <1>2, <1>3 DEF AliveInv

\* After a failure that left part of a push at a client nothing is promised.
LEMMA AfterFaults ==
    ASSUME AliveTypeOK, AliveTypeOK', faults' = faults + 1, round' # "push"
    PROVE  AliveInv'
BY DEF AliveInv, AliveTypeOK, PayloadIsDelta, LastAliveIsShown, PushIsOneSnapshot

LEMMA AliveDeltaStep ==
    ASSUME AliveInv, AliveTypeOK', AliveDelta
    PROVE  AliveInv'
<1>1. CASE EndRound
  BY <1>1 DEF AliveInv, AliveDelta, EndRound, PayloadIsDelta, LastAliveIsShown, PushIsOneSnapshot, Shown
<1>2. CASE Delta # NoDelta /\ payload' = Delta /\ todo' = Clients /\ round' = "push" /\ UNCHANGED current
  <2>1. PayloadIsDelta'
    BY <1>2 DEF AliveDelta, PayloadIsDelta, Delta
  <2>2. LastAliveIsShown'
    BY <1>2 DEF LastAliveIsShown
  <2>3. round = "diff" /\ UNCHANGED <<lastAlive, view, faults>>
    BY DEF AliveDelta
  <2>4. faults = 0 => \A i \in Clients, u \in Users : view[i][u] = ShownFor(lastAlive, i, u)
    BY <2>3 DEF AliveInv, LastAliveIsShown, Shown
  <2>5. PushIsOneSnapshot'
    BY <1>2, <2>3, <2>4 DEF PushIsOneSnapshot
  <2> QED
    BY <2>1, <2>2, <2>5 DEF AliveInv
<1> QED
  BY <1>1, <1>2 DEF AliveDelta

\* A client that was asked shows the snapshot, and all others what they did.
LEMMA AskedStep ==
    ASSUME AliveInv, AliveTypeOK', NEW i \in todo, round = "push", Asked(i),
           UNCHANGED <<devices, lastAlive, faults>>,
           \A j \in Clients \ {i}, u \in Users : view'[j][u] = view[j][u],
           faults = 0 => \A u \in Users : view'[i][u] = ShownFor(current, i, u)
    PROVE  AliveInv'
<1>1. PayloadIsDelta'
  BY DEF AliveInv, PayloadIsDelta, Asked, Delta
<1>2. LastAliveIsShown'
  BY DEF LastAliveIsShown, Asked
<1>3. ASSUME faults = 0, NEW j \in Clients, NEW u \in Users
      PROVE  view'[j][u] = ShownFor(IF j \in todo' THEN lastAlive' ELSE current', j, u)
  BY <1>3 DEF AliveInv, PushIsOneSnapshot, Asked
<1>4. PushIsOneSnapshot'
  BY <1>3 DEF PushIsOneSnapshot
<1> QED
  BY <1>1, <1>2, <1>4 DEF AliveInv

LEMMA PushSkippedStep ==
    ASSUME AliveInv, AliveTypeOK', NEW i \in Clients, PushSkipped(i)
    PROVE  AliveInv'
<1>1. round = "push" /\ i \in todo /\ payload = Delta
  BY DEF PushSkipped, AliveInv, PayloadIsDelta
<1>2. ASSUME faults = 0, NEW u \in Users PROVE view'[i][u] = ShownFor(current, i, u)
  <2>1. view[i][u] = ShownFor(lastAlive, i, u)
    BY <1>1, <1>2 DEF AliveInv, PushIsOneSnapshot
  <2>2. Entries(i, u) = {}
    BY DEF PushSkipped, HasPart
  <2> QED
    BY <1>1, <2>1, <2>2, NoEntryNoChange DEF AliveInv, PushSkipped
<1> QED
  BY <1>1, <1>2, AskedStep DEF PushSkipped

LEMMA PushAcceptedStep ==
    ASSUME AliveInv, OneTagEach, AliveTypeOK', NEW i \in Clients, PushAccepted(i)
    PROVE  AliveInv'
<1>1. round = "push" /\ i \in todo /\ payload = Delta
  BY DEF PushAccepted, AliveInv, PayloadIsDelta
<1>2. \A j \in Clients \ {i} : view'[j] = view[j]
  BY DEF PushAccepted, Take, AliveInv, AliveTypeOK
<1>3. ASSUME faults = 0, NEW u \in Users PROVE view'[i][u] = ShownFor(current, i, u)
  <2>1. \A v \in Users : view[i][v] = ShownFor(lastAlive, i, v)
    BY <1>1, <1>3 DEF AliveInv, PushIsOneSnapshot
  <2> QED
    BY <1>1, <2>1, TakenIsShown DEF AliveInv, PushAccepted
<1> QED
  BY <1>1, <1>2, <1>3, AskedStep DEF PushAccepted

\* A push nobody took anything of leaves the memory true.
LEMMA PushRefusedStep ==
    ASSUME AliveInv, AliveTypeOK', NEW i \in Clients, PushRefused(i)
    PROVE  AliveInv'
<1>1. round = "push" /\ payload = Delta /\ round' = "tick" /\ UNCHANGED <<lastAlive, view>>
  BY DEF PushRefused, EndRound, AliveInv, PayloadIsDelta
<1>2. CASE faults' = faults + 1
  BY <1>1, <1>2, AfterFaults DEF AliveInv
<1>3. CASE (\A j \in Clients \ todo : ~HasPart(j)) /\ UNCHANGED faults
  <2>1. ASSUME faults = 0, NEW j \in Clients, NEW u \in Users
        PROVE  view[j][u] = ShownFor(lastAlive, j, u)
    <3>1. CASE j \in todo
      BY <1>1, <2>1, <3>1 DEF AliveInv, PushIsOneSnapshot
    <3>2. CASE j \notin todo
      <4>1. view[j][u] = ShownFor(current, j, u)
        BY <1>1, <2>1, <3>2 DEF AliveInv, PushIsOneSnapshot
      <4>2. Entries(j, u) = {}
        BY <1>3, <3>2 DEF HasPart
      <4> QED
        BY <1>1, <4>1, <4>2, NoEntryNoChange DEF AliveInv
    <3> QED
      BY <3>1, <3>2
  <2>2. LastAliveIsShown'
    BY <1>1, <1>3, <2>1 DEF LastAliveIsShown, Shown
  <2> QED
    BY <1>1, <2>2 DEF AliveInv, PayloadIsDelta, PushIsOneSnapshot
<1> QED
  BY <1>2, <1>3 DEF PushRefused

\* What is committed is the snapshot every client shows by then.
LEMMA CommitAliveStep ==
    ASSUME AliveInv, AliveTypeOK', CommitAlive
    PROVE  AliveInv'
<1>1. round = "push" /\ todo = {} /\ payload = Delta /\ round' = "tick"
  BY DEF CommitAlive, EndRound, AliveInv, PayloadIsDelta
<1>2. \A p \in Peers : lastAlive'[p] = current[p]
  BY <1>1 DEF CommitAlive, Delta
<1>3. ASSUME faults = 0, NEW i \in Clients, NEW u \in Users
      PROVE  view[i][u] = ShownFor(lastAlive', i, u)
  <2>1. view[i][u] = ShownFor(current, i, u)
    BY <1>1, <1>3 DEF AliveInv, PushIsOneSnapshot
  <2>2. ShownFor(current, i, u) = ShownFor(lastAlive', i, u)
    BY <1>2, PeersArePairs, SameIsShown
  <2> QED
    BY <2>1, <2>2
<1>4. LastAliveIsShown'
  BY <1>3 DEF CommitAlive, LastAliveIsShown, Shown
<1> QED
  BY <1>1, <1>4 DEF AliveInv, PayloadIsDelta, PushIsOneSnapshot

LEMMA AliveInvStep ==
    ASSUME OneTagEach
    PROVE  AliveInv /\ [NextAlive]_aliveVars => AliveInv'
<1> SUFFICES ASSUME AliveInv, [NextAlive]_aliveVars PROVE AliveInv'
  OBVIOUS
<1>0. AliveTypeOK'
  BY AliveTypeStep DEF AliveInv
<1>1. ASSUME NEW p \in Peers, NEW ip \in Ips, Appear(p, ip) \/ Disappear(p, ip)
      PROVE  AliveInv'
  BY <1>0, <1>1, DevicesOnlyStep DEF Appear, Disappear
<1>2. CASE DevicesSnapshot
  <2>1. round = "tick" /\ round' = "diff" /\ UNCHANGED <<lastAlive, view, faults>>
    BY <1>2 DEF DevicesSnapshot
  <2>2. LastAliveIsShown'
    BY <2>1 DEF AliveInv, LastAliveIsShown, Shown
  <2> QED
    BY <1>0, <2>1, <2>2 DEF AliveInv, PayloadIsDelta, PushIsOneSnapshot
<1>3. CASE AliveDelta
  BY <1>0, <1>3, AliveDeltaStep
<1>4. ASSUME NEW i \in Clients, Push(i) PROVE AliveInv'
  <2>1. CASE PushAnswerLost(i)
    BY <1>0, <2>1, AfterFaults DEF PushAnswerLost, EndRound, AliveInv
  <2> QED
    BY <1>0, <1>4, <2>1, PushSkippedStep, PushAcceptedStep, PushRefusedStep DEF Push
<1>5. CASE CommitAlive
  BY <1>0, <1>5, CommitAliveStep
<1>6. CASE Exit
  BY <1>0, <1>6 DEF AliveInv, PayloadIsDelta, LastAliveIsShown, PushIsOneSnapshot, Exit
<1>7. CASE UNCHANGED aliveVars
  BY <1>0, <1>7, DevicesOnlyStep DEF aliveVars
<1> QED
  BY <1>1, <1>2, <1>3, <1>4, <1>5, <1>6, <1>7 DEF NextAlive, Syncer, Exited

LEMMA AliveInvariance == ASSUME OneTagEach PROVE AliveSpec => []AliveInv
<1>1. AliveInv /\ [NextAlive]_aliveVars => AliveInv'
  BY AliveInvStep
<1> QED
  BY <1>1, AliveInvInit, PTL DEF AliveSpec

\* What the agent remembers as reported is what the panel shows between two
\* pushes, so that differences are enough, after any refused pushes.
THEOREM MemoryIsShown == ASSUME OneTagEach PROVE AliveSpec => []LastAliveIsShown
<1>1. AliveInv => LastAliveIsShown
  BY DEF AliveInv
<1> QED
  BY <1>1, AliveInvariance, PTL

\* All clients of a push are sent the same moment.
THEOREM PushesAreSnapshots == ASSUME OneTagEach PROVE AliveSpec => []PushIsOneSnapshot
<1>1. AliveInv => PushIsOneSnapshot
  BY DEF AliveInv
<1> QED
  BY <1>1, AliveInvariance, PTL

-----------------------------------------------------------------------------
(***************************************************************************)
(* Both together.                                                          *)
(***************************************************************************)

\* What the syncer takes for the devices is what deviceRefs has.
DevicesAreOnline == devices = Online

LEMMA DeviceKey ==
    ASSUME OneAddressEach, NEW p \in Peers, NEW ip \in Ips
    PROVE  <<p, ip>> \in DeviceKeys /\ <<p, ip>> \in RefKeys
BY DEF DeviceKeys, OneAddressEach

\* The syncer and the end of the process leave deviceRefs alone.
LEMMA ReportKeepsDevices == Report => UNCHANGED <<devices, vars>>
BY DEF Report, Syncer, DevicesSnapshot, AliveDelta, Push, PushSkipped, PushAccepted,
       PushRefused, PushAnswerLost, CommitAlive, Exit, Exited, aliveVars

LEMMA DevicesInit == ASSUME OneAddressEach PROVE InitReporting => DevicesAreOnline
<1> SUFFICES ASSUME InitReporting PROVE devices = Online
  BY DEF DevicesAreOnline
<1>1. ASSUME NEW p \in Peers PROVE {ip \in Ips : refs[<<p, ip>>] > 0} = {}
  BY DeviceKey DEF InitReporting, Init
<1> QED
  BY <1>1 DEF InitReporting, InitAlive, NoDevices, Online

LEMMA DevicesStep == DevicesAreOnline /\ [NextReporting]_reportingVars => DevicesAreOnline'
<1> SUFFICES ASSUME DevicesAreOnline, [NextReporting]_reportingVars PROVE devices' = Online'
  BY DEF DevicesAreOnline
<1>1. CASE Session
  BY <1>1 DEF Session
<1>2. CASE UNCHANGED <<devices, vars>>
  BY <1>2 DEF DevicesAreOnline, Online, vars
<1> QED
  BY <1>1, <1>2, ReportKeepsDevices DEF NextReporting, reportingVars, aliveVars

\* Each step of the two is one of the tracker, or leaves it alone.
LEMMA TrackerStep == [NextReporting]_reportingVars => [Next]_vars
BY DEF NextReporting, Session, Report, reportingVars

\* The tracker keeps its promises next to the syncer.
THEOREM ReportingImplementsTracker == ReportingSpec => ImplementsTracker
BY TrackerStep, PTL DEF ReportingSpec, InitReporting, ImplementsTracker, Spec

\* A connection that is counted under an address is counted under no other.
LEMMA OpenAppears ==
    ASSUME OneAddressEach, TypeOK, NEW c \in Conns, NEW d \in Dirs, Open(c, d)
    PROVE  \/ Online' = Online
           \/ \E p \in Peers, ip \in Ips : Online' = [Online EXCEPT ![p] = @ \cup {ip}]
<1>1. \A k \in RefKeys : refs[k] \in Nat /\ refs'[k] = IF k \in KeysOf[c] THEN refs[k] + 1 ELSE refs[k]
  BY DEF TypeOK, Open
<1>2. CASE KeysOf[c] \cap DeviceKeys = {}
  <2>1. \A p \in Peers, ip \in Ips : refs'[<<p, ip>>] = refs[<<p, ip>>]
    BY <1>1, <1>2, DeviceKey
  <2> QED
    BY <2>1 DEF Online
<1>3. CASE KeysOf[c] \cap DeviceKeys # {}
  <2>1. PICK q \in Peers, a \in Ips : <<q, a>> \in KeysOf[c]
    BY <1>3 DEF DeviceKeys
  <2>2. \A p \in Peers, ip \in Ips : <<p, ip>> \in KeysOf[c] => p = q /\ ip = a
    BY <2>1, DeviceKey DEF OneAddressEach
  <2>3. refs'[<<q, a>>] > 0
    BY <1>1, <2>1, DeviceKey
  <2>4. ASSUME NEW p \in Peers, NEW ip \in Ips, p # q \/ ip # a
        PROVE  refs'[<<p, ip>>] = refs[<<p, ip>>]
    BY <1>1, <2>2, <2>4, DeviceKey
  <2>5. \A p \in Peers \ {q} : Online'[p] = Online[p]
    BY <2>4 DEF Online
  <2>6. \A ip \in Ips : ip \in Online'[q] <=> ip \in Online[q] \/ ip = a
    BY <2>3, <2>4 DEF Online
  <2>7. Online'[q] = Online[q] \cup {a}
    BY <2>6 DEF Online
  <2>8. Online' = [Online EXCEPT ![q] = @ \cup {a}]
    BY <2>5, <2>7 DEF Online
  <2> QED
    BY <2>8
<1> QED
  BY <1>2, <1>3

LEMMA ReleaseDisappears ==
    ASSUME OneAddressEach, TypeOK, NEW c \in Conns, NEW d \in Dirs, Release(c, d)
    PROVE  \/ Online' = Online
           \/ \E p \in Peers, ip \in Ips : Online' = [Online EXCEPT ![p] = @ \ {ip}]
<1>1. \A k \in RefKeys :
        /\ refs[k] \in Nat
        /\ refs'[k] = IF k \in KeysOf[c] THEN IF refs[k] - 1 <= 0 THEN 0 ELSE refs[k] - 1
                      ELSE refs[k]
  BY DEF TypeOK, Release
<1>2. CASE \A p \in Peers, ip \in Ips : refs'[<<p, ip>>] > 0 <=> refs[<<p, ip>>] > 0
  BY <1>2 DEF Online
<1>3. CASE \E p \in Peers, ip \in Ips : ~(refs'[<<p, ip>>] > 0 <=> refs[<<p, ip>>] > 0)
  <2>1. PICK q \in Peers, a \in Ips : ~(refs'[<<q, a>>] > 0 <=> refs[<<q, a>>] > 0)
    BY <1>3
  <2>2. <<q, a>> \in KeysOf[c] /\ ~(refs'[<<q, a>>] > 0)
    BY <1>1, <2>1, DeviceKey
  <2>3. \A p \in Peers, ip \in Ips : <<p, ip>> \in KeysOf[c] => p = q /\ ip = a
    BY <2>2, DeviceKey DEF OneAddressEach
  <2>4. ASSUME NEW p \in Peers, NEW ip \in Ips, p # q \/ ip # a
        PROVE  refs'[<<p, ip>>] = refs[<<p, ip>>]
    BY <1>1, <2>3, <2>4, DeviceKey
  <2>5. \A p \in Peers \ {q} : Online'[p] = Online[p]
    BY <2>4 DEF Online
  <2>6. \A ip \in Ips : ip \in Online'[q] <=> ip \in Online[q] /\ ip # a
    BY <2>2, <2>4 DEF Online
  <2>7. Online'[q] = Online[q] \ {a}
    BY <2>6 DEF Online
  <2>8. Online' = [Online EXCEPT ![q] = @ \ {a}]
    BY <2>5, <2>7 DEF Online
  <2> QED
    BY <2>8
<1> QED
  BY <1>2, <1>3

\* A statement of a connection is Appear, Disappear, or nothing to the syncer.
LEMMA SessionIsAlive ==
    ASSUME OneAddressEach, Inv, DevicesAreOnline, Session
    PROVE  [NextAlive]_aliveVars
<1>1. /\ round # "exited" /\ devices' = Online' /\ devices = Online
      /\ UNCHANGED <<lastAlive, current, payload, todo, round, view, faults>>
  BY DEF Session, DevicesAreOnline
<1>2. CASE Online' = Online
  BY <1>1, <1>2 DEF aliveVars
<1>3. ASSUME NEW p \in Peers, NEW ip \in Ips,
             \/ Online' = [Online EXCEPT ![p] = @ \cup {ip}]
             \/ Online' = [Online EXCEPT ![p] = @ \ {ip}]
      PROVE  NextAlive
  <2>1. Appear(p, ip) \/ Disappear(p, ip)
    BY <1>1, <1>3 DEF Appear, Disappear
  <2> QED
    BY <2>1 DEF NextAlive
<1>4. ASSUME NEW c \in Conns, NEW d \in Dirs, Transfer(c, d) \/ Close(c, d) \/ Running(c, d)
      PROVE  [NextAlive]_aliveVars
  <2>1. CASE Open(c, d)
    BY <1>2, <1>3, <2>1, OpenAppears DEF Inv
  <2>2. CASE Release(c, d)
    BY <1>2, <1>3, <2>2, ReleaseDisappears DEF Inv
  <2>3. CASE ~Open(c, d) /\ ~Release(c, d)
    <3>1. refs' = refs
      BY <1>4, <2>3, SessionStep DEF Inv, Running, Activation, Closing
    <3> QED
      BY <1>2, <3>1 DEF Online
  <2> QED
    BY <2>1, <2>2, <2>3
<1>5. CASE Ended
  BY <1>2, <1>5 DEF Ended, vars, Online
<1> QED
  BY <1>4, <1>5 DEF Session, Next

\* What alive reporting assumes of the devices, connections keep to: what is proved
\* above about deltas and the panel holds for the devices of sessions.
THEOREM ReportingImplementsAlive == ASSUME OneAddressEach PROVE ReportingSpec => ImplementsAlive
<1>1. Inv /\ DevicesAreOnline /\ [NextReporting]_reportingVars => [NextAlive]_aliveVars
  <2> SUFFICES ASSUME Inv, DevicesAreOnline, [NextReporting]_reportingVars
               PROVE  [NextAlive]_aliveVars
    OBVIOUS
  <2>1. CASE Session
    BY <2>1, SessionIsAlive
  <2>2. CASE Report
    BY <2>2 DEF Report, NextAlive
  <2>3. CASE UNCHANGED reportingVars
    BY <2>3 DEF reportingVars
  <2> QED
    BY <2>1, <2>2, <2>3 DEF NextReporting
<1>2. ReportingSpec => []Inv
  BY ReportingImplementsTracker, Invariance, PTL DEF ImplementsTracker
<1>3. ReportingSpec => []DevicesAreOnline
  BY DevicesInit, DevicesStep, PTL DEF ReportingSpec
<1> QED
  BY <1>1, <1>2, <1>3, PTL DEF ReportingSpec, InitReporting, ImplementsAlive, AliveSpec

\* An address is online under a tag of a user exactly if a connection has a session
\* from it.
LEMMA OnlineIsSession ==
    ASSUME OneAddressEach, RefsInv, NEW p \in Peers, NEW ip \in Ips
    PROVE  ip \in Online[p] <=> \E c \in Conns : <<p, ip>> \in KeysOf[c] /\ Holding(c)
<1>1. IsFiniteSet(Counted(<<p, ip>>)) /\ refs[<<p, ip>>] = Cardinality(Counted(<<p, ip>>))
  BY DeviceKey DEF RefsInv
<1>2. Cardinality(Counted(<<p, ip>>)) > 0 <=> Counted(<<p, ip>>) # {}
  BY <1>1, FS_EmptySet, FS_CardinalityType
<1>3. ip \in Online[p] <=> Counted(<<p, ip>>) # {}
  BY <1>1, <1>2 DEF Online
<1> QED
  BY <1>3 DEF Counted

\* The counters of the tracker are right next to the syncer, too.
LEMMA ReportingCounts == ASSUME OneAddressEach PROVE ReportingSpec => [](RefsInv /\ DevicesAreOnline)
<1>1. ReportingSpec => [](Inv /\ RefsInv)
  BY ReportingImplementsTracker, Invariance, RefsInit, RefsStep, PTL DEF ImplementsTracker, Spec
<1>2. ReportingSpec => []DevicesAreOnline
  BY DevicesInit, DevicesStep, PTL DEF ReportingSpec
<1> QED
  BY <1>1, <1>2, PTL

\* Every snapshot is what has a session at one moment of the tracker.
THEOREM SnapshotsAreOfSessions == ASSUME OneAddressEach PROVE ReportingSpec => SnapshotsAreSessions
<1> DEFINE Sessions == [p \in Peers |-> {ip \in Ips : \E c \in Conns :
                                            <<p, ip>> \in KeysOf[c] /\ Holding(c)}]
<1>1. RefsInv /\ DevicesAreOnline => (DevicesSnapshot => current' = Sessions)
  <2> SUFFICES ASSUME RefsInv, DevicesAreOnline, DevicesSnapshot PROVE current' = Sessions
    OBVIOUS
  <2>1. ASSUME NEW p \in Peers
        PROVE  Online[p] = {ip \in Ips : \E c \in Conns : <<p, ip>> \in KeysOf[c] /\ Holding(c)}
    <3>1. Online[p] \subseteq Ips
      BY DEF Online
    <3> QED
      BY <3>1, OnlineIsSession
  <2>2. Online = Sessions
    BY <2>1 DEF Online
  <2> QED
    BY <2>2 DEF DevicesAreOnline, DevicesSnapshot
<1> QED
  BY <1>1, ReportingCounts, PTL DEF SnapshotsAreSessions

\* What the panel shows, down to the connections: when the devices are those that
\* were reported last, it shows the addresses that have a session and no others.
THEOREM ShownIsOnline == ASSUME OneAddressEach, OneTagEach PROVE ReportingSpec => []SessionsAreShown
<1>1. RefsInv /\ DevicesAreOnline /\ LastAliveIsShown => SessionsAreShown
  <2> SUFFICES ASSUME RefsInv, DevicesAreOnline, LastAliveIsShown,
                      faults = 0, round \in {"tick", "diff"}, lastAlive = devices,
                      NEW i \in Clients, NEW u \in Users
               PROVE  view[i][u] = SessionsOf(i, u)
    BY DEF SessionsAreShown
  <2>1. view[i][u] = UNION {Online[<<t, u>>] : t \in {t \in Tags : PanelOf[t] = i}}
    BY DEF LastAliveIsShown, Shown, ShownFor, DevicesAreOnline
  <2>2. ASSUME NEW t \in Tags, NEW ip
        PROVE  ip \in Online[<<t, u>>] <=>
                   ip \in Ips /\ \E c \in Conns : <<<<t, u>>, ip>> \in KeysOf[c] /\ Holding(c)
    <3>1. Online[<<t, u>>] \subseteq Ips
      BY PeersArePairs DEF Online
    <3> QED
      BY <3>1, PeersArePairs, OnlineIsSession
  <2>3. \A ip : ip \in view[i][u] <=> ip \in SessionsOf(i, u)
    <3> SUFFICES ASSUME NEW ip
                 PROVE  ip \in view[i][u] <=> ip \in SessionsOf(i, u)
      OBVIOUS
    <3>1. ip \in view[i][u] <=> \E t \in Tags : PanelOf[t] = i /\ ip \in Online[<<t, u>>]
      BY <2>1
    <3>2. ip \in SessionsOf(i, u) <=>
            /\ ip \in Ips
            /\ \E t \in Tags, c \in Conns :
                  PanelOf[t] = i /\ <<<<t, u>>, ip>> \in KeysOf[c] /\ Holding(c)
      BY DEF SessionsOf
    <3> QED
      BY <2>2, <3>1, <3>2
  <2> QED
    BY <2>3
<1>2. ReportingSpec => []LastAliveIsShown
  BY ReportingImplementsAlive, MemoryIsShown, PTL DEF ImplementsAlive
<1> QED
  BY <1>1, <1>2, ReportingCounts, PTL

=============================================================================
