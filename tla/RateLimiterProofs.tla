------------------------- MODULE RateLimiterProofs -------------------------
(***************************************************************************)
(* Proofs about RateLimiter, for every value of its constants: its types,    *)
(* and that a change of rate never makes the bucket refuse a chunk.          *)
(***************************************************************************)
EXTENDS RateLimiter, TotalsProofs, TLAPS

\* A burst is a number, and never below the floor.
LEMMA BurstIsANumber ==
    ASSUME NEW r \in Rates
    PROVE  BurstFor(r) \in Nat /\ BurstFor(r) >= Floor
<1>1. r \in Nat /\ Window \in Nat /\ Floor \in Nat
  BY LimiterAssumption
<1>2. r * Window \in Nat
  BY <1>1
<1> QED
  BY <1>1, <1>2 DEF BurstFor

\* A quotient of naturals is one.
LEMMA QuotientIsNatural ==
    ASSUME NEW a \in Nat, NEW b \in Nat \ {0}
    PROVE  a \div b \in Nat
OBVIOUS

\* A reservation is repaid after a number of ticks.
LEMMA RepaymentEnds ==
    ASSUME rate \in Nat \ {0}, NEW left \in Int
    PROVE  RepaidIn(left) \in Nat
<1>1. CASE left < 0
  <2>1. rate - 1 - left \in Nat
    BY <1>1
  <2> QED
    BY <1>1, <2>1, QuotientIsNatural DEF RepaidIn
<1>2. CASE ~(left < 0)
  BY <1>2 DEF RepaidIn
<1> QED
  BY <1>1, <1>2

\* What is asked for is no more than what is left to wait for, and the burst is
\* never below the floor, whatever SetRate was called with.
ChunksFit ==
    /\ burst >= Floor
    /\ \A w \in Waiters : pc[w] \in {"waitN", "sleep"} => chunk[w] <= remaining[w]

Inv == TypeOK /\ ChunksFit /\ NeverRefused

LEMMA InitInv == Init => Inv
<1> SUFFICES ASSUME Init PROVE Inv
  OBVIOUS
<1>1. rate \in Nat \ {0} /\ Floor \in Nat
  BY LimiterAssumption DEF Init
<1>2. burst \in Nat /\ burst >= Floor
  BY BurstIsANumber DEF Init
<1>3. tokens \in Int /\ tokens <= burst
  BY <1>2 DEF Init
<1>4. TypeOK
  BY <1>1, <1>2, <1>3 DEF Init, TypeOK
<1>5. ChunksFit /\ NeverRefused
  BY <1>2 DEF Init, ChunksFit, NeverRefused
<1> QED
  BY <1>4, <1>5 DEF Inv

LEMMA RequestStep ==
    ASSUME Inv, NEW w \in Waiters, NEW n \in Requests, Request(w, n)
    PROVE  Inv'
<1>1. n \in Nat
  BY LimiterAssumption
<1> QED
  BY <1>1 DEF Inv, TypeOK, ChunksFit, NeverRefused, Request, Go

LEMMA SnapshotStep ==
    ASSUME Inv, NEW w \in Waiters, Snapshot(w)
    PROVE  Inv'
<1>1. Least(remaining[w], burst) \in Nat /\ Least(remaining[w], burst) <= remaining[w]
  BY DEF Inv, TypeOK, Least
<1> QED
  BY <1>1 DEF Inv, TypeOK, ChunksFit, NeverRefused, Snapshot, Go

\* The bucket refuses what is above its burst, hence above the floor.
LEMMA WaitNStep ==
    ASSUME Inv, NEW w \in Waiters, WaitN(w)
    PROVE  Inv'
<1>1. rate \in Nat \ {0} /\ Floor \in Nat
  BY LimiterAssumption DEF Inv, TypeOK
<1>2. /\ tokens \in Int /\ tokens <= burst /\ burst \in Nat
      /\ chunk[w] \in Nat /\ tokens - chunk[w] \in Int
  BY DEF Inv, TypeOK
<1>3. RepaidIn(tokens - chunk[w]) \in Nat
  BY <1>1, <1>2, RepaymentEnds
<1>4. delay' \in [Waiters -> Nat]
  BY <1>3 DEF Inv, TypeOK, WaitN
<1>5. tokens' \in Int /\ tokens' <= burst'
  BY <1>2 DEF WaitN
<1>6. TypeOK'
  BY <1>4, <1>5 DEF Inv, TypeOK, WaitN
<1>7. ChunksFit'
  BY DEF Inv, TypeOK, ChunksFit, WaitN
<1>8. NeverRefused'
  BY <1>1, <1>2 DEF Inv, TypeOK, ChunksFit, NeverRefused, WaitN
<1> QED
  BY <1>6, <1>7, <1>8 DEF Inv

LEMMA ReturnStep ==
    ASSUME Inv, NEW w \in Waiters, Return(w)
    PROVE  Inv'
<1>1. /\ pc[w] = "sleep" /\ chunk[w] \in Nat /\ remaining[w] \in Nat
      /\ chunk[w] <= remaining[w]
  BY DEF Inv, TypeOK, ChunksFit, Return, Go
<1>2. remaining' \in [Waiters -> Nat] /\ ahead' \in Int
  BY <1>1 DEF Inv, TypeOK, Return
<1> QED
  BY <1>1, <1>2 DEF Inv, TypeOK, ChunksFit, NeverRefused, Return, Go

LEMMA TickStep ==
    ASSUME Inv, Tick
    PROVE  Inv'
<1>1. rate \in Nat /\ MaxAhead \in Nat
  BY LimiterAssumption DEF Inv, TypeOK
<1>2. tokens' \in Int /\ tokens' <= burst' /\ ahead' \in Int
  BY <1>1 DEF Inv, TypeOK, Tick, Least
<1>3. delay' \in [Waiters -> Nat]
  BY DEF Inv, TypeOK, Tick
<1> QED
  BY <1>2, <1>3 DEF Inv, TypeOK, ChunksFit, NeverRefused, Tick

LEMMA SetRateStep ==
    ASSUME Inv, NEW r \in Rates, SetRate(r)
    PROVE  Inv'
<1>1. burst' \in Nat /\ burst' >= Floor
  BY BurstIsANumber DEF SetRate
<1>2. tokens' \in Int /\ tokens' <= burst'
  BY <1>1 DEF Inv, TypeOK, SetRate
<1> QED
  BY <1>1, <1>2 DEF Inv, TypeOK, ChunksFit, NeverRefused, SetRate

LEMMA NextInv == Inv /\ [Next]_vars => Inv'
<1> SUFFICES ASSUME Inv, [Next]_vars PROVE Inv'
  OBVIOUS
<1>1. ASSUME NEW w \in Waiters, NEW n \in Requests, Request(w, n) PROVE Inv'
  BY <1>1, RequestStep
<1>2. ASSUME NEW w \in Waiters, Step(w) PROVE Inv'
  BY <1>2, SnapshotStep, WaitNStep, ReturnStep DEF Step
<1>3. ASSUME NEW n \in PacketSizes, Packet(n) PROVE Inv'
  <2>1. n \in Nat
    BY LimiterAssumption
  <2> QED
    BY <1>3, <2>1 DEF Inv, TypeOK, ChunksFit, NeverRefused, Packet
<1>4. CASE Tick
  BY <1>4, TickStep
<1>5. ASSUME NEW r \in Rates, SetRate(r) PROVE Inv'
  BY <1>5, SetRateStep
<1>6. CASE Close
  BY <1>6 DEF Inv, TypeOK, ChunksFit, NeverRefused, Close
<1>7. CASE UNCHANGED vars
  BY <1>7 DEF Inv, TypeOK, ChunksFit, NeverRefused, vars
<1> QED
  BY <1>1, <1>2, <1>3, <1>4, <1>5, <1>6, <1>7 DEF Next

LEMMA Invariance == Spec => []Inv
BY InitInv, NextInv, PTL DEF Spec

\* The variables keep their types: no Wait is left with less than nothing to
\* wait for, and the bucket never holds more than its burst.
THEOREM TypeCorrect == Spec => []TypeOK
<1>1. Inv => TypeOK
  BY DEF Inv
<1> QED
  BY <1>1, Invariance, PTL

\* Whatever rates a limiter is changed to and when, a chunk no larger than the
\* floor, as all reads and writes of streams are, is never refused.
THEOREM ChunksPass == Spec => []NeverRefused
<1>1. Inv => NeverRefused
  BY DEF Inv
<1> QED
  BY <1>1, Invariance, PTL

-----------------------------------------------------------------------------
(* The rate is kept                                                         *)
(*                                                                         *)
(* The bucket lends its tokens in advance, to be repaid by sleeping.  What  *)
(* the inductive invariant has to know is when each loan is repaid: after   *)
(* any number of ticks, what the bucket then holds covers the chunks of     *)
(* those that sleep no longer.                                              *)

Asleep == {w \in Waiters : pc[w] = "sleep"}

AsleepAfter(ticks) == {w \in Asleep : delay[w] > ticks}

\* The tokens there are and the chunks not passed yet are not more than the rate
\* allows.
Funded == ahead + uncharged >= tokens + Total(chunk, Asleep)

RepaidInTime == \A ticks \in Nat : tokens + rate * ticks + Total(chunk, AsleepAfter(ticks)) >= 0

WithinBurst ==
    /\ burst = BurstFor(rate)
    /\ \A w \in Waiters : pc[w] \in {"waitN", "sleep"} => chunk[w] <= burst

IInv == Inv /\ (~changed => WithinBurst /\ Funded /\ RepaidInTime)

\* Enough ticks for a reservation repay it.
LEMMA RepaymentCovers ==
    ASSUME NEW a \in Nat, NEW b \in Nat \ {0}, NEW ticks \in Nat, ticks >= (b - 1 + a) \div b
    PROVE  b * ticks >= a
<1> DEFINE q == (b - 1 + a) \div b
<1>1. q \in Nat /\ b * q + b > b - 1 + a
  OBVIOUS
<1>2. b * ticks >= b * q
  BY <1>1
<1>3. b * ticks \in Nat /\ b * q \in Nat
  BY <1>1
<1> QED
  BY <1>1, <1>2, <1>3

LEMMA SumsAreNatural ==
    ASSUME Inv, NEW S \in SUBSET Waiters
    PROVE  IsFiniteSet(S) /\ Total(chunk, S) \in Nat /\ \A w \in S : chunk[w] \in Nat
<1>1. IsFiniteSet(S)
  BY AheadAssumption, FS_Subset
<1>2. \A w \in S : chunk[w] \in Nat
  BY DEF Inv, TypeOK
<1> QED
  BY <1>1, <1>2, TotalIsNatural

LEMMA InitIInv == Init => IInv
<1> SUFFICES ASSUME Init PROVE IInv
  OBVIOUS
<1>1. Inv /\ Asleep = {} /\ \A ticks \in Nat : AsleepAfter(ticks) = {}
  BY InitInv DEF Init, Asleep, AsleepAfter
<1>2. rate \in Nat /\ tokens = 0 /\ ahead = 0 /\ uncharged = 0
  BY LimiterAssumption DEF Init
<1>3. Funded /\ RepaidInTime
  BY <1>1, <1>2, TotalOfNothing DEF Funded, RepaidInTime
<1>4. WithinBurst
  BY DEF Init, WithinBurst
<1> QED
  BY <1>1, <1>3, <1>4 DEF IInv

\* Steps that neither take tokens nor wake or send to sleep.
LEMMA MoneyKept ==
    ASSUME IInv, Inv', ~changed', ~changed, Asleep' = Asleep,
           \A w \in Asleep : chunk'[w] = chunk[w],
           ahead' + uncharged' = ahead + uncharged, UNCHANGED <<rate, burst, tokens, delay>>
    PROVE  Funded' /\ RepaidInTime'
<1>1. Total(chunk', Asleep) = Total(chunk, Asleep)
  BY TotalSame
<1>2. Funded'
  BY <1>1 DEF IInv, Funded
<1>3. ASSUME NEW ticks \in Nat
      PROVE  AsleepAfter(ticks)' = AsleepAfter(ticks)
             /\ Total(chunk', AsleepAfter(ticks)) = Total(chunk, AsleepAfter(ticks))
  <2>1. AsleepAfter(ticks)' = AsleepAfter(ticks)
    BY DEF AsleepAfter
  <2>2. \A w \in AsleepAfter(ticks) : chunk'[w] = chunk[w]
    BY DEF AsleepAfter
  <2> QED
    BY <2>1, <2>2, TotalSame
<1>4. RepaidInTime'
  BY <1>3 DEF IInv, RepaidInTime
<1> QED
  BY <1>2, <1>4

LEMMA RequestMoney ==
    ASSUME IInv, NEW w \in Waiters, NEW n \in Requests, Request(w, n)
    PROVE  IInv'
<1>1. Inv'
  BY RequestStep DEF IInv
<1>2. Asleep' = Asleep
  BY DEF IInv, Inv, TypeOK, Request, Go, Asleep
<1>3. ASSUME ~changed' PROVE Funded' /\ RepaidInTime' /\ WithinBurst'
  <2>1. Funded' /\ RepaidInTime'
    BY <1>1, <1>2, <1>3, MoneyKept DEF Request
  <2>2. WithinBurst'
    BY <1>3 DEF IInv, Inv, TypeOK, WithinBurst, Request, Go
  <2> QED
    BY <2>1, <2>2
<1> QED
  BY <1>1, <1>3 DEF IInv

LEMMA SnapshotMoney ==
    ASSUME IInv, NEW w \in Waiters, Snapshot(w)
    PROVE  IInv'
<1>1. Inv'
  BY SnapshotStep DEF IInv
<1>2. Asleep' = Asleep /\ \A v \in Asleep : chunk'[v] = chunk[v]
  BY DEF IInv, Inv, TypeOK, Snapshot, Go, Asleep
<1>3. ASSUME ~changed' PROVE Funded' /\ RepaidInTime' /\ WithinBurst'
  <2>1. Funded' /\ RepaidInTime'
    BY <1>1, <1>2, <1>3, MoneyKept DEF Snapshot
  <2>2. Least(remaining[w], burst) <= burst
    BY DEF IInv, Inv, TypeOK, Least
  <2>3. WithinBurst'
    BY <1>3, <2>2 DEF IInv, Inv, TypeOK, WithinBurst, Snapshot, Go
  <2> QED
    BY <2>1, <2>3
<1> QED
  BY <1>1, <1>3 DEF IInv

\* Tokens are taken at once and the waiter sleeps until they are repaid.
LEMMA WaitNMoney ==
    ASSUME IInv, NEW w \in Waiters, WaitN(w)
    PROVE  IInv'
<1>1. Inv'
  BY WaitNStep DEF IInv
<1> SUFFICES ASSUME ~changed' PROVE Funded' /\ RepaidInTime' /\ WithinBurst'
  BY <1>1 DEF IInv
<1>2. ~changed /\ WithinBurst /\ Funded /\ RepaidInTime /\ chunk[w] <= burst
  BY DEF IInv, WaitN, WithinBurst
<1>3. /\ chunk[w] \in Nat /\ burst \in Nat /\ tokens \in Int /\ rate \in Nat \ {0}
      /\ ahead \in Int /\ uncharged \in Nat
  BY LimiterAssumption DEF IInv, Inv, TypeOK
<1>4. /\ pc[w] = "waitN" /\ pc' = [pc EXCEPT ![w] = "sleep"] /\ tokens' = tokens - chunk[w]
      /\ delay' = [delay EXCEPT ![w] = RepaidIn(tokens - chunk[w])]
      /\ UNCHANGED <<rate, burst, chunk, ahead, uncharged>>
  <2>1. (chunk[w] > burst) = FALSE
    BY <1>2, <1>3
  <2> QED
    BY <2>1 DEF WaitN
<1>5. /\ w \notin Asleep /\ Asleep' = Asleep \cup {w}
      /\ \A v \in Asleep : delay'[v] = delay[v]
      /\ delay'[w] = RepaidIn(tokens')
  BY <1>4 DEF IInv, Inv, TypeOK, Asleep
<1>6. Funded'
  <2>1. Total(chunk, Asleep \cup {w}) = Total(chunk, Asleep) + chunk[w]
    <3>1. IsFiniteSet(Asleep) /\ \A v \in Asleep \cup {w} : chunk[v] \in Nat
      BY <1>3, SumsAreNatural DEF IInv, Asleep
    <3> QED
      BY <1>5, <3>1, TotalWith
  <2>2. Total(chunk, Asleep) \in Nat
    BY SumsAreNatural DEF IInv, Asleep
  <2> QED
    BY <1>2, <1>3, <1>4, <1>5, <2>1, <2>2 DEF Funded
<1>7. ASSUME NEW ticks \in Nat
      PROVE  (tokens + rate * ticks + Total(chunk, AsleepAfter(ticks)) >= 0)'
  <2>1. /\ tokens + rate * ticks + Total(chunk, AsleepAfter(ticks)) >= 0
        /\ rate * ticks \in Nat
    BY <1>2, <1>3 DEF RepaidInTime
  <2>2. /\ AsleepAfter(ticks) \in SUBSET Waiters /\ AsleepAfter(ticks)' \in SUBSET Waiters
        /\ w \notin AsleepAfter(ticks)
    BY <1>5 DEF Asleep, AsleepAfter
  <2>3. /\ IsFiniteSet(AsleepAfter(ticks)) /\ Total(chunk, AsleepAfter(ticks)) \in Nat
        /\ \A v \in AsleepAfter(ticks) : chunk[v] \in Nat
        /\ Total(chunk, AsleepAfter(ticks)') \in Nat
    BY <2>2, SumsAreNatural DEF IInv
  <2>4. CASE delay'[w] > ticks
    <3>1. AsleepAfter(ticks)' = AsleepAfter(ticks) \cup {w}
      BY <1>5, <2>4 DEF AsleepAfter
    <3>2. Total(chunk, AsleepAfter(ticks) \cup {w}) = Total(chunk, AsleepAfter(ticks)) + chunk[w]
      BY <1>3, <2>2, <2>3, TotalWith
    <3> QED
      BY <1>3, <1>4, <2>1, <2>3, <3>1, <3>2
  <2>5. CASE ~(delay'[w] > ticks)
    <3>1. tokens' + rate * ticks >= 0
      <4>1. CASE tokens' < 0
        <5>1. 0 - tokens' \in Nat /\ ticks >= (rate - 1 - tokens') \div rate
          BY <1>1, <1>3, <1>4, <1>5, <2>5, <4>1 DEF RepaidIn, Inv, TypeOK
        <5>2. rate - 1 - tokens' = rate - 1 + (0 - tokens')
          BY <1>3, <1>4
        <5>3. rate * ticks >= 0 - tokens'
          BY <1>3, <5>1, <5>2, RepaymentCovers
        <5> QED
          BY <1>3, <1>4, <2>1, <5>3
      <4>2. CASE ~(tokens' < 0)
        BY <1>3, <1>4, <2>1, <4>2
      <4> QED
        BY <4>1, <4>2
    <3> QED
      BY <1>3, <1>4, <2>1, <2>3, <3>1
  <2> QED
    BY <2>4, <2>5
<1>8. WithinBurst'
  BY <1>2, <1>4 DEF WithinBurst, IInv, Inv, TypeOK
<1> QED
  BY <1>6, <1>7, <1>8 DEF RepaidInTime

\* Those that wake have slept their delay: no loan is left to repay.
LEMMA ReturnMoney ==
    ASSUME IInv, NEW w \in Waiters, Return(w)
    PROVE  IInv'
<1>1. Inv'
  BY ReturnStep DEF IInv
<1> SUFFICES ASSUME ~changed' PROVE Funded' /\ RepaidInTime' /\ WithinBurst'
  BY <1>1 DEF IInv
<1>2. /\ ~changed /\ WithinBurst /\ Funded /\ RepaidInTime
      /\ delay[w] = 0 /\ pc[w] = "sleep" /\ w \in Asleep /\ Asleep' = Asleep \ {w}
      /\ ahead' = ahead - chunk[w]
      /\ UNCHANGED <<rate, burst, tokens, chunk, delay, uncharged>>
  BY DEF IInv, Inv, TypeOK, Return, Go, Asleep
<1>3. /\ chunk[w] \in Nat /\ tokens \in Int /\ ahead \in Int /\ uncharged \in Nat
  BY DEF IInv, Inv, TypeOK
<1>4. Funded'
  <2>1. IsFiniteSet(Asleep) /\ \A v \in Asleep : chunk[v] \in Nat
    BY SumsAreNatural DEF IInv, Asleep
  <2>2. Total(chunk, Asleep) = Total(chunk, Asleep \ {w}) + chunk[w]
        /\ Total(chunk, Asleep \ {w}) \in Nat
    BY <1>2, <2>1, TotalWithout
  <2> QED
    BY <1>2, <1>3, <2>2 DEF Funded
<1>5. \A ticks \in Nat : AsleepAfter(ticks)' = AsleepAfter(ticks)
  BY <1>2 DEF AsleepAfter
<1>6. RepaidInTime'
  BY <1>2, <1>5 DEF RepaidInTime
<1>7. WithinBurst'
  BY <1>2 DEF WithinBurst, IInv, Inv, TypeOK, Return, Go
<1> QED
  BY <1>4, <1>6, <1>7

\* A tick adds tokens no faster than it adds to what may pass.
LEMMA TickMoney ==
    ASSUME IInv, Tick
    PROVE  IInv'
<1>1. Inv'
  BY TickStep DEF IInv
<1> SUFFICES ASSUME ~changed' PROVE Funded' /\ RepaidInTime' /\ WithinBurst'
  BY <1>1 DEF IInv
<1>2. /\ ~changed /\ WithinBurst /\ Funded /\ RepaidInTime
      /\ UNCHANGED <<rate, burst, pc, chunk, uncharged>>
      /\ tokens' = Least(tokens + rate, burst) /\ ahead' = Least(ahead + rate, MaxAhead)
  BY DEF IInv, Tick
<1>3. /\ tokens \in Int /\ rate \in Nat \ {0} /\ rate \in Rates /\ burst \in Nat
      /\ ahead \in Int /\ uncharged \in Nat /\ MaxAhead \in Nat
  BY LimiterAssumption DEF IInv, Inv, TypeOK
<1>4. Asleep' = Asleep /\ Asleep \in SUBSET Waiters
  BY <1>2 DEF Asleep
<1>5. Total(chunk, Asleep) \in Nat
  BY <1>4, SumsAreNatural DEF IInv
<1>6. Funded'
  <2>1. CASE ahead' = ahead + rate
    BY <1>2, <1>3, <1>4, <1>5, <2>1 DEF Funded, Least
  <2>2. CASE ahead' = MaxAhead
    <3>1. IsFiniteSet(Asleep) /\ \A w \in Asleep : chunk[w] \in 0 .. burst
      BY <1>2, <1>3, <1>4, SumsAreNatural DEF IInv, WithinBurst, Asleep
    <3>2. Total(chunk, Asleep) <= Cardinality(Asleep) * burst
      BY <1>3, <3>1, TotalBounded
    <3>3. /\ Cardinality(Asleep) \in Nat /\ Cardinality(Waiters) \in Nat
          /\ Cardinality(Asleep) <= Cardinality(Waiters)
      BY <1>4, <3>1, AheadAssumption, FS_Subset, FS_CardinalityType
    <3>4. (Cardinality(Waiters) + 1) * burst <= MaxAhead
      BY <1>2, <1>3, AheadAssumption DEF WithinBurst
    <3>5. Cardinality(Asleep) * burst + burst <= (Cardinality(Waiters) + 1) * burst
      BY <1>3, <3>3
    <3>6. Cardinality(Asleep) * burst \in Nat /\ (Cardinality(Waiters) + 1) * burst \in Nat
      BY <1>3, <3>3
    <3>7. Total(chunk, Asleep) + burst <= MaxAhead
      BY <1>3, <1>5, <3>2, <3>4, <3>5, <3>6
    <3>8. tokens' <= burst /\ tokens' \in Int
      BY <1>2, <1>3 DEF Least
    <3> QED
      BY <1>2, <1>3, <1>4, <1>5, <2>2, <3>7, <3>8 DEF Funded
  <2> QED
    BY <1>2, <2>1, <2>2 DEF Least
<1>7. ASSUME NEW ticks \in Nat
      PROVE  (tokens + rate * ticks + Total(chunk, AsleepAfter(ticks)) >= 0)'
  <2>1. AsleepAfter(ticks)' = AsleepAfter(ticks + 1)
    BY <1>4 DEF AsleepAfter, Asleep, Tick, IInv, Inv, TypeOK
  <2>2. /\ tokens + rate * (ticks + 1) + Total(chunk, AsleepAfter(ticks + 1)) >= 0
        /\ rate * (ticks + 1) = rate * ticks + rate /\ rate * ticks \in Nat
    BY <1>2, <1>3 DEF RepaidInTime
  <2>3. Total(chunk, AsleepAfter(ticks + 1)) \in Nat
    BY SumsAreNatural DEF IInv, AsleepAfter, Asleep
  <2> QED
    BY <1>2, <1>3, <2>1, <2>2, <2>3 DEF Least
<1>8. WithinBurst'
  BY <1>2 DEF WithinBurst
<1> QED
  BY <1>6, <1>7, <1>8 DEF RepaidInTime

LEMMA NextIInv == IInv /\ [Next]_vars => IInv'
<1> SUFFICES ASSUME IInv, [Next]_vars PROVE IInv'
  OBVIOUS
<1>1. Inv'
  BY NextInv DEF IInv
<1>2. ASSUME NEW w \in Waiters, NEW n \in Requests, Request(w, n) PROVE IInv'
  BY <1>2, RequestMoney
<1>3. ASSUME NEW w \in Waiters, Step(w) PROVE IInv'
  BY <1>3, SnapshotMoney, WaitNMoney, ReturnMoney DEF Step
<1>4. ASSUME NEW n \in PacketSizes, Packet(n) PROVE IInv'
  <2>1. n \in Nat /\ ahead \in Int /\ uncharged \in Nat
    BY LimiterAssumption DEF IInv, Inv, TypeOK
  <2>2. /\ UNCHANGED <<rate, burst, tokens, pc, chunk, delay, changed>>
        /\ ahead' + uncharged' = ahead + uncharged
    BY <1>4, <2>1 DEF Packet
  <2>3. Asleep' = Asleep
    BY <2>2 DEF Asleep
  <2>4. WithinBurst => WithinBurst'
    BY <2>2 DEF WithinBurst
  <2> QED
    BY <1>1, <2>2, <2>3, <2>4, MoneyKept DEF IInv
<1>5. CASE Tick
  BY <1>5, TickMoney
<1>6. CASE Close \/ \E r \in Rates : SetRate(r)
  BY <1>1, <1>6 DEF IInv, Close, SetRate
<1>7. CASE UNCHANGED vars
  <2>1. /\ UNCHANGED <<rate, burst, tokens, pc, chunk, delay, changed>>
        /\ ahead' + uncharged' = ahead + uncharged
    BY <1>7 DEF vars
  <2>2. Asleep' = Asleep
    BY <2>1 DEF Asleep
  <2>3. WithinBurst => WithinBurst'
    BY <2>1 DEF WithinBurst
  <2> QED
    BY <1>1, <2>1, <2>2, <2>3, MoneyKept DEF IInv
<1> QED
  BY <1>2, <1>3, <1>4, <1>5, <1>6, <1>7 DEF Next

LEMMA RateInvariance == Spec => []IInv
BY InitIInv, NextIInv, PTL DEF Spec

\* However many connections share a limiter, whatever they ask for and however
\* their reservations overlap: from its start on they pass no more than its rate,
\* but for packets, byte for byte.
THEOREM RatesAreKept == Spec => []RateIsKept
<1>1. IInv => RateIsKept
  <2> SUFFICES ASSUME IInv, ~changed PROVE ahead + uncharged >= 0
    BY DEF RateIsKept
  <2>1. /\ tokens \in Int /\ ahead \in Int /\ uncharged \in Nat /\ rate \in Nat
        /\ Funded /\ RepaidInTime
    BY LimiterAssumption DEF IInv, Inv, TypeOK
  <2>2. AsleepAfter(0) \in SUBSET Asleep /\ Asleep \in SUBSET Waiters
    BY DEF AsleepAfter, Asleep
  <2>3. /\ IsFiniteSet(Asleep) /\ Total(chunk, Asleep) \in Nat
        /\ Total(chunk, AsleepAfter(0)) \in Nat /\ \A w \in Asleep : chunk[w] \in Nat
    BY <2>2, SumsAreNatural DEF IInv
  <2>4. Total(chunk, AsleepAfter(0)) <= Total(chunk, Asleep)
    BY <2>2, <2>3, TotalMonotone
  <2>5. tokens + Total(chunk, AsleepAfter(0)) >= 0
    <3>1. tokens + rate * 0 + Total(chunk, AsleepAfter(0)) >= 0
      BY <2>1 DEF RepaidInTime
    <3> QED
      BY <2>1, <2>3, <3>1
  <2> QED
    BY <2>1, <2>3, <2>4, <2>5 DEF Funded
<1> QED
  BY <1>1, RateInvariance, PTL

=============================================================================
