----------------------- MODULE MachineReporterProofs -----------------------
(***************************************************************************)
(* Proofs about MachineReporter, for any number of interfaces and of         *)
(* changes of the host and any width of the counters: its types, and that    *)
(* what it reports fits what happened.                                      *)
(***************************************************************************)
EXTENDS MachineReporter, TotalsProofs, TLAPS

USE ReporterAssumption

-----------------------------------------------------------------------------
(* uint64 arithmetic *)

LEMMA ModuloIsAWord ==
    ASSUME NEW a \in Int
    PROVE  a % Modulus \in Words
BY DEF Words

LEMMA ModuloOfAWord ==
    ASSUME NEW a \in Words
    PROVE  a % Modulus = a
BY DEF Words

LEMMA Arithmetic ==
    ASSUME NEW a \in Words, NEW b \in Words
    PROVE  /\ Plus(a, b) \in Words /\ Minus(a, b) \in Words
           /\ a + b < Modulus => Plus(a, b) = a + b
           /\ b <= a => Minus(a, b) = a - b
<1>1. a \in Int /\ b \in Int /\ a + b \in Int /\ a - b \in Int
  BY DEF Words
<1>2. a + b < Modulus => a + b \in Words
  BY DEF Words
<1>3. b <= a => a - b \in Words
  BY DEF Words
<1> QED
  BY <1>1, <1>2, <1>3, ModuloIsAWord, ModuloOfAWord DEF Plus, Minus

LEMMA SmallWords == 0 \in Words /\ 1 \in Words
BY DEF Words

-----------------------------------------------------------------------------
(* Types *)

NetRecords == [bytes : Words, time : 1 .. MaxElapsed]

Statuses == [cpu : Loads, swapTotal : Words, swapUsed : Words,
             net : NetRecords \cup {None}, traffic : Words \cup {None}]

LEMMA NoStatusIsOne == NoStatus \in Statuses /\ NoLoad \in Loads
BY SmallWords DEF NoStatus, Statuses, NoLoad, Loads

LEMMA InitType == Init => TypeOK
<1> SUFFICES ASSUME Init PROVE TypeOK
  OBVIOUS
<1>1. moved \in Nat
  <2>1. \A i \in up : bytes[i] \in Nat
    BY DEF Init
  <2> QED
    BY <2>1, TotalIsNatural DEF Init
<1>2. status \in Statuses
  BY NoStatusIsOne DEF Init
<1>3. /\ busy \in Words /\ idle \in Words /\ sum \in Words
      /\ bytes \in [Interfaces -> Words] /\ swap \in [total : {0, 1}, free : {0, 1}]
  BY SmallWords DEF Init
<1>4. events \in 0 .. MaxEvents /\ elapsed \in 0 .. MaxElapsed
  BY DEF Init
<1> QED
  BY <1>1, <1>2, <1>3, <1>4 DEF Init, TypeOK, Statuses, NetRecords

LEMMA HostType ==
    ASSUME TypeOK, Host
    PROVE  TypeOK'
<1>1. events' \in 0 .. MaxEvents /\ UNCHANGED agent
  BY DEF TypeOK, Host, Event, Work, Idle, IdleFalls, Swap, Carry, Replug
<1>2. busy' \in Words /\ idle' \in Words
  <2>1. CASE Work \/ Idle
    BY <2>1, SmallWords, Arithmetic DEF TypeOK, Work, Idle
  <2>2. CASE IdleFalls
    BY <2>2 DEF TypeOK, IdleFalls, Words
  <2> QED
    BY <2>1, <2>2 DEF TypeOK, Host, Swap, Carry, Replug
<1>3. swap' \in [total : {0, 1}, free : {0, 1}]
  BY DEF TypeOK, Host, Work, Idle, IdleFalls, Swap, Carry, Replug
<1>4. bytes' \in [Interfaces -> Words] /\ up' \subseteq Interfaces
  <2>1. ASSUME NEW i \in Interfaces, Carry(i)
        PROVE  bytes' \in [Interfaces -> Words] /\ up' \subseteq Interfaces
    BY <2>1, SmallWords, Arithmetic DEF TypeOK, Carry
  <2>2. ASSUME NEW i \in Interfaces, Replug(i)
        PROVE  bytes' \in [Interfaces -> Words] /\ up' \subseteq Interfaces
    BY <2>2, SmallWords DEF TypeOK, Replug
  <2> QED
    BY <2>1, <2>2 DEF TypeOK, Host, Work, Idle, IdleFalls, Swap
<1>5. /\ fell' \in BOOLEAN /\ changed' \in BOOLEAN
      /\ moved' \in Nat /\ base' \in Nat /\ reported' \in Nat
  <2>1. CASE Work \/ Idle \/ Swap
    BY <2>1 DEF TypeOK, Work, Idle, Swap, history
  <2>2. CASE IdleFalls
    BY <2>2 DEF TypeOK, IdleFalls
  <2>3. ASSUME NEW i \in Interfaces, Carry(i) \/ Replug(i)
        PROVE  /\ fell' \in BOOLEAN /\ changed' \in BOOLEAN
               /\ moved' \in Nat /\ base' \in Nat /\ reported' \in Nat
    <3>1. /\ fell \in BOOLEAN /\ changed \in BOOLEAN
          /\ moved \in Nat /\ base \in Nat /\ reported \in Nat
      BY DEF TypeOK
    <3>2. CASE Carry(i)
      BY <3>1, <3>2 DEF Carry
    <3>3. CASE Replug(i)
      BY <3>1, <3>3 DEF Replug
    <3> QED
      BY <2>3, <3>2, <3>3
  <2> QED
    BY <2>1, <2>2, <2>3 DEF Host
<1> QED
  BY <1>1, <1>2, <1>3, <1>4, <1>5 DEF TypeOK, agent, previous

LEMMA CpuType ==
    ASSUME TypeOK, SampleCpu
    PROVE  TypeOK'
<1> DEFINE total == Plus(busy, idle)
<1>1. total \in Words /\ idle \in Words
  BY Arithmetic DEF TypeOK
<1>2. prevCpu' \in [total : Words, idle : Words] \cup {None}
  BY <1>1 DEF TypeOK, SampleCpu
<1>3. ASSUME prevCpu # None PROVE Load(total) \in Loads
  <2>1. prevCpu.total \in Words /\ prevCpu.idle \in Words
    BY <1>3 DEF TypeOK
  <2>2. Minus(total, prevCpu.total) \in Words /\ Minus(idle, prevCpu.idle) \in Words
    BY <1>1, <2>1, Arithmetic
  <2>3. Minus(Minus(total, prevCpu.total), Minus(idle, prevCpu.idle)) \in Words
    BY <2>2, Arithmetic
  <2> QED
    BY <2>2, <2>3, NoStatusIsOne DEF Load, Loads
<1>4. status' \in Statuses
  BY <1>3, NoStatusIsOne DEF SampleCpu, Statuses
<1> QED
  BY <1>2, <1>4 DEF TypeOK, SampleCpu, Statuses, NetRecords, host, history

LEMMA SwapType ==
    ASSUME TypeOK, SampleSwapTotal \/ SampleSwapFree
    PROVE  TypeOK'
<1>1. CASE SampleSwapTotal
  <2>1. swap.total \in Words /\ 0 \in Words
    BY SmallWords DEF TypeOK
  <2>2. status \in Statuses
    BY DEF TypeOK, Statuses, NetRecords
  <2>3. status' \in Statuses
    BY <1>1, <2>1, <2>2 DEF SampleSwapTotal, Statuses
  <2> QED
    BY <1>1, <2>3 DEF TypeOK, SampleSwapTotal, Statuses, NetRecords, host, previous, history
<1>2. CASE SampleSwapFree
  <2>1. swap.free \in Words /\ 0 \in Words
    BY SmallWords DEF TypeOK
  <2>2. status \in Statuses
    BY DEF TypeOK, Statuses, NetRecords
  <2>3. \A a, b \in Words : Used(a, b) \in Words
    BY SmallWords, Arithmetic DEF Used
  <2>4. status' \in Statuses
    BY <1>2, <2>1, <2>2, <2>3 DEF SampleSwapFree, Statuses
  <2> QED
    BY <1>2, <2>4 DEF TypeOK, SampleSwapFree, Statuses, NetRecords, host, previous, history
<1> QED
  BY <1>1, <1>2

LEMMA NetworkType ==
    ASSUME TypeOK,
           \/ ListInterfaces \/ ListFails
           \/ \E i \in Interfaces : ReadInterface(i)
           \/ FirstNetwork \/ NoTimePassed \/ Network
    PROVE  TypeOK'
<1>0. status \in Statuses
  BY DEF TypeOK, Statuses, NetRecords
<1>1. CASE ListInterfaces \/ ListFails
  BY <1>1, SmallWords DEF TypeOK, ListInterfaces, ListFails, host, previous, history
<1>2. ASSUME NEW i \in Interfaces, ReadInterface(i) PROVE TypeOK'
  <2>1. sum' \in Words /\ todo' \subseteq Interfaces
    BY <1>2, Arithmetic DEF TypeOK, ReadInterface
  <2> QED
    BY <1>2, <2>1 DEF TypeOK, ReadInterface, host, previous, history
<1>3. CASE FirstNetwork
  <2>1. status' \in Statuses /\ base' \in Nat
    BY <1>0, <1>3 DEF TypeOK, FirstNetwork, Statuses, Words
  <2> QED
    BY <1>3, <2>1, SmallWords DEF TypeOK, FirstNetwork, Statuses, NetRecords, host
<1>4. CASE NoTimePassed
  <2>1. status' \in Statuses
    BY <1>0, <1>4 DEF TypeOK, NoTimePassed, Statuses
  <2> QED
    BY <1>4, <2>1, SmallWords
    DEF TypeOK, NoTimePassed, Statuses, NetRecords, host, previous, history
<1>5. CASE Network
  <2>1. Minus(sum, prevNet) \in Words /\ Minus(sum, prevNet) \in Nat
    <3>1. sum \in Words /\ prevNet \in Words
      BY <1>5 DEF TypeOK, Network
    <3> QED
      BY <3>1, Arithmetic DEF Words
  <2>2. [bytes |-> Minus(sum, prevNet), time |-> elapsed] \in NetRecords
    BY <1>5, <2>1 DEF TypeOK, Network, NetRecords
  <2>3. status' \in Statuses
    <3>1. /\ sum \in Words
          /\ status' = [status EXCEPT !.traffic = sum,
                                     !.net = [bytes |-> Minus(sum, prevNet), time |-> elapsed]]
      BY <1>5 DEF TypeOK, Network
    <3> QED
      BY <1>0, <2>2, <3>1 DEF Statuses
  <2>4. reported' \in Nat
    BY <1>5, <2>1 DEF TypeOK, Network
  <2> QED
    BY <1>5, <2>3, <2>4, SmallWords DEF TypeOK, Network, Statuses, NetRecords, host
<1> QED
  BY <1>1, <1>2, <1>3, <1>4, <1>5

LEMMA ReportType ==
    ASSUME TypeOK, ReportTaken \/ ReportFails \/ TickerFires \/ Return
    PROVE  TypeOK'
<1>1. status' \in Statuses
  BY NoStatusIsOne DEF TypeOK, Statuses, NetRecords, ReportTaken, ReportFails, TickerFires, Return
<1>2. panel' \in Words \cup {None}
  BY DEF TypeOK, ReportTaken, ReportFails, TickerFires, Return
<1>3. pc' \in {"wait", "cpu", "ended"} /\ UNCHANGED <<host, previous, todo, sum, stopped, history>>
  BY DEF ReportTaken, ReportFails, TickerFires, Return
<1> QED
  BY <1>1, <1>2, <1>3 DEF TypeOK, Statuses, NetRecords, host, previous, history

LEMMA NextType == TypeOK /\ [Next]_vars => TypeOK'
<1> SUFFICES ASSUME TypeOK, [Next]_vars PROVE TypeOK'
  OBVIOUS
<1>1. CASE UNCHANGED vars
  BY <1>1 DEF TypeOK, vars, host, previous, history
<1>2. CASE Tick \/ Cancel
  <2>1. elapsed' \in 0 .. MaxElapsed /\ stopped' \in BOOLEAN
    <3>1. elapsed \in 0 .. MaxElapsed /\ stopped \in BOOLEAN /\ MaxElapsed \in Nat
      BY DEF TypeOK
    <3>2. CASE Tick
      BY <3>1, <3>2 DEF Tick
    <3>3. CASE Cancel
      BY <3>1, <3>3 DEF Cancel, previous
    <3> QED
      BY <1>2, <3>2, <3>3
  <2>2. UNCHANGED <<host, pc, prevCpu, prevNet, todo, sum, status, panel, history>>
    BY <1>2 DEF Tick, Cancel, previous
  <2> QED
    BY <2>1, <2>2 DEF TypeOK, host, history
<1> QED
  BY <1>1, <1>2, HostType, CpuType, SwapType, NetworkType, ReportType
  DEF Next, Reporter, Sample, Ended

-----------------------------------------------------------------------------
(* What a sample is compared with                                           *)
(*                                                                         *)
(* Each of the three properties compares counters that were read at         *)
(* different times.  Inductive is that what was read earlier is not above   *)
(* what the counter has now, for the idle and the busy time on their own,   *)
(* and for the bytes of the interfaces still to be read with those added    *)
(* up so far.                                                               *)

CpuBehind ==
    /\ busy + idle <= events
    /\ ~fell /\ prevCpu # None =>
          /\ prevCpu.idle <= idle
          /\ prevCpu.idle <= prevCpu.total
          /\ prevCpu.total - prevCpu.idle <= busy

SwapWithin == pc \in {"interfaces", "read", "report"} => status.swapUsed <= status.swapTotal

\* What the interfaces that are left to read have, and those that were read had.
InSight == sum + Total(bytes, todo)

BytesBehind ==
    ~changed =>
        /\ up = Interfaces
        /\ moved = Total(bytes, Interfaces)
        /\ moved <= Cardinality(Interfaces) + events
        /\ prevNet = None => base = 0 /\ reported = 0
        /\ prevNet # None => base + reported = prevNet /\ prevNet <= moved
        /\ pc = "read" => InSight <= moved /\ (prevNet # None => prevNet <= InSight)

IInv == TypeOK /\ CpuBehind /\ LoadIsAShare /\ SwapWithin /\ BytesBehind

LEMMA SumsAreNatural ==
    ASSUME TypeOK, NEW S \in SUBSET Interfaces
    PROVE  IsFiniteSet(S) /\ Total(bytes, S) \in Nat /\ \A i \in S : bytes[i] \in Nat
<1>1. IsFiniteSet(S)
  BY FS_Subset
<1>2. \A i \in S : bytes[i] \in Nat
  BY DEF TypeOK, Words
<1> QED
  BY <1>1, <1>2, TotalIsNatural

LEMMA InitIInv == Init => IInv
<1> SUFFICES ASSUME Init PROVE IInv
  OBVIOUS
<1>1. TypeOK
  BY InitType
<1>2. CpuBehind /\ LoadIsAShare /\ SwapWithin
  BY DEF Init, CpuBehind, LoadIsAShare, SwapWithin, NoStatus, NoLoad
<1>3. Total(bytes, Interfaces) <= Cardinality(Interfaces)
  <2>1. \A i \in Interfaces : bytes[i] \in 0 .. 1
    BY DEF Init
  <2>2. Total(bytes, Interfaces) <= Cardinality(Interfaces) * 1
    BY <2>1, TotalBounded
  <2> QED
    BY <2>2, FS_CardinalityType
<1>4. BytesBehind
  BY <1>3, FS_CardinalityType DEF Init, BytesBehind
<1> QED
  BY <1>1, <1>2, <1>4 DEF IInv

\* A processor that works and one that idles.
LEMMA HostCpu ==
    ASSUME IInv, Host
    PROVE  CpuBehind' /\ LoadIsAShare' /\ SwapWithin'
<1>1. UNCHANGED <<pc, prevCpu, status>>
  BY DEF Host, Work, Idle, IdleFalls, Swap, Carry, Replug, agent, previous
<1>2. SwapWithin'
  BY <1>1 DEF IInv, SwapWithin
<1>3. LoadIsAShare'
  BY <1>1 DEF IInv, LoadIsAShare, Host, Work, Idle, IdleFalls, Swap, Carry, Replug, history
<1>4. /\ busy \in Words /\ idle \in Words /\ events \in Nat /\ events' = events + 1
      /\ events' <= MaxEvents /\ busy \in Nat /\ idle \in Nat
      /\ busy + 1 < Modulus /\ idle + 1 < Modulus
  <2>1. events' = events + 1 /\ events < MaxEvents
    BY DEF Host, Event, Work, Idle, IdleFalls, Swap, Carry, Replug
  <2>2. busy \in Words /\ idle \in Words /\ events \in Nat /\ busy \in Nat /\ idle \in Nat
    BY DEF IInv, TypeOK, Words
  <2>3. busy + idle <= events
    BY DEF IInv, CpuBehind
  <2>4. MaxEvents < Modulus
    BY FS_CardinalityType
  <2> QED
    BY <2>1, <2>2, <2>3, <2>4
<1>5. prevCpu # None => prevCpu.idle \in Nat /\ prevCpu.total \in Nat
  BY DEF IInv, TypeOK, Words
<1>6. ASSUME Work PROVE CpuBehind'
  <2>1. busy' = busy + 1 /\ UNCHANGED <<idle, fell>>
    BY <1>4, <1>6, SmallWords, Arithmetic DEF Work, history
  <2> QED
    BY <1>1, <1>4, <1>5, <2>1 DEF IInv, CpuBehind
<1>7. ASSUME Idle PROVE CpuBehind'
  <2>1. idle' = idle + 1 /\ UNCHANGED <<busy, fell>>
    BY <1>4, <1>7, SmallWords, Arithmetic DEF Idle, history
  <2> QED
    BY <1>1, <1>4, <1>5, <2>1 DEF IInv, CpuBehind
<1>8. ASSUME IdleFalls PROVE CpuBehind'
  BY <1>4, <1>8 DEF IInv, CpuBehind, IdleFalls
<1>9. ASSUME Swap \/ \E i \in Interfaces : Carry(i) \/ Replug(i) PROVE CpuBehind'
  <2>1. UNCHANGED <<busy, idle, fell>>
    BY <1>9 DEF Swap, Carry, Replug, history
  <2> QED
    BY <1>1, <1>4, <1>5, <2>1 DEF IInv, CpuBehind
<1> QED
  BY <1>2, <1>3, <1>6, <1>7, <1>8, <1>9 DEF Host

\* The time that was not idle is a part of the time that passed.
LEMMA SampleCpuCpu ==
    ASSUME IInv, SampleCpu
    PROVE  CpuBehind' /\ LoadIsAShare' /\ SwapWithin'
<1> DEFINE total == Plus(busy, idle)
<1>1. /\ busy \in Words /\ idle \in Words /\ busy \in Nat /\ idle \in Nat
      /\ total \in Words /\ total = busy + idle
  <2>1. busy \in Words /\ idle \in Words /\ busy \in Nat /\ idle \in Nat
    BY DEF IInv, TypeOK, Words
  <2>2. busy + idle < Modulus
    BY <2>1, FS_CardinalityType DEF IInv, CpuBehind, TypeOK
  <2> QED
    BY <2>1, <2>2, Arithmetic
<1>2. UNCHANGED <<busy, idle, events, fell>> /\ pc' = "swapTotal"
  BY DEF SampleCpu, host, history
<1>3. SwapWithin'
  BY <1>2 DEF SwapWithin
<1>4. CpuBehind'
  <2>1. prevCpu' = prevCpu \/ prevCpu' = [total |-> total, idle |-> idle]
    BY DEF SampleCpu
  <2> HIDE DEF total
  <2> QED
    BY <1>1, <1>2, <2>1 DEF IInv, CpuBehind
<1>5. ASSUME ~fell, prevCpu # None PROVE Load(total).part <= Load(total).whole
  <2>1. /\ prevCpu.total \in Words /\ prevCpu.idle \in Words
        /\ prevCpu.total \in Nat /\ prevCpu.idle \in Nat
    BY <1>5 DEF IInv, TypeOK, Words
  <2>2. /\ prevCpu.idle <= idle /\ prevCpu.idle <= prevCpu.total
        /\ prevCpu.total - prevCpu.idle <= busy
    BY <1>5 DEF IInv, CpuBehind
  <2>3. /\ Minus(total, prevCpu.total) = total - prevCpu.total
        /\ Minus(idle, prevCpu.idle) = idle - prevCpu.idle
        /\ Minus(total, prevCpu.total) \in Words /\ Minus(idle, prevCpu.idle) \in Words
    <3>1. prevCpu.total <= total
      BY <1>1, <2>1, <2>2
    <3> QED
      BY <1>1, <2>1, <2>2, <3>1, Arithmetic
  <2>4. idle - prevCpu.idle <= total - prevCpu.total
    BY <1>1, <2>1, <2>2
  <2>5. Minus(Minus(total, prevCpu.total), Minus(idle, prevCpu.idle))
          = (total - prevCpu.total) - (idle - prevCpu.idle)
    BY <2>3, <2>4, Arithmetic
  <2> HIDE DEF total
  <2> QED
    BY <1>1, <2>1, <2>2, <2>3, <2>5 DEF Load, NoLoad
<1>6. LoadIsAShare'
  <2>1. \/ status' = NoStatus
        \/ status'.cpu = NoLoad
        \/ prevCpu # None /\ status'.cpu = Load(total)
    BY DEF SampleCpu, NoStatus
  <2> QED
    BY <1>2, <1>5, <2>1 DEF LoadIsAShare, NoStatus, NoLoad
<1> QED
  BY <1>3, <1>4, <1>6

\* The swap is read line by line.
LEMMA SampleSwapCpu ==
    ASSUME IInv, SampleSwapTotal \/ SampleSwapFree
    PROVE  CpuBehind' /\ LoadIsAShare' /\ SwapWithin'
<1>1. UNCHANGED <<busy, idle, events, fell, prevCpu>>
  BY DEF SampleSwapTotal, SampleSwapFree, host, previous, history
<1>2. CpuBehind'
  BY <1>1 DEF IInv, CpuBehind
<1>3. status \in Statuses
  BY DEF IInv, TypeOK, Statuses, NetRecords
<1>4. LoadIsAShare'
  <2>1. status'.cpu = status.cpu
    BY <1>3 DEF SampleSwapTotal, SampleSwapFree, Statuses
  <2> QED
    BY <1>1, <2>1 DEF IInv, LoadIsAShare
<1>5. SwapWithin'
  <2>1. CASE SampleSwapTotal
    BY <2>1 DEF SampleSwapTotal, SwapWithin
  <2>2. CASE SampleSwapFree
    <3>1. PICK read \in {swap.free, 0} :
            status' = [status EXCEPT !.swapUsed = Used(status.swapTotal, read)]
      BY <2>2 DEF SampleSwapFree
    <3>2. read \in Words /\ status.swapTotal \in Words /\ read \in Nat /\ status.swapTotal \in Nat
      BY <1>3, SmallWords DEF IInv, TypeOK, Statuses, Words
    <3>3. Used(status.swapTotal, read) <= status.swapTotal
      BY <3>2, Arithmetic DEF Used
    <3>4. status'.swapTotal = status.swapTotal /\ status'.swapUsed = Used(status.swapTotal, read)
      BY <1>3, <3>1 DEF Statuses
    <3> QED
      BY <3>3, <3>4 DEF SwapWithin
  <2> QED
    BY <2>1, <2>2
<1> QED
  BY <1>2, <1>4, <1>5

\* The rest of a sample and its report leave these parts of it alone.
LEMMA OthersCpu ==
    ASSUME IInv, UNCHANGED <<busy, idle, events, fell, prevCpu>>,
           \/ status' = NoStatus
           \/ status'.cpu = status.cpu /\ status'.swapTotal = status.swapTotal
              /\ status'.swapUsed = status.swapUsed,
           \/ pc' \notin {"interfaces", "read", "report"}
           \/ pc \in {"interfaces", "read", "report"}
           \/ pc' = pc
    PROVE  CpuBehind' /\ LoadIsAShare' /\ SwapWithin'
<1>1. CpuBehind'
  BY DEF IInv, CpuBehind
<1>2. LoadIsAShare'
  BY DEF IInv, LoadIsAShare, NoStatus, NoLoad
<1>3. SwapWithin'
  BY DEF IInv, SwapWithin, NoStatus
<1> QED
  BY <1>1, <1>2, <1>3

-----------------------------------------------------------------------------
(* Bytes *)

LEMMA BytesKept ==
    ASSUME IInv, UNCHANGED <<up, bytes, changed, moved, base, reported, prevNet, sum, todo>>,
           events' >= events, events' \in Nat, pc' = "read" => pc = "read"
    PROVE  BytesBehind'
<1>1. ~changed => moved <= Cardinality(Interfaces) + events'
  <2>1. moved \in Nat /\ events \in Nat /\ Cardinality(Interfaces) \in Nat
    BY FS_CardinalityType DEF IInv, TypeOK
  <2> QED
    BY <2>1 DEF IInv, BytesBehind
<1> QED
  BY <1>1 DEF IInv, BytesBehind, InSight

\* A byte adds to what is in sight, unless its interface has been read.
LEMMA CarryBytes ==
    ASSUME IInv, NEW i \in Interfaces, Carry(i)
    PROVE  BytesBehind'
<1> SUFFICES ASSUME ~changed' PROVE BytesBehind'
  BY DEF BytesBehind
<1>1. /\ ~changed /\ up' = up /\ up = Interfaces /\ moved' = moved + 1 /\ events' = events + 1
      /\ events < MaxEvents
      /\ UNCHANGED <<pc, prevNet, sum, todo, changed, base, reported>>
  BY DEF IInv, BytesBehind, Carry, Event, agent, previous
<1>2. /\ moved \in Nat /\ events \in Nat /\ bytes[i] \in Words /\ bytes[i] \in Nat
      /\ sum \in Nat /\ Cardinality(Interfaces) \in Nat /\ todo \in SUBSET Interfaces
  BY FS_CardinalityType DEF IInv, TypeOK, Words
<1>3. /\ moved = Total(bytes, Interfaces) /\ moved <= Cardinality(Interfaces) + events
  BY <1>1 DEF IInv, BytesBehind
<1>4. bytes[i] <= moved
  <2>1. IsFiniteSet(Interfaces) /\ \A j \in Interfaces : bytes[j] \in Nat
    BY SumsAreNatural DEF IInv
  <2>2. Total(bytes, Interfaces) = Total(bytes, Interfaces \ {i}) + bytes[i]
        /\ Total(bytes, Interfaces \ {i}) \in Nat
    BY <2>1, TotalWithout
  <2> QED
    BY <1>2, <1>3, <2>2
<1>5. bytes[i] + 1 < Modulus
  BY <1>1, <1>2, <1>3, <1>4
<1>6. bytes' = [bytes EXCEPT ![i] = bytes[i] + 1]
  BY <1>2, <1>5, SmallWords, Arithmetic DEF Carry
<1>7. /\ bytes'[i] = bytes[i] + 1 /\ \A j \in Interfaces \ {i} : bytes[j] = bytes'[j]
      /\ \A j \in Interfaces : bytes[j] \in Nat /\ bytes'[j] \in Nat
  BY <1>2, <1>6 DEF IInv, TypeOK, Words
<1>8. Total(bytes', Interfaces) = Total(bytes, Interfaces) + 1
  <2>1. Total(bytes', Interfaces) = Total(bytes, Interfaces) - bytes[i] + bytes'[i]
    BY <1>7, TotalChanged
  <2>2. Total(bytes, Interfaces) \in Nat
    BY SumsAreNatural DEF IInv
  <2> QED
    BY <1>2, <1>7, <2>1, <2>2
<1>9. /\ Total(bytes', todo) \in Nat /\ Total(bytes, todo) \in Nat
      /\ Total(bytes, todo) <= Total(bytes', todo)
      /\ Total(bytes', todo) <= Total(bytes, todo) + 1
  <2>1. IsFiniteSet(todo) /\ Total(bytes, todo) \in Nat
    BY <1>2, SumsAreNatural DEF IInv
  <2>2. CASE i \in todo
    <3>1. Total(bytes', todo) = Total(bytes, todo) - bytes[i] + bytes'[i]
      BY <1>2, <1>7, <2>1, <2>2, TotalChanged
    <3> QED
      BY <1>2, <1>7, <2>1, <3>1
  <2>3. CASE i \notin todo
    <3>1. \A j \in todo : bytes[j] = bytes'[j]
      BY <1>2, <1>7, <2>3
    <3>2. Total(bytes, todo) = Total(bytes', todo)
      BY <3>1, TotalSame
    <3> QED
      BY <2>1, <3>2
  <2> QED
    BY <2>2, <2>3
<1>10. pc' = "read" => InSight' <= moved' /\ (prevNet' # None => prevNet' <= InSight')
  <2>1. prevNet # None => prevNet \in Nat
    BY DEF IInv, TypeOK, Words
  <2>2. pc = "read" => InSight <= moved /\ (prevNet # None => prevNet <= InSight)
    BY <1>1 DEF IInv, BytesBehind
  <2> QED
    BY <1>1, <1>2, <1>9, <2>1, <2>2 DEF InSight
<1>11. prevNet' # None => base' + reported' = prevNet' /\ prevNet' <= moved'
  <2>1. prevNet # None => prevNet \in Nat /\ base + reported = prevNet /\ prevNet <= moved
    BY <1>1 DEF IInv, TypeOK, Words, BytesBehind
  <2> QED
    BY <1>1, <1>2, <2>1
<1>12. /\ up' = Interfaces /\ moved' = Total(bytes', Interfaces)
       /\ moved' <= Cardinality(Interfaces) + events'
       /\ prevNet' = None => base' = 0 /\ reported' = 0
  <2>1. prevNet = None => base = 0 /\ reported = 0
    BY <1>1 DEF IInv, BytesBehind
  <2> QED
    BY <1>1, <1>2, <1>3, <1>8, <2>1
<1> QED
  BY <1>10, <1>11, <1>12 DEF BytesBehind

\* Reading an interface keeps what is in sight.
LEMMA ReadBytes ==
    ASSUME IInv, NEW i \in Interfaces, ReadInterface(i)
    PROVE  BytesBehind'
<1>1. /\ pc = "read" /\ i \in todo /\ todo' = todo \ {i}
      /\ sum' = (IF i \in up THEN Plus(sum, bytes[i]) ELSE sum)
      /\ UNCHANGED <<up, bytes, changed, moved, base, reported, prevNet, events, pc>>
  BY DEF ReadInterface, host, previous, history
<1> SUFFICES ASSUME ~changed PROVE BytesBehind'
  BY <1>1 DEF BytesBehind
<1>2. /\ sum \in Words /\ bytes[i] \in Words /\ sum \in Nat /\ bytes[i] \in Nat
      /\ moved \in Nat /\ events \in Nat /\ events <= MaxEvents
      /\ Cardinality(Interfaces) \in Nat /\ todo \in SUBSET Interfaces
  BY FS_CardinalityType DEF IInv, TypeOK, Words
<1>3. up = Interfaces /\ InSight <= moved /\ moved <= Cardinality(Interfaces) + events
  BY <1>1 DEF IInv, BytesBehind
<1>4. Total(bytes, todo) = Total(bytes, todo \ {i}) + bytes[i] /\ Total(bytes, todo \ {i}) \in Nat
  <2>1. IsFiniteSet(todo) /\ \A j \in todo : bytes[j] \in Nat
    BY <1>2, SumsAreNatural DEF IInv
  <2> QED
    BY <1>1, <2>1, TotalWithout
<1>5. sum + bytes[i] < Modulus
  BY <1>2, <1>3, <1>4 DEF InSight
<1>6. sum' = sum + bytes[i]
  BY <1>1, <1>2, <1>3, <1>5, Arithmetic
<1>7. InSight' = InSight
  BY <1>1, <1>2, <1>4, <1>6 DEF InSight
<1> QED
  BY <1>1, <1>7 DEF IInv, BytesBehind

\* The list is made: all there is is in sight.
LEMMA ListBytes ==
    ASSUME IInv, ListInterfaces
    PROVE  BytesBehind'
<1>1. /\ todo' = up /\ sum' = 0 /\ pc' = "read"
      /\ UNCHANGED <<up, bytes, changed, moved, base, reported, prevNet, events>>
  BY DEF ListInterfaces, host, previous, history
<1> SUFFICES ASSUME ~changed PROVE BytesBehind'
  BY <1>1 DEF BytesBehind
<1>2. Total(bytes, Interfaces) \in Nat
  BY SumsAreNatural DEF IInv
<1>3. up = Interfaces /\ moved = Total(bytes, Interfaces)
  BY DEF IInv, BytesBehind
<1>4. InSight' = moved
  BY <1>1, <1>2, <1>3 DEF InSight
<1>5. moved \in Nat
  BY <1>2, <1>3
<1> QED
  BY <1>1, <1>4, <1>5 DEF IInv, BytesBehind

\* All are read: the sum is what the next sample is compared with.
LEMMA NetworkBytes ==
    ASSUME IInv, FirstNetwork \/ NoTimePassed \/ Network
    PROVE  BytesBehind'
<1>1. /\ pc = "read" /\ todo = {} /\ pc' = "report"
      /\ UNCHANGED <<up, bytes, changed, moved, events>>
  BY DEF FirstNetwork, NoTimePassed, Network, host, history
<1> SUFFICES ASSUME ~changed PROVE BytesBehind'
  BY <1>1 DEF BytesBehind
<1>2. /\ sum \in Words /\ sum \in Nat /\ base \in Nat /\ reported \in Nat
      /\ prevNet # None => prevNet \in Words /\ prevNet \in Nat
      /\ sum # None
  BY DEF IInv, TypeOK, Words
<1>3. InSight = sum
  BY <1>1, <1>2, TotalOfNothing DEF InSight
<1>4. sum <= moved /\ (prevNet # None => prevNet <= sum)
  BY <1>1, <1>3 DEF IInv, BytesBehind
<1>5. /\ prevNet' = None => base' = 0 /\ reported' = 0
      /\ prevNet' # None => base' + reported' = prevNet' /\ prevNet' <= moved'
  <2>1. /\ prevNet = None => base = 0 /\ reported = 0
        /\ prevNet # None => base + reported = prevNet /\ prevNet <= moved
    BY DEF IInv, BytesBehind
  <2>2. CASE FirstNetwork
    BY <1>1, <1>2, <1>4, <2>1, <2>2 DEF FirstNetwork
  <2>3. CASE NoTimePassed
    BY <1>1, <2>1, <2>3 DEF NoTimePassed, previous, history
  <2>4. CASE Network
    <3>1. Minus(sum, prevNet) = sum - prevNet
      BY <1>2, <1>4, <2>4, Arithmetic DEF Network
    <3>2. prevNet' = sum /\ reported' = reported + (sum - prevNet) /\ base' = base
      BY <2>4, <3>1 DEF Network
    <3> QED
      BY <1>1, <1>2, <1>4, <2>1, <2>4, <3>2 DEF Network
  <2> QED
    BY <2>2, <2>3, <2>4
<1> QED
  BY <1>1, <1>5 DEF IInv, BytesBehind

-----------------------------------------------------------------------------
LEMMA NextIInv == IInv /\ [Next]_vars => IInv'
<1> SUFFICES ASSUME IInv, [Next]_vars PROVE IInv'
  OBVIOUS
<1>1. TypeOK'
  BY NextType DEF IInv
<1>2. events \in Nat /\ status \in Statuses
  BY DEF IInv, TypeOK, Statuses, NetRecords
<1>3. CASE Host
  <2>1. CASE Work \/ Idle \/ IdleFalls \/ Swap
    <3>1. /\ UNCHANGED <<up, bytes, changed, moved, base, reported, prevNet, sum, todo, pc>>
          /\ events' = events + 1
      BY <2>1 DEF Work, Idle, IdleFalls, Swap, Event, agent, previous, history
    <3> QED
      BY <1>1, <1>2, <1>3, <3>1, HostCpu, BytesKept DEF IInv
  <2>2. ASSUME NEW i \in Interfaces, Carry(i) PROVE IInv'
    BY <1>1, <1>3, <2>2, HostCpu, CarryBytes DEF IInv
  <2>3. ASSUME NEW i \in Interfaces, Replug(i) PROVE IInv'
    <3>1. BytesBehind'
      BY <2>3 DEF Replug, BytesBehind
    <3> QED
      BY <1>1, <1>3, <3>1, HostCpu DEF IInv
  <2> QED
    BY <1>3, <2>1, <2>2, <2>3 DEF Host
<1>4. CASE SampleCpu \/ SampleSwapTotal \/ SampleSwapFree
  <2>1. /\ UNCHANGED <<up, bytes, changed, moved, base, reported, prevNet, sum, todo, events>>
        /\ pc' # "read"
    BY <1>4 DEF SampleCpu, SampleSwapTotal, SampleSwapFree, host, previous, history
  <2> QED
    BY <1>1, <1>2, <1>4, <2>1, SampleCpuCpu, SampleSwapCpu, BytesKept DEF IInv
<1>5. CASE \/ ListInterfaces \/ FirstNetwork \/ NoTimePassed \/ Network
           \/ \E i \in Interfaces : ReadInterface(i)
  <2>1. BytesBehind'
    BY <1>5, ListBytes, NetworkBytes, ReadBytes
  <2>2. UNCHANGED <<busy, idle, events, fell, prevCpu>>
    BY <1>5 DEF ListInterfaces, FirstNetwork, NoTimePassed, Network, ReadInterface,
                host, previous, history
  <2>3. /\ status'.cpu = status.cpu /\ status'.swapTotal = status.swapTotal
        /\ status'.swapUsed = status.swapUsed
    BY <1>2, <1>5 DEF ListInterfaces, FirstNetwork, NoTimePassed, Network, ReadInterface, Statuses
  <2>4. pc \in {"interfaces", "read", "report"}
    BY <1>5 DEF ListInterfaces, FirstNetwork, NoTimePassed, Network, ReadInterface
  <2> QED
    BY <1>1, <2>1, <2>2, <2>3, <2>4, OthersCpu DEF IInv
<1>6. CASE Tick \/ Cancel \/ UNCHANGED vars \/ Ended
  <2>1. /\ UNCHANGED <<up, bytes, changed, moved, base, reported, prevNet, sum, todo, events, pc>>
        /\ UNCHANGED <<busy, idle, fell, prevCpu, status>>
    BY <1>6 DEF Tick, Cancel, Ended, vars, host, previous, history
  <2> QED
    BY <1>1, <1>2, <2>1, OthersCpu, BytesKept DEF IInv
<1>7. CASE ListFails \/ ReportTaken \/ ReportFails \/ TickerFires \/ Return
  <2>1. /\ UNCHANGED <<up, bytes, changed, moved, base, reported, prevNet, sum, todo, events>>
        /\ UNCHANGED <<busy, idle, fell, prevCpu>> /\ pc' # "read"
        /\ status' \in {NoStatus, status}
        /\ pc' \in {"wait", "cpu", "ended"} \/ pc = "interfaces"
    BY <1>7 DEF ListFails, ReportTaken, ReportFails, TickerFires, Return, host, previous, history
  <2> QED
    BY <1>1, <1>2, <2>1, OthersCpu, BytesKept DEF IInv
<1> QED
  BY <1>3, <1>4, <1>5, <1>6, <1>7 DEF Next, Reporter, Sample

LEMMA Invariance == Spec => []IInv
BY InitIInv, NextIInv, PTL DEF Spec

\* Whatever the host does and whatever reads and reports fail, the reporter's
\* variables keep their types; its counters stay words of the machine.
THEOREM TypeCorrect == Spec => []TypeOK
<1>1. IInv => TypeOK
  BY DEF IInv
<1> QED
  BY <1>1, Invariance, PTL

\* The load reported is never above all of the time, however long ago the last
\* sample that succeeded was, unless the idle time goes back.
THEOREM LoadsAreShares == Spec => []LoadIsAShare
<1>1. IInv => LoadIsAShare
  BY DEF IInv
<1> QED
  BY <1>1, Invariance, PTL

\* Lines of one file that are read at different times are not subtracted below 0.
THEOREM UsedIsWithinTotal == Spec => []UsedWithinTotal
<1>1. IInv => UsedWithinTotal
  BY DEF IInv, SwapWithin, UsedWithinTotal
<1> QED
  BY <1>1, Invariance, PTL

\* While the interfaces stay, the speeds reported add up to the growth of the
\* totals, however interfaces are read while they carry bytes.
THEOREM SpeedsAddUpToTotals == Spec => []SpeedsAddUp
<1>1. IInv => SpeedsAddUp
  BY DEF IInv, BytesBehind, SpeedsAddUp
<1> QED
  BY <1>1, Invariance, PTL

=============================================================================
