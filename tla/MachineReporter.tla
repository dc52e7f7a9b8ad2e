-------------------------- MODULE MachineReporter --------------------------
(***************************************************************************)
(* The machine reporter: a goroutine that samples the host once an interval *)
(* and reports the sample to the panel.                                     *)
(*                                                                         *)
(* Load and network speed are differences of counters the kernel keeps as   *)
(* uint64, taken against the previous sample; uint64 arithmetic is modulo   *)
(* Modulus here.  The files under /proc and /sys are read one by one while   *)
(* the counters move, interfaces come and go, and any read and any report    *)
(* can fail.  A quotient is kept as the pair of what is divided; received    *)
(* and sent bytes take the same path and are one counter; memory and disk    *)
(* are computed as swap is.                                                  *)
(***************************************************************************)
EXTENDS Integers, FiniteSets, Totals

CONSTANTS
    Interfaces, \* network interfaces other than loopback
    Modulus,    \* 2^64
    MaxElapsed, \* bound: time between two samples that is told apart
    MaxEvents,  \* bound: changes of the host's counters, files and interfaces
    None        \* nil

Words == 0 .. Modulus - 1

\* No counter goes all the way round within the events that are looked at.
ASSUME ReporterAssumption ==
    /\ IsFiniteSet(Interfaces)
    /\ Modulus \in Nat \ {0, 1} /\ MaxElapsed \in Nat /\ MaxEvents \in Nat
    /\ Cardinality(Interfaces) + MaxEvents < Modulus
    /\ None \notin Words

VARIABLES
    busy, idle, \* jiffies in /proc/stat; idle includes iowait
    swap,       \* total and free swap space in /proc/meminfo
    bytes,      \* bytes[i]: rx_bytes (tx_bytes) of interface i
    up,         \* interfaces that are up, have an address and a readable file
    events,     \* changes of the host so far
    pc,         \* what the goroutine does next
    prevCpu,    \* cpuCollector: total and idle of the last sample, or None
    prevNet,    \* netCollector: bytes of the last sample, or None
    elapsed,    \* time since prevAt
    todo,       \* interfaces readNetworkTotals has not read
    sum,        \* bytes it has added up
    status,     \* MachineStatus: the sample being reported
    stopped,    \* the context is done
    panel,      \* totals in the last report the panel took, or None
    fell,       \* history: idle time went back, as iowait may
    changed,    \* history: interfaces went, came or restarted their counters
    moved,      \* history: bytes carried by the interfaces while ~changed
    base,       \* history: totals of the first network sample
    reported    \* history: sum of speed * time over the samples while ~changed

host     == <<busy, idle, swap, bytes, up, events>>
previous == <<prevCpu, prevNet, elapsed>>
history  == <<fell, changed, moved, base, reported>>
vars     == <<host, pc, previous, todo, sum, status, stopped, panel, history>>

NoLoad == [part |-> 0, whole |-> 0]

NoStatus == [cpu |-> NoLoad, swapTotal |-> 0, swapUsed |-> 0, net |-> None, traffic |-> None]

\* uint64 arithmetic.
Plus(a, b) == (a + b) % Modulus

\* Mutant of Minus: signed differences.
MinusSigned(a, b) == a - b

Minus(a, b) == (a - b) % Modulus

Init ==
    /\ busy = 0 /\ idle = 0
    /\ swap = [total |-> 1, free |-> 1]
    /\ bytes = [i \in Interfaces |-> 1] /\ up = Interfaces
    /\ events = 0
    /\ pc = "cpu"
    /\ prevCpu = None /\ prevNet = None /\ elapsed = 0
    /\ todo = {} /\ sum = 0 /\ status = NoStatus
    /\ stopped = FALSE /\ panel = None
    /\ fell = FALSE /\ changed = FALSE
    /\ moved = Total(bytes, up) /\ base = 0 /\ reported = 0

-----------------------------------------------------------------------------
(* The host *)

Event == events < MaxEvents /\ events' = events + 1

agent == <<pc, previous, todo, sum, status, stopped, panel>>

Work ==
    /\ Event /\ busy' = Plus(busy, 1)
    /\ UNCHANGED <<idle, swap, bytes, up, agent, history>>

Idle ==
    /\ Event /\ idle' = Plus(idle, 1)
    /\ UNCHANGED <<busy, swap, bytes, up, agent, history>>

\* iowait, a part of the idle time, is not monotonic.
IdleFalls ==
    /\ Event /\ idle > 0
    /\ idle' = idle - 1 /\ fell' = TRUE
    /\ UNCHANGED <<busy, swap, bytes, up, agent, changed, moved, base, reported>>

\* Swap is turned off and on, and used: at most what there is.
Swap ==
    /\ Event
    /\ swap' \in {[total |-> 0, free |-> 0], [total |-> 1, free |-> 0], [total |-> 1, free |-> 1]}
    /\ UNCHANGED <<busy, idle, bytes, up, agent, history>>

Carry(i) ==
    /\ Event /\ i \in up
    /\ bytes' = [bytes EXCEPT ![i] = Plus(@, 1)]
    /\ moved' = IF changed THEN 0 ELSE moved + 1
    /\ UNCHANGED <<busy, idle, swap, up, agent, fell, changed, base, reported>>

\* Interface i goes, or comes with the counters it had or with new ones.
Replug(i) ==
    /\ Event
    /\ \/ i \in up /\ up' = up \ {i} /\ UNCHANGED bytes
       \/ i \notin up /\ up' = up \cup {i} /\ bytes' \in {bytes, [bytes EXCEPT ![i] = 0]}
    /\ changed' = TRUE /\ moved' = 0 /\ reported' = 0 /\ base' = 0
    /\ UNCHANGED <<busy, idle, swap, agent, fell>>

Tick ==
    /\ prevNet # None /\ elapsed < MaxElapsed
    /\ elapsed' = elapsed + 1
    /\ UNCHANGED <<host, pc, prevCpu, prevNet, todo, sum, status, stopped, panel, history>>

Cancel ==
    /\ ~stopped /\ stopped' = TRUE
    /\ UNCHANGED <<host, pc, previous, todo, sum, status, panel, history>>

-----------------------------------------------------------------------------
(* A sample *)

\* The share of the time since the last sample that was not idle, of which the
\* report has 100 * part / whole; with no time passed, zero.
Load(total) ==
    LET whole == Minus(total, prevCpu.total)
    IN  IF whole = 0 THEN NoLoad
        ELSE [part |-> Minus(whole, Minus(idle, prevCpu.idle)), whole |-> whole]

\* Mutant of SampleCpu: the idle time of the first sample is kept.
SampleCpuKeepsIdle ==
    LET total == Plus(busy, idle)
    IN  /\ pc = "cpu"
        /\ \/ /\ prevCpu' = [total |-> total, idle |-> IF prevCpu = None THEN idle ELSE prevCpu.idle]
              /\ status' = [NoStatus EXCEPT !.cpu = IF prevCpu = None THEN NoLoad ELSE Load(total)]
           \/ UNCHANGED prevCpu /\ status' = NoStatus
        /\ pc' = "swapTotal"
        /\ UNCHANGED <<host, prevNet, elapsed, todo, sum, stopped, panel, history>>

\* cpuCollector.Sample; an unreadable or odd /proc/stat gives zero.
SampleCpu ==
    LET total == Plus(busy, idle)
    IN  /\ pc = "cpu"
        /\ \/ /\ prevCpu' = [total |-> total, idle |-> idle]
              /\ status' = [NoStatus EXCEPT !.cpu = IF prevCpu = None THEN NoLoad ELSE Load(total)]
           \/ UNCHANGED prevCpu /\ status' = NoStatus
        /\ pc' = "swapTotal"
        /\ UNCHANGED <<host, prevNet, elapsed, todo, sum, stopped, panel, history>>

\* readUintFromMeminfo is called for one line of the file at a time.
SampleSwapTotal ==
    /\ pc = "swapTotal"
    /\ \E read \in {swap.total, 0} : status' = [status EXCEPT !.swapTotal = read]
    /\ pc' = "swapFree"
    /\ UNCHANGED <<host, previous, todo, sum, stopped, panel, history>>

\* Mutant of Used: the difference is not guarded.
UsedUnguarded(total, free) == Minus(total, free)

\* What is used, unless more is free than there is.
Used(total, free) == IF total >= free THEN Minus(total, free) ELSE 0

SampleSwapFree ==
    /\ pc = "swapFree"
    /\ \E read \in {swap.free, 0} :
          status' = [status EXCEPT !.swapUsed = Used(status.swapTotal, read)]
    /\ pc' = "interfaces"
    /\ UNCHANGED <<host, previous, todo, sum, stopped, panel, history>>

\* net.Interfaces; without the list the report has no network part.
ListInterfaces ==
    /\ pc = "interfaces"
    /\ todo' = up /\ sum' = 0
    /\ pc' = "read"
    /\ UNCHANGED <<host, previous, status, stopped, panel, history>>

ListFails ==
    /\ pc = "interfaces"
    /\ pc' = "report"
    /\ UNCHANGED <<host, previous, todo, sum, status, stopped, panel, history>>

\* An interface that has gone since the list was made is left out.
ReadInterface(i) ==
    /\ pc = "read" /\ i \in todo
    /\ todo' = todo \ {i}
    /\ sum' = IF i \in up THEN Plus(sum, bytes[i]) ELSE sum
    /\ UNCHANGED <<host, pc, previous, status, stopped, panel, history>>

\* The first sample of the network: there is nothing to compare it with.
FirstNetwork ==
    /\ pc = "read" /\ todo = {} /\ prevNet = None
    /\ status' = [status EXCEPT !.traffic = sum]
    /\ prevNet' = sum /\ elapsed' = 0
    /\ base' = IF changed THEN 0 ELSE sum
    /\ pc' = "report" /\ sum' = 0
    /\ UNCHANGED <<host, prevCpu, todo, stopped, panel, fell, changed, moved, reported>>

\* Mutant of NoTimePassed: the sample is remembered although it gave no speed.
NoTimePassedRemembered ==
    /\ pc = "read" /\ todo = {} /\ prevNet # None /\ elapsed = 0
    /\ status' = [status EXCEPT !.traffic = sum]
    /\ prevNet' = sum
    /\ pc' = "report" /\ sum' = 0
    /\ UNCHANGED <<host, prevCpu, elapsed, todo, stopped, panel, history>>

\* A sample that comes with the clock unmoved reports no speed and is not
\* remembered: the next speed covers its bytes.
NoTimePassed ==
    /\ pc = "read" /\ todo = {} /\ prevNet # None /\ elapsed = 0
    /\ status' = [status EXCEPT !.traffic = sum]
    /\ pc' = "report" /\ sum' = 0
    /\ UNCHANGED <<host, previous, todo, stopped, panel, history>>

Network ==
    LET delta == Minus(sum, prevNet)
    IN  /\ pc = "read" /\ todo = {} /\ prevNet # None /\ elapsed > 0
        /\ status' = [status EXCEPT !.traffic = sum, !.net = [bytes |-> delta, time |-> elapsed]]
        /\ prevNet' = sum /\ elapsed' = 0
        /\ reported' = IF changed THEN 0 ELSE reported + delta
        /\ pc' = "report" /\ sum' = 0
        /\ UNCHANGED <<host, prevCpu, todo, stopped, panel, fell, changed, moved, base>>

-----------------------------------------------------------------------------
(* The report *)

\* Mutant of ReportTaken: the payload is built without the totals.
ReportTakenSpeeds ==
    /\ pc = "report"
    /\ panel' = IF status.net = None THEN panel ELSE status.net.bytes
    /\ pc' = "wait" /\ status' = NoStatus
    /\ UNCHANGED <<host, previous, todo, sum, stopped, history>>

\* ReportMachineStatus: the panel takes the report; its answer may be lost, which
\* is logged and forgotten like any other error.  Totals are sent if there are any.
ReportTaken ==
    /\ pc = "report"
    /\ panel' = IF status.traffic = None THEN panel ELSE status.traffic
    /\ pc' = "wait" /\ status' = NoStatus
    /\ UNCHANGED <<host, previous, todo, sum, stopped, history>>

ReportFails ==
    /\ pc = "report"
    /\ pc' = "wait" /\ status' = NoStatus
    /\ UNCHANGED <<host, previous, todo, sum, stopped, panel, history>>

\* The loop of startMachineReporter: when the context is done and the ticker has
\* fired as well, select takes either.
TickerFires ==
    /\ pc = "wait" /\ pc' = "cpu"
    /\ UNCHANGED <<host, previous, todo, sum, status, stopped, panel, history>>

Return ==
    /\ pc = "wait" /\ stopped /\ pc' = "ended"
    /\ UNCHANGED <<host, previous, todo, sum, status, stopped, panel, history>>

Ended == pc = "ended" /\ UNCHANGED vars

-----------------------------------------------------------------------------
Host ==
    \/ Work \/ Idle \/ IdleFalls \/ Swap
    \/ \E i \in Interfaces : Carry(i) \/ Replug(i)

Sample ==
    \/ SampleCpu \/ SampleSwapTotal \/ SampleSwapFree
    \/ ListInterfaces \/ ListFails
    \/ \E i \in Interfaces : ReadInterface(i)
    \/ FirstNetwork \/ NoTimePassed \/ Network

Reporter == Sample \/ ReportTaken \/ ReportFails \/ TickerFires \/ Return

Next == Host \/ Tick \/ Cancel \/ Reporter \/ Ended

\* The goroutine goes on (its ticker fires for ever and a request has a timeout);
\* a list, and a report with totals, that is tried again and again succeeds at
\* some time.
Fairness ==
    /\ WF_vars(Reporter)
    /\ SF_vars(ListInterfaces)
    /\ SF_vars(status.traffic # None /\ ReportTaken)

Spec == Init /\ [][Next]_vars /\ Fairness

-----------------------------------------------------------------------------
(* Properties *)

Loads == [part : Words, whole : Words]

TypeOK ==
    /\ busy \in Words /\ idle \in Words
    /\ swap \in [total : {0, 1}, free : {0, 1}]
    /\ bytes \in [Interfaces -> Words] /\ up \subseteq Interfaces
    /\ events \in 0 .. MaxEvents
    /\ pc \in {"cpu", "swapTotal", "swapFree", "interfaces", "read", "report", "wait", "ended"}
    /\ prevCpu \in [total : Words, idle : Words] \cup {None}
    /\ prevNet \in Words \cup {None}
    /\ elapsed \in 0 .. MaxElapsed
    /\ todo \subseteq Interfaces /\ sum \in Words
    /\ status \in [cpu : Loads, swapTotal : Words, swapUsed : Words,
                   net : [bytes : Words, time : 1 .. MaxElapsed] \cup {None},
                   traffic : Words \cup {None}]
    /\ stopped \in BOOLEAN
    /\ panel \in Words \cup {None}
    /\ fell \in BOOLEAN /\ changed \in BOOLEAN
    /\ moved \in Nat /\ base \in Nat /\ reported \in Nat

\* Unless the idle time has gone back, the load is a share of the time that
\* passed, whichever samples failed since the last one that did not.
LoadIsAShare == ~fell => status.cpu.part <= status.cpu.whole

\* Of two lines that are read at different times, the used part is never more
\* than the total.
UsedWithinTotal == pc = "report" => status.swapUsed <= status.swapTotal

\* As long as no interface goes, comes or restarts its counters, the speeds times
\* their times add up to what the totals grew by since the first sample: samples
\* without a list, without a speed, and reports that failed lose nothing and count
\* nothing twice; and no total is more than the interfaces have carried.
SpeedsAddUp ==
    ~changed /\ prevNet # None => base + reported = prevNet /\ prevNet <= moved

\* When the host has become quiet, the panel comes to show its totals, however
\* many reports failed before.
QuietTotalsAreShown ==
    events = MaxEvents ~> stopped \/ panel = Total(bytes, up) % Modulus

=============================================================================
