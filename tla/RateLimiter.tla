---------------------------- MODULE RateLimiter ----------------------------
(***************************************************************************)
(* A token bucket shared by connections, with its rate changed and the      *)
(* bucket closed under them.                                                *)
(*                                                                         *)
(* Wait reads limiter, burst and closed under the lock, releases it, and    *)
(* then asks golang.org/x/time/rate (external) for a chunk: WaitN takes the *)
(* tokens at once, going below zero, and sleeps until they are repaid; more *)
(* than the burst it refuses with an error.  Bytes pass when the call       *)
(* returns.  Time is counted in ticks and the rate is in tokens a tick.     *)
(***************************************************************************)
EXTENDS Integers, FiniteSets

CONSTANTS
    Waiters,     \* goroutines that call Wait
    Requests,    \* sizes they ask for
    PacketSizes, \* sizes of packets: {} if no packet connection is open
    Rates,       \* rates SetRate is given
    Floor,       \* maxWriteChunk: the smallest burst
    Window,      \* defaultBurstWindow, in ticks
    MaxAhead,    \* bound: ahead is not counted any further
    MaxUncharged \* bound: bytes in packets

\* The manager gives positive rates only.
ASSUME LimiterAssumption ==
    /\ Floor \in Nat \ {0} /\ Window \in Nat /\ MaxAhead \in Nat /\ MaxUncharged \in Nat
    /\ Requests \subseteq Nat \ {0}
    /\ PacketSizes \subseteq Nat \ {0}
    /\ Rates \subseteq Nat \ {0} /\ Rates # {}

VARIABLES
    rate, burst, closed, \* the fields of RateLimiter
    tokens,  \* tokens of the x/time/rate bucket; negative: reserved ahead
    pc,      \* pc[w]: the next statement of Wait
    remaining,
    chunk,   \* chunk[w]: what w asks the bucket for
    delay,   \* delay[w]: ticks w still sleeps
    ahead,   \* history: bytes that could have passed so far and have not
    uncharged, \* history: bytes that passed in packets
    changed  \* history: SetRate or Close was called on the running limiter

vars == <<rate, burst, closed, tokens, pc, remaining, chunk, delay, ahead, uncharged, changed>>

Least(a, b) == IF a < b THEN a ELSE b

\* Mutant of BurstFor: no smallest burst.
BurstForWindow(r) == r * Window

BurstFor(r) == IF r * Window < Floor THEN Floor ELSE r * Window

\* The bound on ahead leaves room for a full bucket and a chunk of every waiter.
ASSUME AheadAssumption ==
    /\ IsFiniteSet(Waiters)
    /\ \A r \in Rates : (Cardinality(Waiters) + 1) * BurstFor(r) <= MaxAhead

\* Mutant of Init: the bucket of x/time/rate is left full.
InitFull ==
    /\ rate \in Rates /\ burst = BurstFor(rate) /\ closed = FALSE
    /\ tokens = burst
    /\ pc = [w \in Waiters |-> "idle"]
    /\ remaining = [w \in Waiters |-> 0]
    /\ chunk = [w \in Waiters |-> 0]
    /\ delay = [w \in Waiters |-> 0]
    /\ ahead = 0 /\ uncharged = 0 /\ changed = FALSE

\* NewRateLimiter: the bucket starts full and its burst is taken at once.
Init ==
    /\ rate \in Rates /\ burst = BurstFor(rate) /\ closed = FALSE
    /\ tokens = 0
    /\ pc = [w \in Waiters |-> "idle"]
    /\ remaining = [w \in Waiters |-> 0]
    /\ chunk = [w \in Waiters |-> 0]
    /\ delay = [w \in Waiters |-> 0]
    /\ ahead = 0 /\ uncharged = 0 /\ changed = FALSE

-----------------------------------------------------------------------------
(* Wait *)

Go(w, from, to) == pc[w] = from /\ pc' = [pc EXCEPT ![w] = to]

\* Wait is called for n bytes.
Request(w, n) ==
    /\ Go(w, "idle", "snapshot")
    /\ remaining' = [remaining EXCEPT ![w] = n]
    /\ UNCHANGED <<rate, burst, closed, tokens, chunk, delay, ahead, uncharged, changed>>

\* snapshot(), and the chunk to ask for.  A closed limiter ends the connection.
Snapshot(w) ==
    /\ \/ closed /\ Go(w, "snapshot", "ended") /\ UNCHANGED chunk
       \/ /\ ~closed /\ Go(w, "snapshot", "waitN")
          /\ chunk' = [chunk EXCEPT ![w] = Least(remaining[w], burst)]
    /\ UNCHANGED <<rate, burst, closed, tokens, remaining, delay, ahead, uncharged, changed>>

\* Ticks until a reservation that leaves the bucket at left is repaid.
RepaidIn(left) == IF left < 0 THEN (rate - 1 - left) \div rate ELSE 0

\* limiter.WaitN: the bucket of the snapshot, with the burst it has now.
WaitN(w) ==
    /\ pc[w] = "waitN"
    /\ pc' = [pc EXCEPT ![w] = IF chunk[w] > burst THEN "refused" ELSE "sleep"]
    /\ tokens' = IF chunk[w] > burst THEN tokens ELSE tokens - chunk[w]
    /\ delay' = [delay EXCEPT ![w] = IF chunk[w] > burst THEN 0 ELSE RepaidIn(tokens - chunk[w])]
    /\ UNCHANGED <<rate, burst, closed, remaining, chunk, ahead, uncharged, changed>>

\* Mutants of Return: what is left counts below zero, or is not looked at.
ReturnWhole(w) ==
    /\ delay[w] = 0
    /\ remaining' = [remaining EXCEPT ![w] = @ - burst]
    /\ \/ remaining'[w] <= 0 /\ Go(w, "sleep", "idle")
       \/ remaining'[w] > 0 /\ Go(w, "sleep", "snapshot")
    /\ ahead' = ahead - chunk[w]
    /\ UNCHANGED <<rate, burst, closed, tokens, chunk, delay, uncharged, changed>>

ReturnRepeats(w) ==
    /\ delay[w] = 0
    /\ Go(w, "sleep", "snapshot")
    /\ ahead' = ahead - chunk[w]
    /\ UNCHANGED <<rate, burst, closed, tokens, remaining, chunk, delay, uncharged, changed>>

\* WaitN returned: the chunk passes.
Return(w) ==
    /\ delay[w] = 0
    /\ remaining' = [remaining EXCEPT ![w] = @ - chunk[w]]
    /\ \/ remaining'[w] = 0 /\ Go(w, "sleep", "idle")
       \/ remaining'[w] > 0 /\ Go(w, "sleep", "snapshot")
    /\ ahead' = ahead - chunk[w]
    /\ UNCHANGED <<rate, burst, closed, tokens, chunk, delay, uncharged, changed>>

\* ReadPacket and WritePacket look at closed only: no tokens are taken.
Packet(n) ==
    /\ ~closed
    /\ uncharged + n <= MaxUncharged
    /\ uncharged' = uncharged + n
    /\ ahead' = ahead - n
    /\ UNCHANGED <<rate, burst, closed, tokens, pc, remaining, chunk, delay, changed>>

-----------------------------------------------------------------------------
(* Time, and the user manager *)

Tick ==
    /\ tokens' = Least(tokens + rate, burst)
    /\ delay' = [w \in Waiters |-> IF delay[w] > 0 THEN delay[w] - 1 ELSE 0]
    /\ ahead' = Least(ahead + rate, MaxAhead)
    /\ UNCHANGED <<rate, burst, closed, pc, remaining, chunk, uncharged, changed>>

\* SetRate of a running limiter: AllowN takes a full burst or nothing.
SetRate(r) ==
    /\ ~closed
    /\ rate' = r /\ burst' = BurstFor(r)
    /\ tokens' = IF tokens >= burst' THEN 0 ELSE tokens
    /\ changed' = TRUE
    /\ UNCHANGED <<closed, pc, remaining, chunk, delay, ahead, uncharged>>

\* The bucket goes on for those that hold it; nobody else finds it any more.
Close ==
    /\ ~closed
    /\ closed' = TRUE /\ changed' = TRUE
    /\ UNCHANGED <<rate, burst, tokens, pc, remaining, chunk, delay, ahead, uncharged>>

-----------------------------------------------------------------------------
Step(w) == Snapshot(w) \/ WaitN(w) \/ Return(w)

Next ==
    \/ \E w \in Waiters : (\E n \in Requests : Request(w, n)) \/ Step(w)
    \/ \E n \in PacketSizes : Packet(n)
    \/ Tick
    \/ \E r \in Rates : SetRate(r)
    \/ Close

Spec == Init /\ [][Next]_vars

\* Time passes and goroutines that can run do.
FairSpec == Spec /\ WF_vars(Tick) /\ \A w \in Waiters : WF_vars(Step(w))

-----------------------------------------------------------------------------
(* Properties *)

TypeOK ==
    /\ rate \in Rates /\ burst \in Nat /\ closed \in BOOLEAN
    /\ tokens \in Int /\ tokens <= burst
    /\ pc \in [Waiters -> {"idle", "snapshot", "waitN", "sleep", "refused", "ended"}]
    /\ remaining \in [Waiters -> Nat] /\ chunk \in [Waiters -> Nat]
    /\ delay \in [Waiters -> Nat]
    /\ ahead \in Int /\ uncharged \in Nat /\ changed \in BOOLEAN

\* Reads and writes come in chunks of at most maxReadChunk = maxWriteChunk, the
\* smallest burst.  Whatever the rate is changed to between the snapshot and the
\* call, the bucket refuses none of these: a speed change breaks no connection.
NeverRefused == \A w \in Waiters : pc[w] = "refused" => chunk[w] > Floor

\* A limiter whose rate stays what it is, like the one of the node, lets all
\* connections together pass no more than its rate, from the very start, but for
\* packets: they go on top of what streams are given, byte for byte.
RateIsKept == ~changed => ahead + uncharged >= 0

\* Every Wait returns, with or without an error, in debt, after a change of rate
\* or after Close as well.
WaitReturns ==
    \A w \in Waiters : pc[w] = "snapshot" ~> pc[w] \in {"idle", "ended", "refused"}

=============================================================================
