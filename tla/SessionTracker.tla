--------------------------- MODULE SessionTracker ---------------------------
(***************************************************************************)
(* SessionTracker.Prepare: a connection counts as an online session only    *)
(* after sessionActivationBytes of traffic, and stops counting when it is   *)
(* closed.                                                                  *)
(*                                                                         *)
(* Both directions of a connection run in goroutines of their own.  Each    *)
(* calls activate for the bytes it moved and, when it ends, closePending.   *)
(* The flags active and closed are atomics read outside the mutex, so every *)
(* read and write of them is a step.  deviceRefs and sourceRefs are kept    *)
(* side by side under the tracker's own mutex: they are one map of counters *)
(* here, over the device key and the source key of a connection.            *)
(***************************************************************************)
EXTENDS Integers, FiniteSets

CONSTANTS
    Conns,      \* connections
    Dirs,       \* goroutines of a connection: its two directions
    RefKeys,    \* entries of deviceRefs and sourceRefs
    KeysOf,     \* KeysOf[c]: the entries connection c counts in
    Sizes,      \* sizes of a read or write, in bytes
    Threshold,  \* sessionActivationBytes
    MaxSeen,    \* bound: bytes counted before activation
    Nobody      \* no goroutine

ASSUME TrackerAssumption ==
    /\ KeysOf \in [Conns -> SUBSET RefKeys]
    /\ Sizes \subseteq Nat
    /\ Threshold \in Nat \ {0} /\ MaxSeen \in Nat
    /\ Nobody \notin Dirs

Threads == Conns \X Dirs

VARIABLES
    refs,     \* deviceRefs / sourceRefs
    seen,     \* seen[c]: bytes counted by activate
    active,   \* active[c]
    closed,   \* closed[c]
    release,  \* release[c]: the release closure is set
    holder,   \* holder[c]: the direction that holds mu, or Nobody
    bytes,    \* bytes[t]: the argument of the running activate
    taken,    \* taken[t]: closePending found a release closure to call
    pc        \* pc[t]: the next statement of the goroutine

vars == <<refs, seen, active, closed, release, holder, bytes, taken, pc>>

Labels == {"idle", "check", "add", "lock", "recheck", "open", "store",
           "swap", "closeLock", "take", "release", "ended"}

Init ==
    /\ refs    = [k \in RefKeys |-> 0]
    /\ seen    = [c \in Conns |-> 0]
    /\ active  = [c \in Conns |-> FALSE]
    /\ closed  = [c \in Conns |-> FALSE]
    /\ release = [c \in Conns |-> FALSE]
    /\ holder  = [c \in Conns |-> Nobody]
    /\ bytes   = [t \in Threads |-> 0]
    /\ taken   = [t \in Threads |-> FALSE]
    /\ pc      = [t \in Threads |-> "idle"]

\* Goroutine <<c, d>> goes from one statement to another.
Go(c, d, from, to) == pc[<<c, d>>] = from /\ pc' = [pc EXCEPT ![<<c, d>>] = to]

-----------------------------------------------------------------------------
(* activate *)

\* countUp / countDown with a positive number of bytes calls activate.
Transfer(c, d) ==
    /\ Go(c, d, "idle", "check")
    /\ \E n \in Sizes \ {0} :
          /\ seen[c] + n <= MaxSeen
          /\ bytes' = [bytes EXCEPT ![<<c, d>>] = n]
    /\ UNCHANGED <<refs, seen, active, closed, release, holder, taken>>

\* The fast path out, without the mutex.
Check(c, d) ==
    /\ \/ (active[c] \/ closed[c]) /\ Go(c, d, "check", "idle")
       \/ ~(active[c] \/ closed[c]) /\ Go(c, d, "check", "add")
    /\ UNCHANGED <<refs, seen, active, closed, release, holder, bytes, taken>>

\* Mutant of Add: each call is judged by its own bytes.
AddOwnBytes(c, d) ==
    /\ seen' = [seen EXCEPT ![c] = @ + bytes[<<c, d>>]]
    /\ \/ bytes[<<c, d>>] < Threshold /\ Go(c, d, "add", "idle")
       \/ bytes[<<c, d>>] >= Threshold /\ Go(c, d, "add", "lock")
    /\ UNCHANGED <<refs, active, closed, release, holder, bytes, taken>>

\* seen.Add returns the sum; below the threshold there is nothing more to do.
Add(c, d) ==
    LET sum == seen[c] + bytes[<<c, d>>]
    IN  /\ seen' = [seen EXCEPT ![c] = sum]
        /\ \/ sum < Threshold /\ Go(c, d, "add", "idle")
           \/ sum >= Threshold /\ Go(c, d, "add", "lock")
        /\ UNCHANGED <<refs, active, closed, release, holder, bytes, taken>>

Lock(c, d) ==
    /\ holder[c] = Nobody
    /\ holder' = [holder EXCEPT ![c] = d]
    /\ \/ Go(c, d, "lock", "recheck")
       \/ Go(c, d, "closeLock", "take")
    /\ UNCHANGED <<refs, seen, active, closed, release, bytes, taken>>

\* Mutants of Recheck: only one of the flags is looked at again.
RecheckClosed(c, d) ==
    /\ \/ /\ closed[c]
          /\ Go(c, d, "recheck", "idle")
          /\ holder' = [holder EXCEPT ![c] = Nobody]
       \/ ~closed[c] /\ Go(c, d, "recheck", "open") /\ UNCHANGED holder
    /\ UNCHANGED <<refs, seen, active, closed, release, bytes, taken>>

RecheckActive(c, d) ==
    /\ \/ /\ active[c]
          /\ Go(c, d, "recheck", "idle")
          /\ holder' = [holder EXCEPT ![c] = Nobody]
       \/ ~active[c] /\ Go(c, d, "recheck", "open") /\ UNCHANGED holder
    /\ UNCHANGED <<refs, seen, active, closed, release, bytes, taken>>

\* The flags again, under the mutex.
Recheck(c, d) ==
    /\ \/ /\ active[c] \/ closed[c]
          /\ Go(c, d, "recheck", "idle")
          /\ holder' = [holder EXCEPT ![c] = Nobody]
       \/ /\ ~(active[c] \/ closed[c])
          /\ Go(c, d, "recheck", "open")
          /\ UNCHANGED holder
    /\ UNCHANGED <<refs, seen, active, closed, release, bytes, taken>>

\* release = t.Open(...): the counters go up under the tracker's mutex.
Open(c, d) ==
    /\ Go(c, d, "open", "store")
    /\ refs' = [k \in RefKeys |-> IF k \in KeysOf[c] THEN refs[k] + 1 ELSE refs[k]]
    /\ release' = [release EXCEPT ![c] = TRUE]
    /\ UNCHANGED <<seen, active, closed, holder, bytes, taken>>

\* active.Store(true) and the deferred unlock.
StoreActive(c, d) ==
    /\ Go(c, d, "store", "idle")
    /\ active' = [active EXCEPT ![c] = TRUE]
    /\ holder' = [holder EXCEPT ![c] = Nobody]
    /\ UNCHANGED <<refs, seen, closed, release, bytes, taken>>

-----------------------------------------------------------------------------
(* closePending *)

\* The goroutine ends and closes the connection.
Close(c, d) ==
    /\ Go(c, d, "idle", "swap")
    /\ UNCHANGED <<refs, seen, active, closed, release, holder, bytes, taken>>

\* Mutant of SwapClosed: a connection that is not active yet has no closure.
SwapClosedIfActive(c, d) ==
    /\ closed' = [closed EXCEPT ![c] = TRUE]
    /\ \/ (closed[c] \/ ~active[c]) /\ Go(c, d, "swap", "ended")
       \/ (~closed[c] /\ active[c]) /\ Go(c, d, "swap", "closeLock")
    /\ UNCHANGED <<refs, seen, active, release, holder, bytes, taken>>

\* closed.Swap(true): only the first close goes on.
SwapClosed(c, d) ==
    /\ closed' = [closed EXCEPT ![c] = TRUE]
    /\ \/ closed[c] /\ Go(c, d, "swap", "ended")
       \/ ~closed[c] /\ Go(c, d, "swap", "closeLock")
    /\ UNCHANGED <<refs, seen, active, release, holder, bytes, taken>>

\* Take the closure and unlock.
TakeRelease(c, d) ==
    /\ taken' = [taken EXCEPT ![<<c, d>>] = release[c]]
    /\ release' = [release EXCEPT ![c] = FALSE]
    /\ holder' = [holder EXCEPT ![c] = Nobody]
    /\ \/ release[c] /\ Go(c, d, "take", "release")
       \/ ~release[c] /\ Go(c, d, "take", "ended")
    /\ UNCHANGED <<refs, seen, active, closed, bytes>>

\* Mutant of Release: entries the connection has no key for go down as well.
ReleaseEveryKey(c, d) ==
    /\ Go(c, d, "release", "ended")
    /\ refs' = [k \in RefKeys |-> refs[k] - 1]
    /\ taken' = [taken EXCEPT ![<<c, d>>] = FALSE]
    /\ UNCHANGED <<seen, active, closed, release, holder, bytes>>

\* SessionTracker.close: the counters go down, an entry that falls to 0 (or
\* below) is deleted.
Release(c, d) ==
    /\ Go(c, d, "release", "ended")
    /\ refs' = [k \in RefKeys |->
                  IF k \in KeysOf[c] THEN IF refs[k] - 1 <= 0 THEN 0 ELSE refs[k] - 1
                  ELSE refs[k]]
    /\ taken' = [taken EXCEPT ![<<c, d>>] = FALSE]
    /\ UNCHANGED <<seen, active, closed, release, holder, bytes>>

-----------------------------------------------------------------------------
Activation(c, d) ==
    Check(c, d) \/ Add(c, d) \/ Lock(c, d) \/ Recheck(c, d) \/ Open(c, d) \/ StoreActive(c, d)

Closing(c, d) == SwapClosed(c, d) \/ TakeRelease(c, d) \/ Release(c, d)

Running(c, d) == Activation(c, d) \/ Closing(c, d)

AllEnded == \A t \in Threads : pc[t] = "ended"

Ended == AllEnded /\ UNCHANGED vars

Next ==
    \/ \E c \in Conns, d \in Dirs : Transfer(c, d) \/ Close(c, d) \/ Running(c, d)
    \/ Ended

Spec == Init /\ [][Next]_vars

\* A goroutine inside activate or closePending keeps running, and the mutex is
\* handed to a goroutine that keeps asking for it.  Nothing makes a connection
\* move bytes or close.
Fairness ==
    \A c \in Conns, d \in Dirs :
        /\ WF_vars(Running(c, d))
        /\ SF_vars(Lock(c, d))

FairSpec == Spec /\ Fairness

-----------------------------------------------------------------------------
(* Properties *)

TypeOK ==
    /\ refs \in [RefKeys -> Nat]
    /\ seen \in [Conns -> Nat]
    /\ active \in [Conns -> BOOLEAN] /\ closed \in [Conns -> BOOLEAN]
    /\ release \in [Conns -> BOOLEAN]
    /\ holder \in [Conns -> Dirs \cup {Nobody}]
    /\ bytes \in [Threads -> Nat]
    /\ taken \in [Threads -> BOOLEAN]
    /\ pc \in [Threads -> Labels]

\* The connection is counted in the tracker: its closure is set, or a close has
\* taken it and not called it yet.
Holding(c) == release[c] \/ \E d \in Dirs : taken[<<c, d>>]

\* An entry counts exactly the connections that hold it: two directions that
\* cross the threshold together count once, and no release is lost or repeated.
RefsMatchSessions ==
    \A k \in RefKeys :
        refs[k] = Cardinality({c \in Conns : Holding(c) /\ k \in KeysOf[c]})

\* A connection whose goroutines have ended is not counted: no activation that
\* overlaps the close leaves a device online for ever.
NoLeakedSession ==
    \A c \in Conns : (\A d \in Dirs : pc[<<c, d>>] = "ended") => ~Holding(c)

\* When nobody is inside activate or closePending of an open connection, it is
\* counted exactly if it moved the threshold: the directions add up, and neither
\* may think the other one crosses it.
OnlineFromThreshold ==
    \A c \in Conns :
        (~closed[c] /\ \A d \in Dirs : pc[<<c, d>>] = "idle")
            => (Holding(c) <=> seen[c] >= Threshold)

\* What the tracker makes of a connection, for OnlineDevices.  A close that comes
\* while a direction opens the session does not end it before it began.
Opening(c) == \E d \in Dirs : pc[<<c, d>>] = "open"

PhaseOf(c) == IF Holding(c) THEN "online"
              ELSE IF closed[c] /\ ~Opening(c) THEN "gone" ELSE "pending"

phases == [c \in Conns |-> PhaseOf(c)]

Devices == INSTANCE OnlineDevices WITH Sessions <- Conns, phase <- phases

\* The tracker implements pending -> online -> gone for each connection: none is
\* counted twice or comes back after its close.
ImplementsOnlineDevices == Devices!Spec

\* A closed connection is eventually no longer counted.
ClosedIsReleased == \A c \in Conns : closed[c] ~> [](~Holding(c))

=============================================================================
