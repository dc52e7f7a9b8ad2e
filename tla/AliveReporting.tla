--------------------------- MODULE AliveReporting ---------------------------
(***************************************************************************)
(* Online devices, from the session tracker to the panel.                   *)
(*                                                                         *)
(* Each round of the syncer goroutine takes the devices that are online,    *)
(* compares them with the devices it last got through (lastAlive), pushes   *)
(* the users that differ - an empty list when a user has none left - and    *)
(* commits what it pushed.  Devices come and go all the while: they are     *)
(* the keys of SessionTracker's deviceRefs.  A panel client shows for a     *)
(* user the addresses of the last push that named the user.  Users are      *)
(* numeric ids: entries of other names are never pushed.                    *)
(***************************************************************************)
EXTENDS Integers

CONSTANTS
    Users,      \* panel user ids
    Ips,        \* peer addresses
    Tags,       \* inbound tags, with their source label if any
    Clients,    \* panel clients
    PanelOf,    \* PanelOf[t]: the client that tag t is routed to
    MaxFaults   \* bound: pushes that fail after a client has taken its part

ASSUME AliveAssumption ==
    /\ PanelOf \in [Tags -> Clients]
    /\ MaxFaults \in Nat

Peers == Tags \X Users

VARIABLES
    devices,    \* keys of deviceRefs[t][u]
    lastAlive,  \* lastAlive[t][u]
    current,    \* the DevicesSnapshot of this round
    payload,    \* the delta being pushed: a map over some of Peers
    todo,       \* clients not asked yet in this push
    round,      \* where the syncer goroutine is
    view,       \* view[i][u]: the addresses client i shows for user u
    faults      \* history: pushes that failed although a client took its part

aliveVars == <<devices, lastAlive, current, payload, todo, round, view, faults>>

NoDevices  == [p \in Peers |-> {}]
NoDelta == [p \in {} |-> {}]

InitAlive ==
    /\ devices = NoDevices /\ lastAlive = NoDevices /\ current = NoDevices
    /\ payload = NoDelta
    /\ todo = {}
    /\ round = "tick"
    /\ view = [i \in Clients |-> [u \in Users |-> {}]]
    /\ faults = 0

-----------------------------------------------------------------------------
(* Connections *)

Appear(p, ip) ==
    /\ round # "exited"
    /\ devices' = [devices EXCEPT ![p] = @ \cup {ip}]
    /\ UNCHANGED <<lastAlive, current, payload, todo, round, view, faults>>

Disappear(p, ip) ==
    /\ round # "exited"
    /\ devices' = [devices EXCEPT ![p] = @ \ {ip}]
    /\ UNCHANGED <<lastAlive, current, payload, todo, round, view, faults>>

-----------------------------------------------------------------------------
(* The syncer goroutine *)

\* AliveDelta, first lock.
DevicesSnapshot ==
    /\ round = "tick"
    /\ current' = devices
    /\ round' = "diff"
    /\ UNCHANGED <<devices, lastAlive, payload, todo, view, faults>>

EndRound ==
    /\ round' = "tick"
    /\ payload' = NoDelta
    /\ todo' = {}
    /\ current' = NoDevices

\* Mutant of Delta: a user with no device left gets no entry.
DeltaNoTombstone ==
    [p \in {p \in Peers : current[p] # lastAlive[p] /\ current[p] # {}} |-> current[p]]

\* A user whose devices changed, or who has none left, gets an entry.
Delta == [p \in {p \in Peers : current[p] # lastAlive[p]} |-> current[p]]

\* AliveDelta, second lock, and the start of PushAlive.
AliveDelta ==
    /\ round = "diff"
    /\ \/ /\ Delta # NoDelta
          /\ payload' = Delta
          /\ todo' = Clients
          /\ round' = "push"
          /\ UNCHANGED current
       \/ Delta = NoDelta /\ EndRound
    /\ UNCHANGED <<devices, lastAlive, view, faults>>

\* The tags whose entry for user u client i may send: when several are routed
\* to one client under one base inbound, each overwrites the one before.
Entries(i, u) == {t \in Tags : PanelOf[t] = i /\ <<t, u>> \in DOMAIN payload}

HasPart(i) == \E u \in Users : Entries(i, u) # {}

\* Client i takes its part of the payload.
Take(i) ==
    \E pick \in [Users -> Tags] :
        /\ \A u \in Users : Entries(i, u) # {} => pick[u] \in Entries(i, u)
        /\ view' = [view EXCEPT ![i] =
                     [u \in Users |-> IF Entries(i, u) # {} THEN payload[<<pick[u], u>>]
                                      ELSE view[i][u]]]

Asked(i) == todo' = todo \ {i} /\ UNCHANGED <<current, payload, round>>

\* Nothing to send to this client.
PushSkipped(i) ==
    /\ round = "push" /\ i \in todo
    /\ ~HasPart(i)
    /\ Asked(i)
    /\ UNCHANGED <<devices, lastAlive, view, faults>>

PushAccepted(i) ==
    /\ round = "push" /\ i \in todo
    /\ HasPart(i)
    /\ Take(i)
    /\ Asked(i)
    /\ UNCHANGED <<devices, lastAlive, faults>>

\* Mutant of PushRefused: the error is dropped.
PushRefusedIgnored(i) ==
    /\ round = "push" /\ i \in todo
    /\ HasPart(i)
    /\ Asked(i)
    /\ UNCHANGED <<devices, lastAlive, view, faults>>

\* The client did not take it; one asked before may have taken its part.
PushRefused(i) ==
    /\ round = "push" /\ i \in todo
    /\ HasPart(i)
    /\ \/ (\A j \in Clients \ todo : ~HasPart(j)) /\ UNCHANGED faults
       \/ /\ \E j \in Clients \ todo : HasPart(j)
          /\ faults < MaxFaults
          /\ faults' = faults + 1
    /\ EndRound
    /\ UNCHANGED <<devices, lastAlive, view>>

\* The client took it, but the answer was lost, late or not 2xx.
PushAnswerLost(i) ==
    /\ round = "push" /\ i \in todo
    /\ HasPart(i)
    /\ faults < MaxFaults
    /\ faults' = faults + 1
    /\ Take(i)
    /\ EndRound
    /\ UNCHANGED <<devices, lastAlive>>

\* Mutants of CommitAlive: the payload replaces what was remembered, or the
\* devices online by now are remembered.
CommitAliveReplaced ==
    /\ round = "push" /\ todo = {}
    /\ lastAlive' = payload
    /\ EndRound
    /\ UNCHANGED <<devices, view, faults>>

CommitAliveDevices ==
    /\ round = "push" /\ todo = {}
    /\ lastAlive' = [p \in Peers |-> IF p \in DOMAIN payload THEN devices[p] ELSE lastAlive[p]]
    /\ EndRound
    /\ UNCHANGED <<devices, view, faults>>

CommitAlive ==
    /\ round = "push" /\ todo = {}
    /\ lastAlive' = [p \in Peers |-> IF p \in DOMAIN payload THEN payload[p] ELSE lastAlive[p]]
    /\ EndRound
    /\ UNCHANGED <<devices, view, faults>>

\* The process ends.  The last flush sends traffic, but no devices.
Exit ==
    /\ round # "exited"
    /\ round' = "exited"
    /\ payload' = NoDelta /\ todo' = {} /\ current' = NoDevices
    /\ UNCHANGED <<devices, lastAlive, view, faults>>

Exited == round = "exited" /\ UNCHANGED aliveVars

-----------------------------------------------------------------------------
Push(i) == PushSkipped(i) \/ PushAccepted(i) \/ PushRefused(i) \/ PushAnswerLost(i)

Syncer ==
    \/ DevicesSnapshot
    \/ AliveDelta
    \/ \E i \in Clients : Push(i)
    \/ CommitAlive

NextAlive ==
    \/ \E p \in Peers, ip \in Ips : Appear(p, ip) \/ Disappear(p, ip)
    \/ Syncer
    \/ Exit
    \/ Exited

AliveSpec == InitAlive /\ [][NextAlive]_aliveVars

\* The ticker keeps firing, and a client asked again and again answers.
AliveFairness ==
    /\ WF_aliveVars(Syncer)
    /\ \A i \in Clients : SF_aliveVars(PushAccepted(i))

FairAliveSpec == AliveSpec /\ AliveFairness

-----------------------------------------------------------------------------
(* Properties *)

AliveTypeOK ==
    /\ devices \in [Peers -> SUBSET Ips]
    /\ lastAlive \in [Peers -> SUBSET Ips]
    /\ current \in [Peers -> SUBSET Ips]
    /\ DOMAIN payload \subseteq Peers
    /\ \A p \in DOMAIN payload : payload[p] \subseteq Ips
    /\ todo \subseteq Clients
    /\ round \in {"tick", "diff", "push", "exited"}
    /\ view \in [Clients -> [Users -> SUBSET Ips]]
    /\ faults \in Nat

\* What client i should show for user u, when the tracker's map is m.
ShownFor(m, i, u) == UNION {m[<<t, u>>] : t \in {t \in Tags : PanelOf[t] = i}}

Shown(m) == \A i \in Clients, u \in Users : view[i][u] = ShownFor(m, i, u)

\* Between two pushes the panel shows what lastAlive says it shows, unless a
\* push failed after a client had taken its part.  A delta is computed against
\* lastAlive alone, so this is what makes deltas enough.
LastAliveIsShown == faults = 0 /\ round \in {"tick", "diff"} => Shown(lastAlive)

\* During a push, a client shows what lastAlive says before its turn, and the
\* snapshot of this round after it: devices that changed since do not matter.
PushIsOneSnapshot ==
    faults = 0 /\ round = "push" =>
        \A i \in Clients, u \in Users :
            view[i][u] = ShownFor(IF i \in todo THEN lastAlive ELSE current, i, u)

\* Once the devices stop changing the panel shows them and keeps showing them,
\* whatever pushes were refused, if none failed after a client took its part.
StableDevicesAreShown ==
    <>[][FALSE]_devices => <>[](faults > 0 \/ round = "exited" \/ Shown(devices))

=============================================================================
