--------------------------- MODULE DeviceReporting ---------------------------
(***************************************************************************)
(* The session tracker and the syncer that reports its devices, in one      *)
(* process.                                                                *)
(*                                                                         *)
(* SessionTracker says what connections do to deviceRefs and sourceRefs,    *)
(* AliveReporting what the syncer makes of the devices that are online, of  *)
(* which it only says that they come and go.  Here they come and go because *)
(* connections open and release their sessions.  The two share deviceRefs   *)
(* under the tracker's mutex and nothing else, so that their steps          *)
(* interleave; when the process ends, both do.                              *)
(***************************************************************************)
EXTENDS SessionTracker, AliveReporting

\* The entries of refs that are deviceRefs[t][u][ip] of a panel user.  All others
\* are those of sourceRefs, or of a user whose name is no panel id.
DeviceKeys == Peers \X Ips

\* Open counts a connection under the peer address it comes from.
OneAddressEach ==
    /\ DeviceKeys \subseteq RefKeys
    /\ \A c \in Conns : \A k, l \in KeysOf[c] \cap DeviceKeys : k = l

\* The keys of deviceRefs: an entry that falls to 0 is deleted.
Online == [p \in Peers |-> {ip \in Ips : refs[<<p, ip>>] > 0}]

reportingVars == <<vars, aliveVars>>

InitReporting == Init /\ InitAlive

\* A statement of a connection's goroutine.
Session ==
    /\ round # "exited"
    /\ Next
    /\ devices' = Online'
    /\ UNCHANGED <<lastAlive, current, payload, todo, round, view, faults>>

\* A step of the syncer's goroutine, or the end of the process.
Report ==
    /\ Syncer \/ Exit \/ Exited
    /\ UNCHANGED vars

NextReporting == Session \/ Report

ReportingSpec == InitReporting /\ [][NextReporting]_reportingVars

-----------------------------------------------------------------------------
(* Properties *)

\* The addresses from which user u has a session at the node of client i.
SessionsOf(i, u) ==
    {ip \in Ips : \E t \in Tags, c \in Conns :
        PanelOf[t] = i /\ <<<<t, u>>, ip>> \in KeysOf[c] /\ Holding(c)}

\* The tracker is what SessionTracker says, whatever the syncer does with its maps.
ImplementsTracker == Spec

\* The devices the syncer reports change as AliveReporting takes them to: what it
\* shows about deltas and the panel holds for the sessions of connections.
ImplementsAlive == AliveSpec

\* From the connections to the panel: between two pushes, if the devices are those
\* reported last, the panel shows the addresses that have a session, and no other.
SessionsAreShown ==
    faults = 0 /\ round \in {"tick", "diff"} /\ lastAlive = devices =>
        \A i \in Clients, u \in Users : view[i][u] = SessionsOf(i, u)

\* A snapshot is of one moment of the tracker: a step that takes one takes the
\* addresses with a session, under every tag and for every user at once.
SnapshotsAreSessions ==
    [][DevicesSnapshot =>
          current' = [p \in Peers |-> {ip \in Ips : \E c \in Conns :
                                          <<p, ip>> \in KeysOf[c] /\ Holding(c)}]]_reportingVars

=============================================================================
