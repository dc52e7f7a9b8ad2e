---------------------------- MODULE OnlineDevices ----------------------------
(***************************************************************************)
(* What the session tracker promises: a connection is pending, then counts  *)
(* as an online session of its device at most once, and once it is gone it  *)
(* never counts again.                                                      *)
(***************************************************************************)
CONSTANT Sessions  \* proxied connections

VARIABLE phase     \* phase[s]: what the tracker makes of connection s

Phases == {"pending", "online", "gone"}

Init == phase = [s \in Sessions |-> "pending"]

Activate(s) == phase[s] = "pending" /\ phase' = [phase EXCEPT ![s] = "online"]

Leave(s) == phase[s] # "gone" /\ phase' = [phase EXCEPT ![s] = "gone"]

Next == \E s \in Sessions : Activate(s) \/ Leave(s)

Spec == Init /\ [][Next]_phase
=============================================================================
