------------------------- MODULE MCTrafficAccounting -------------------------
(* TrafficAccounting for TLC: the inbounds of a VLESS + Hysteria 2 node. *)
EXTENDS TrafficAccounting, TLC

CONSTANTS vless, hy2

\* configurePanel without and with panelHY2NodeID: one client, or two in order.
OnePanel  == [t \in Tags |-> 1]
TwoPanels == [t \in Tags |-> IF t = hy2 THEN 2 ELSE 1]

Symmetry == Permutations(Conns) \cup Permutations(Storages) \cup Permutations(Users)
=============================================================================
