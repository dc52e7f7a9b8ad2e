---------------------------- MODULE MCPanelStack ----------------------------
(* PanelStack for TLC: two labels and every combination of flags. *)
EXTENDS PanelStack, MCPanelRouting, TLC

Symmetry == Permutations(Labels) \cup Permutations(Ips)
=============================================================================
