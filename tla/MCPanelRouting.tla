--------------------------- MODULE MCPanelRouting ---------------------------
(* PanelRouting for TLC: two labels and groups of flag combinations. *)
EXTENDS PanelRouting

AllConfigs == [mode : Modes, mapped : SUBSET Labels, dropped : SUBSET Labels]

\* -source-drop names one of two labels, and there is no -source-server-map.
DropOneLabel == {c \in AllConfigs : c.mode = "ss" /\ c.mapped = {} /\ c.dropped # {}}

\* -panel-hy2-node-id together with -source-server-map.
MappedTwoNodes == {c \in AllConfigs : c.mode = "both" /\ c.mapped # {} /\ c.dropped = {}}
=============================================================================
