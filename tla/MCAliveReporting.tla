-------------------------- MODULE MCAliveReporting --------------------------
(* AliveReporting for TLC: two tags of one user. *)
EXTENDS AliveReporting, TLC

CONSTANTS t1, t2, p1, p2

\* One client for each tag: two nodes, or a node and a mapped source.
OneTagEach == t1 :> p1 @@ t2 :> p2
=============================================================================
