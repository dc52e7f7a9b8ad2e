-------------------------- MODULE MCSessionTracker --------------------------
(* SessionTracker for TLC: connections from two addresses in one source range. *)
EXTENDS SessionTracker, TLC

CONSTANTS c1, c2, device, other, label

\* c1 comes from one address, every other connection from a second one; both
\* addresses have the same source label.
SameLabel == [c \in Conns |-> {IF c = c1 THEN device ELSE other, label}]
=============================================================================
