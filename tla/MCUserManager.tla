--------------------------- MODULE MCUserManager ---------------------------
(* UserManager for TLC: a VLESS and a Shadowsocks inbound, two users. *)
EXTENDS UserManager, TLC

CONSTANTS vless, ss, u1, u2

\* A secret can pass from one user to the other, or be that of both.
EitherSecret == [id \in Ids |-> IF id = u1 THEN {"a", "b"} ELSE {"a"}]

\* The first user may have no limit, one or another; the second has none.
LimitsOfFirst == [id \in Ids |-> IF id = u1 THEN {0, 1, 2} ELSE {0}]

\* Bound: a list that failed is applied before another one is. The states in which
\* it was not are checked, but not left.
Retried == ~mixed

Symmetry == Permutations(Gens) \cup Permutations(Conns)
=============================================================================
