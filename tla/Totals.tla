------------------------------- MODULE Totals -------------------------------
(***************************************************************************)
(* Sums of natural numbers, as the number of units there are: a sum that is  *)
(* a cardinality can be reasoned about with the library's theorems on        *)
(* finite sets.                                                             *)
(***************************************************************************)
EXTENDS Integers, FiniteSets

\* The units of m at the members of S, each told apart from all others.
Units(m, S) == UNION {{x} \X (1 .. m[x]) : x \in S}

\* The sum of m[x] over all x in S.
Total(m, S) == Cardinality(Units(m, S))

=============================================================================
