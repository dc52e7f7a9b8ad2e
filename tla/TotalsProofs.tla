---------------------------- MODULE TotalsProofs ----------------------------
(* What sums do: the lemmas the proofs about bytes and tokens share. *)
EXTENDS Totals, FiniteSetTheorems, TLAPS

LEMMA UnitsAre ==
    ASSUME NEW m, NEW S
    PROVE  \A p : p \in Units(m, S) <=>
                     \E x \in S : \E k \in 1 .. m[x] : p = <<x, k>>
BY DEF Units

\* A sum over a finite set is a natural number.
LEMMA TotalIsNatural ==
    ASSUME NEW S, IsFiniteSet(S), NEW m, \A x \in S : m[x] \in Nat
    PROVE  IsFiniteSet(Units(m, S)) /\ Total(m, S) \in Nat
<1> DEFINE part == [x \in S |-> {x} \X (1 .. m[x])]
           parts == {part[x] : x \in S}
<1>1. part \in Surjection(S, parts)
  BY DEF Surjection
<1>2. IsFiniteSet(parts)
  BY <1>1, FS_Surjection
<1>3. \A x \in S : IsFiniteSet(part[x])
  <2> TAKE x \in S
  <2>1. IsFiniteSet({x})
    BY FS_Singleton
  <2>2. 1 \in Int /\ m[x] \in Int
    OBVIOUS
  <2>3. IsFiniteSet(1 .. m[x])
    BY <2>2, FS_Interval
  <2> QED
    BY <2>1, <2>3, FS_Product
<1>4. Units(m, S) = UNION parts
  BY DEF Units
<1>5. \A T \in parts : IsFiniteSet(T)
  BY <1>3
<1> HIDE DEF part, parts
<1>6. IsFiniteSet(Units(m, S))
  BY <1>2, <1>4, <1>5, FS_UNION
<1> QED
  BY <1>6, FS_CardinalityType DEF Total

LEMMA TotalOfNothing == ASSUME NEW m PROVE Total(m, {}) = 0
BY FS_EmptySet DEF Total, Units

LEMMA TotalOfOne ==
    ASSUME NEW m, NEW x, m[x] \in Nat
    PROVE  Total(m, {x}) = m[x]
<1>1. IsFiniteSet({x}) /\ Cardinality({x}) = 1
  BY FS_Singleton
<1>2. IsFiniteSet(1 .. m[x]) /\ Cardinality(1 .. m[x]) = m[x]
  <2>1. m[x] \in Int /\ 1 \in Int
    OBVIOUS
  <2>2. /\ IsFiniteSet(1 .. m[x])
        /\ Cardinality(1 .. m[x]) = IF 1 > m[x] THEN 0 ELSE m[x] - 1 + 1
    BY ONLY <2>1, FS_Interval
  <2> QED
    BY <2>2
<1>3. Cardinality({x} \X (1 .. m[x])) = m[x]
  <2>1. Cardinality({x} \X (1 .. m[x])) = Cardinality({x}) * Cardinality(1 .. m[x])
    BY <1>1, <1>2, FS_Product
  <2> QED
    BY <1>1, <1>2, <2>1
<1>4. Units(m, {x}) = {x} \X (1 .. m[x])
  BY DEF Units
<1> QED
  BY <1>3, <1>4 DEF Total

\* A sum over two parts with nothing in common is the sum of theirs.
LEMMA TotalOfParts ==
    ASSUME NEW S, NEW T, IsFiniteSet(S), IsFiniteSet(T), S \cap T = {},
           NEW m, \A x \in S \cup T : m[x] \in Nat
    PROVE  Total(m, S \cup T) = Total(m, S) + Total(m, T)
<1>1. /\ IsFiniteSet(Units(m, S)) /\ IsFiniteSet(Units(m, T))
      /\ Total(m, S) \in Nat /\ Total(m, T) \in Nat
  BY TotalIsNatural
<1>2. Units(m, S \cup T) = Units(m, S) \cup Units(m, T)
  BY DEF Units
<1>3. Units(m, S) \cap Units(m, T) = {}
  BY UnitsAre
<1>4. Cardinality(Units(m, S) \cup Units(m, T))
        = Cardinality(Units(m, S)) + Cardinality(Units(m, T))
            - Cardinality(Units(m, S) \cap Units(m, T))
  BY <1>1, FS_Union
<1>5. Cardinality(Units(m, S) \cap Units(m, T)) = 0
  BY <1>3, FS_EmptySet
<1>6. Total(m, S \cup T) = Total(m, S) + Total(m, T) - 0
  BY <1>2, <1>4, <1>5 DEF Total
<1> QED
  BY <1>1, <1>6

\* Taking one member out.
LEMMA TotalWithout ==
    ASSUME NEW S, IsFiniteSet(S), NEW m, \A x \in S : m[x] \in Nat, NEW x \in S
    PROVE  /\ IsFiniteSet(S \ {x}) /\ Total(m, S \ {x}) \in Nat
           /\ Total(m, S) = Total(m, S \ {x}) + m[x]
<1>1. IsFiniteSet(S \ {x}) /\ IsFiniteSet({x})
  BY FS_RemoveElement, FS_Singleton
<1>2. S = (S \ {x}) \cup {x} /\ (S \ {x}) \cap {x} = {}
  OBVIOUS
<1>3. Total(m, S \ {x}) \in Nat /\ Total(m, {x}) = m[x]
  BY <1>1, TotalIsNatural, TotalOfOne
<1>4. \A y \in (S \ {x}) \cup {x} : m[y] \in Nat
  OBVIOUS
<1>5. Total(m, (S \ {x}) \cup {x}) = Total(m, S \ {x}) + Total(m, {x})
  BY <1>1, <1>2, <1>4, TotalOfParts
<1> QED
  BY <1>1, <1>2, <1>3, <1>5

\* Putting one in.
LEMMA TotalWith ==
    ASSUME NEW S, IsFiniteSet(S), NEW x, x \notin S, NEW m, \A y \in S \cup {x} : m[y] \in Nat
    PROVE  Total(m, S \cup {x}) = Total(m, S) + m[x]
<1>1. IsFiniteSet(S \cup {x}) /\ (S \cup {x}) \ {x} = S
  BY FS_AddElement
<1> QED
  BY <1>1, TotalWithout

\* Sums of equal numbers are equal.
LEMMA TotalSame ==
    ASSUME NEW S, NEW m, NEW n, \A x \in S : m[x] = n[x]
    PROVE  Total(m, S) = Total(n, S)
<1>1. \A p : p \in Units(m, S) <=> p \in Units(n, S)
  BY UnitsAre
<1>2. Units(m, S) = Units(n, S)
  BY <1>1
<1> QED
  BY <1>2 DEF Total

\* A sum of which all that is not 0 is in the other, and not smaller there.
LEMMA TotalWithin ==
    ASSUME NEW S, NEW T, IsFiniteSet(T), NEW m, NEW n, \A x \in T : n[x] \in Nat,
           \A x \in S : m[x] \in Nat /\ (m[x] > 0 => x \in T /\ m[x] <= n[x])
    PROVE  Total(m, S) <= Total(n, T)
<1>1. IsFiniteSet(Units(n, T))
  BY TotalIsNatural
<1>2. Units(m, S) \subseteq Units(n, T)
  <2> SUFFICES ASSUME NEW x \in S, NEW k \in 1 .. m[x] PROVE <<x, k>> \in Units(n, T)
    BY UnitsAre
  <2>1. x \in T /\ k \in 1 .. n[x]
    OBVIOUS
  <2> QED
    BY <2>1, UnitsAre
<1> QED
  BY <1>1, <1>2, FS_Subset DEF Total

\* A sum of more and greater numbers is not smaller.
LEMMA TotalMonotone ==
    ASSUME NEW T, IsFiniteSet(T), NEW S \in SUBSET T, NEW m, NEW n,
           \A x \in S : m[x] \in Nat /\ m[x] <= n[x], \A x \in T : n[x] \in Nat
    PROVE  Total(m, S) <= Total(n, T)
BY TotalWithin

LEMMA TotalOfZeros ==
    ASSUME NEW S, IsFiniteSet(S), NEW m, \A x \in S : m[x] = 0
    PROVE  Total(m, S) = 0
<1>1. Total(m, S) <= Total(m, {}) /\ Total(m, S) \in Nat
  BY TotalWithin, TotalIsNatural, FS_EmptySet
<1> QED
  BY <1>1, TotalOfNothing

LEMMA TotalCovers ==
    ASSUME NEW S, IsFiniteSet(S), NEW m, \A x \in S : m[x] \in Nat, NEW x \in S
    PROVE  m[x] <= Total(m, S)
<1>1. Total(m, S) = Total(m, S \ {x}) + m[x] /\ Total(m, S \ {x}) \in Nat
  BY TotalWithout
<1> QED
  BY <1>1

\* A sum of numbers that are not above a bound.
LEMMA TotalBounded ==
    ASSUME NEW S, IsFiniteSet(S), NEW b \in Nat, NEW m, \A x \in S : m[x] \in 0 .. b
    PROVE  Total(m, S) <= Cardinality(S) * b
<1>1. IsFiniteSet(1 .. b) /\ Cardinality(1 .. b) = b
  BY FS_Interval
<1>2. IsFiniteSet(S \X (1 .. b)) /\ Cardinality(S \X (1 .. b)) = Cardinality(S) * b
  BY <1>1, FS_Product
<1>3. Units(m, S) \subseteq S \X (1 .. b)
  <2> SUFFICES ASSUME NEW x \in S, NEW k \in 1 .. m[x] PROVE <<x, k>> \in S \X (1 .. b)
    BY UnitsAre
  <2> QED
    OBVIOUS
<1> QED
  BY <1>2, <1>3, FS_Subset DEF Total

\* A sum that changes at one place only.
LEMMA TotalChanged ==
    ASSUME NEW S, IsFiniteSet(S), NEW m, NEW n, NEW x \in S,
           \A y \in S : m[y] \in Nat /\ n[y] \in Nat, \A y \in S \ {x} : m[y] = n[y]
    PROVE  Total(n, S) = Total(m, S) - m[x] + n[x]
<1>1. Total(m, S) = Total(m, S \ {x}) + m[x] /\ Total(m, S \ {x}) \in Nat
  BY TotalWithout
<1>2. Total(n, S) = Total(n, S \ {x}) + n[x]
  BY TotalWithout
<1>3. Total(m, S \ {x}) = Total(n, S \ {x})
  BY TotalSame
<1> QED
  BY <1>1, <1>2, <1>3

=============================================================================
