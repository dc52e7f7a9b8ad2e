----------------------- MODULE NodeProvisioningProofs -----------------------
(***************************************************************************)
(* Proofs about NodeProvisioning, for any records, options, tags and number *)
(* of crashes and installations: the types of its variables, that the agent *)
(* runs what was installed last, that every rule of every node reaches its  *)
(* outbound, that the one DNS and the one options section are kept, and     *)
(* that only a pair of files cut short or mixed can keep sing-box from      *)
(* loading a complete configuration.                                        *)
(*                                                                         *)
(* What RouteMerge leaves is proved for lists of any length.  FoldLeft is   *)
(* defined by a choice of a function on the sets of positions: FoldExists   *)
(* shows that there is one, FoldSteps that its values at the beginnings of  *)
(* the list are those of a loop, and Induction goes from one beginning to   *)
(* the next.                                                               *)
(***************************************************************************)
EXTENDS NodeProvisioning, WellFoundedInduction, SequenceTheorems, TLAPS

-----------------------------------------------------------------------------
(* Folds *)

\* What holds at 0, and goes from a position to the next, holds at all positions: there is
\* no least one at which it fails.
LEMMA Induction ==
    ASSUME NEW n \in Nat, NEW S, 0 \in S, \A i \in 0 .. n - 1 : i \in S => i + 1 \in S
    PROVE  \A i \in 0 .. n : i \in S
<1> DEFINE T    == (0 .. n) \ S
           Less == OpToRel(<, Nat)
<1> SUFFICES ASSUME T # {} PROVE FALSE
  OBVIOUS
<1>1. IsWellFoundedOn(Less, Nat)
  BY NatLessThanWellFounded
<1>2. \A x \in Nat : x - 1 \in Nat => <<x - 1, x>> \in Less
  BY DEF OpToRel
<1>3. T \subseteq Nat
  OBVIOUS
<1> HIDE DEF Less
<1>4. PICK x \in T : \A y \in T : ~ (<<y, x>> \in Less)
  <2> HIDE DEF T
  <2> QED
    BY <1>1, <1>3, WFMin
<1>5. x \in 0 .. n /\ x \notin S /\ x # 0
  BY <1>4
<1>6. x \in Nat /\ x - 1 \in Nat /\ x - 1 \in 0 .. n - 1 /\ x - 1 \in 0 .. n /\ (x - 1) + 1 = x
  BY <1>5
<1>7. x - 1 \notin S
  BY <1>5, <1>6
<1> QED
  BY <1>2, <1>4, <1>6, <1>7

\* A set of positions has a last one.
LEMMA MaxIn ==
    ASSUME NEW n \in Nat, NEW s \in SUBSET (1 .. n), s # {}
    PROVE  Max(s) \in 1 .. n /\ \A y \in s : Max(s) >= y
<1> DEFINE S == {k \in 0 .. n : \A s2 \in SUBSET (1 .. k) : s2 # {} =>
                                  \E x \in s2 : \A y \in s2 : x >= y}
<1>1. 0 \in S
  <2>1. \A s2 \in SUBSET (1 .. 0) : s2 = {}
    OBVIOUS
  <2>2. \A s2 \in SUBSET (1 .. 0) : s2 # {} => \E x \in s2 : \A y \in s2 : x >= y
    BY <2>1
  <2> QED
    BY <2>2
<1>2. ASSUME NEW k \in 0 .. n - 1, k \in S PROVE k + 1 \in S
  <2> SUFFICES ASSUME NEW s2 \in SUBSET (1 .. k + 1), s2 # {}
               PROVE  \E x \in s2 : \A y \in s2 : x >= y
    OBVIOUS
  <2>1. CASE k + 1 \in s2
    BY <2>1
  <2>2. CASE k + 1 \notin s2
    <3>1. s2 \in SUBSET (1 .. k)
      BY <2>2
    <3> QED
      BY <1>2, <3>1
  <2> QED
    BY <2>1, <2>2
<1> HIDE DEF S
<1>3. n \in S
  BY <1>1, <1>2, Induction
<1>4. \E x \in s : \A y \in s : x >= y
  BY <1>3 DEF S
<1>5. Max(s) \in s /\ \A y \in s : Max(s) >= y
  BY <1>4 DEF Max
<1> QED
  BY <1>5

\* The last position of a beginning is its length, and without it the beginning before is left.
LEMMA Beginnings ==
    ASSUME NEW n \in Nat, NEW k \in 1 .. n
    PROVE  /\ 1 .. k \in SUBSET (1 .. n) /\ 1 .. k # {}
           /\ Max(1 .. k) = k /\ (1 .. k) \ {k} = 1 .. k - 1
<1>1. k \in 1 .. k /\ \A y \in 1 .. k : k >= y
  OBVIOUS
<1>2. \A x \in 1 .. k : (\A y \in 1 .. k : x >= y) => x = k
  BY <1>1
<1>3. Max(1 .. k) = k
  BY <1>1, <1>2 DEF Max
<1>4. 1 .. k \subseteq 1 .. n /\ (1 .. k) \ {k} = 1 .. k - 1
  OBVIOUS
<1> QED
  BY <1>1, <1>3, <1>4

\* What FoldLeft chooses exists: a function on the sets of positions.
IsFold(f, k, base, step) ==
    \A s \in SUBSET (1 .. k) :
        f[s] = IF s = {} THEN base ELSE step[<<Max(s), f[s \ {Max(s)}]>>]

LEMMA FoldExists ==
    ASSUME NEW V, NEW n \in Nat, NEW base \in V, NEW step \in [(1 .. n) \X V -> V]
    PROVE  \E f : f \in [SUBSET (1 .. n) -> V] /\ IsFold(f, n, base, step)
<1> DEFINE Is(f, k) == IsFold(f, k, base, step)
           S == {k \in 0 .. n : \E f : f \in [SUBSET (1 .. k) -> V] /\ Is(f, k)}
<1>1. 0 \in S
  <2> DEFINE f == [s \in SUBSET (1 .. 0) |-> base]
  <2>1. \A s \in SUBSET (1 .. 0) : s = {}
    OBVIOUS
  <2>2. f \in [SUBSET (1 .. 0) -> V]
    OBVIOUS
  <2>3. \A s \in SUBSET (1 .. 0) : f[s] = base
    OBVIOUS
  <2>4. Is(f, 0)
    <3> HIDE DEF f
    <3> QED
      BY <2>1, <2>3 DEF IsFold
  <2> HIDE DEF f
  <2>5. \E h : h \in [SUBSET (1 .. 0) -> V] /\ Is(h, 0)
    BY <2>2, <2>4
  <2>6. 0 \in 0 .. n
    OBVIOUS
  <2> HIDE DEF Is
  <2> QED
    BY <2>5, <2>6
<1>2. ASSUME NEW k \in 0 .. n - 1, k \in S PROVE k + 1 \in S
  <2>1. PICK f : f \in [SUBSET (1 .. k) -> V] /\ Is(f, k)
    BY <1>2
  <2> DEFINE g == [s \in SUBSET (1 .. k + 1) |->
                     IF k + 1 \in s THEN step[<<k + 1, f[s \ {k + 1}]>>] ELSE f[s]]
  <2>2. \A s \in SUBSET (1 .. k + 1) :
           /\ s \ {k + 1} \in SUBSET (1 .. k)
           /\ k + 1 \in s => Max(s) = k + 1
           /\ k + 1 \notin s => s \in SUBSET (1 .. k)
    <3> TAKE s \in SUBSET (1 .. k + 1)
    <3>1. s \ {k + 1} \subseteq 1 .. k
      OBVIOUS
    <3>2. ASSUME k + 1 \in s PROVE Max(s) = k + 1
      <4>1. \A y \in s : k + 1 >= y
        OBVIOUS
      <4>2. \A x \in s : (\A y \in s : x >= y) => x = k + 1
        BY <3>2
      <4> QED
        BY <3>2, <4>1, <4>2 DEF Max
    <3> QED
      BY <3>1, <3>2
  <2>3. g \in [SUBSET (1 .. k + 1) -> V]
    BY <2>1, <2>2
  <2>4. Is(g, k + 1)
    <3> SUFFICES ASSUME NEW s \in SUBSET (1 .. k + 1)
                 PROVE  g[s] = IF s = {} THEN base ELSE step[<<Max(s), g[s \ {Max(s)}]>>]
      BY DEF IsFold
    <3>1. CASE k + 1 \in s
      <4>1. Max(s) = k + 1 /\ s # {} /\ k + 1 \notin s \ {k + 1}
        BY <2>2, <3>1
      <4>2. s \ {k + 1} \in SUBSET (1 .. k + 1)
        OBVIOUS
      <4>3. g[s] = step[<<k + 1, f[s \ {k + 1}]>>] /\ g[s \ {k + 1}] = f[s \ {k + 1}]
        BY <3>1, <4>2
      <4> QED
        BY <4>1, <4>3
    <3>2. CASE k + 1 \notin s
      <4>1. s \in SUBSET (1 .. k) /\ g[s] = f[s]
        BY <2>2, <3>2
      <4>2. s \ {Max(s)} \in SUBSET (1 .. k + 1) /\ k + 1 \notin s \ {Max(s)}
        BY <3>2
      <4>3. g[s \ {Max(s)}] = f[s \ {Max(s)}]
        BY <4>2
      <4> QED
        BY <2>1, <4>1, <4>3 DEF IsFold
    <3> QED
      BY <3>1, <3>2
  <2> HIDE DEF g
  <2> QED
    BY <2>3, <2>4
<1> HIDE DEF S
<1>3. n \in S
  BY <1>1, <1>2, Induction
<1> QED
  BY <1>3 DEF S

\* Its values at the beginnings of the sequence are those of a loop over it.
IsLoop(f, V, n, base, step) ==
    /\ f \in [0 .. n -> V] /\ f[0] = base
    /\ \A i \in 1 .. n : f[i - 1] \in V /\ f[i] = step[<<i, f[i - 1]>>]

LEMMA FoldSteps ==
    ASSUME NEW V, NEW n \in Nat, NEW base \in V, NEW step \in [(1 .. n) \X V -> V], NEW it,
           it[{}] = base,
           \A s \in SUBSET (1 .. n) : s # {} /\ it[s \ {Max(s)}] \in V =>
               it[s] = step[<<Max(s), it[s \ {Max(s)}]>>]
    PROVE  \E f : it[1 .. n] = f[n] /\ IsLoop(f, V, n, base, step)
<1> DEFINE S == {i \in 0 .. n : it[1 .. i] \in V}
           f == [i \in 0 .. n |-> it[1 .. i]]
<1>1. 1 .. 0 = {}
  OBVIOUS
<1>2. \A k \in 1 .. n : it[1 .. k - 1] \in V => it[1 .. k] = step[<<k, it[1 .. k - 1]>>]
  <2> TAKE k \in 1 .. n
  <2>1. 1 .. k \in SUBSET (1 .. n) /\ 1 .. k # {} /\ Max(1 .. k) = k /\ (1 .. k) \ {k} = 1 .. k - 1
    BY Beginnings
  <2> QED
    BY <2>1
<1>3. 0 \in S
  BY <1>1
<1>4. ASSUME NEW i \in 0 .. n - 1, i \in S PROVE i + 1 \in S
  <2>1. i + 1 \in 1 .. n /\ (i + 1) - 1 = i /\ it[1 .. i] \in V
    BY <1>4
  <2>2. it[1 .. i + 1] = step[<<i + 1, it[1 .. i]>>]
    BY <1>2, <2>1
  <2> QED
    BY <2>1, <2>2
<1> HIDE DEF S
<1>5. \A i \in 0 .. n : i \in S
  BY <1>3, <1>4, Induction
<1>6. \A i \in 0 .. n : it[1 .. i] \in V
  BY <1>5 DEF S
<1>7. \A i \in 1 .. n : i - 1 \in 0 .. n /\ i \in 0 .. n
  OBVIOUS
<1>8. f \in [0 .. n -> V] /\ f[0] = base /\ f[n] = it[1 .. n]
  BY <1>1, <1>6
<1>9. \A i \in 1 .. n : f[i - 1] \in V /\ f[i] = step[<<i, f[i - 1]>>]
  BY <1>2, <1>6, <1>7
<1> HIDE DEF f
<1> QED
  BY <1>8, <1>9 DEF IsLoop

\* The loops of RouteMerge: the same statement and the same argument for each, since
\* the prover takes no lemma about an arbitrary operator.
AddOutboundFold(f, V, n, base, seq) ==
    /\ f \in [0 .. n -> V] /\ f[0] = base /\ f[n] = FoldLeft(AddOutbound, base, seq)
    /\ \A i \in 1 .. n : f[i] = AddOutbound(f[i - 1], seq[i])

LEMMA AddOutboundFolds ==
    ASSUME NEW D, NEW V, NEW seq \in Seq(D), NEW n, n = Len(seq), NEW base \in V,
           \A v \in V, d \in D : AddOutbound(v, d) \in V
    PROVE  \E f : AddOutboundFold(f, V, n, base, seq)
<1> DEFINE step == [p \in (1 .. n) \X V |-> AddOutbound(p[2], seq[p[1]])]
           it   == CHOOSE f : f = [s \in SUBSET DOMAIN seq |->
                      IF s = {} THEN base ELSE AddOutbound(f[s \ {Max(s)}], seq[Max(s)])]
<1>1. n \in Nat /\ DOMAIN seq = 1 .. n /\ \A i \in 1 .. n : seq[i] \in D
  OBVIOUS
<1>2. FoldLeft(AddOutbound, base, seq) = it[1 .. n]
  BY <1>1 DEF FoldLeft, MapThenFoldSet
<1>3. /\ step \in [(1 .. n) \X V -> V]
      /\ \A i \in 1 .. n, v \in V : step[<<i, v>>] = AddOutbound(v, seq[i])
  BY <1>1
<1>4. \A s \in SUBSET (1 .. n) : s # {} => Max(s) \in 1 .. n
  BY <1>1, MaxIn
<1> HIDE DEF step
<1>5. it = [s \in SUBSET DOMAIN seq |->
              IF s = {} THEN base ELSE AddOutbound(it[s \ {Max(s)}], seq[Max(s)])]
  <2>1. PICK f : f \in [SUBSET (1 .. n) -> V] /\ IsFold(f, n, base, step)
    BY <1>1, <1>3, FoldExists
  <2>2. f = [s \in SUBSET DOMAIN seq |->
               IF s = {} THEN base ELSE AddOutbound(f[s \ {Max(s)}], seq[Max(s)])]
    BY <1>1, <1>3, <1>4, <2>1 DEF IsFold
  <2> QED
    BY <2>2
<1> HIDE DEF it
<1>6. PICK f : it[1 .. n] = f[n] /\ IsLoop(f, V, n, base, step)
  <2>1. it[{}] = base
    BY <1>5
  <2>2. \A s \in SUBSET (1 .. n) : s # {} /\ it[s \ {Max(s)}] \in V =>
           it[s] = step[<<Max(s), it[s \ {Max(s)}]>>]
    <3> TAKE s \in SUBSET (1 .. n)
    <3> HAVE s # {} /\ it[s \ {Max(s)}] \in V
    <3>1. it[s] = AddOutbound(it[s \ {Max(s)}], seq[Max(s)])
      BY <1>1, <1>5
    <3> QED
      BY <1>3, <1>4, <3>1
  <2> QED
    BY <1>1, <1>3, <2>1, <2>2, FoldSteps
<1>7. \A i \in 1 .. n : f[i] = AddOutbound(f[i - 1], seq[i])
  BY <1>3, <1>6 DEF IsLoop
<1> QED
  BY <1>2, <1>6, <1>7 DEF IsLoop, AddOutboundFold

AddOutboundsFold(f, V, n, base, seq) ==
    /\ f \in [0 .. n -> V] /\ f[0] = base /\ f[n] = FoldLeft(AddOutbounds, base, seq)
    /\ \A i \in 1 .. n : f[i] = AddOutbounds(f[i - 1], seq[i])

LEMMA AddOutboundsFolds ==
    ASSUME NEW D, NEW V, NEW seq \in Seq(D), NEW n, n = Len(seq), NEW base \in V,
           \A v \in V, d \in D : AddOutbounds(v, d) \in V
    PROVE  \E f : AddOutboundsFold(f, V, n, base, seq)
<1> DEFINE step == [p \in (1 .. n) \X V |-> AddOutbounds(p[2], seq[p[1]])]
           it   == CHOOSE f : f = [s \in SUBSET DOMAIN seq |->
                      IF s = {} THEN base ELSE AddOutbounds(f[s \ {Max(s)}], seq[Max(s)])]
<1>1. n \in Nat /\ DOMAIN seq = 1 .. n /\ \A i \in 1 .. n : seq[i] \in D
  OBVIOUS
<1>2. FoldLeft(AddOutbounds, base, seq) = it[1 .. n]
  BY <1>1 DEF FoldLeft, MapThenFoldSet
<1>3. /\ step \in [(1 .. n) \X V -> V]
      /\ \A i \in 1 .. n, v \in V : step[<<i, v>>] = AddOutbounds(v, seq[i])
  BY <1>1
<1>4. \A s \in SUBSET (1 .. n) : s # {} => Max(s) \in 1 .. n
  BY <1>1, MaxIn
<1> HIDE DEF step
<1>5. it = [s \in SUBSET DOMAIN seq |->
              IF s = {} THEN base ELSE AddOutbounds(it[s \ {Max(s)}], seq[Max(s)])]
  <2>1. PICK f : f \in [SUBSET (1 .. n) -> V] /\ IsFold(f, n, base, step)
    BY <1>1, <1>3, FoldExists
  <2>2. f = [s \in SUBSET DOMAIN seq |->
               IF s = {} THEN base ELSE AddOutbounds(f[s \ {Max(s)}], seq[Max(s)])]
    BY <1>1, <1>3, <1>4, <2>1 DEF IsFold
  <2> QED
    BY <2>2
<1> HIDE DEF it
<1>6. PICK f : it[1 .. n] = f[n] /\ IsLoop(f, V, n, base, step)
  <2>1. it[{}] = base
    BY <1>5
  <2>2. \A s \in SUBSET (1 .. n) : s # {} /\ it[s \ {Max(s)}] \in V =>
           it[s] = step[<<Max(s), it[s \ {Max(s)}]>>]
    <3> TAKE s \in SUBSET (1 .. n)
    <3> HAVE s # {} /\ it[s \ {Max(s)}] \in V
    <3>1. it[s] = AddOutbounds(it[s \ {Max(s)}], seq[Max(s)])
      BY <1>1, <1>5
    <3> QED
      BY <1>3, <1>4, <3>1
  <2> QED
    BY <1>1, <1>3, <2>1, <2>2, FoldSteps
<1>7. \A i \in 1 .. n : f[i] = AddOutbounds(f[i - 1], seq[i])
  BY <1>3, <1>6 DEF IsLoop
<1> QED
  BY <1>2, <1>6, <1>7 DEF IsLoop, AddOutboundsFold

AddRuleFold(f, V, n, base, seq) ==
    /\ f \in [0 .. n -> V] /\ f[0] = base /\ f[n] = FoldLeft(AddRule, base, seq)
    /\ \A i \in 1 .. n : f[i] = AddRule(f[i - 1], seq[i])

LEMMA AddRuleFolds ==
    ASSUME NEW D, NEW V, NEW seq \in Seq(D), NEW n, n = Len(seq), NEW base \in V,
           \A v \in V, d \in D : AddRule(v, d) \in V
    PROVE  \E f : AddRuleFold(f, V, n, base, seq)
<1> DEFINE step == [p \in (1 .. n) \X V |-> AddRule(p[2], seq[p[1]])]
           it   == CHOOSE f : f = [s \in SUBSET DOMAIN seq |->
                      IF s = {} THEN base ELSE AddRule(f[s \ {Max(s)}], seq[Max(s)])]
<1>1. n \in Nat /\ DOMAIN seq = 1 .. n /\ \A i \in 1 .. n : seq[i] \in D
  OBVIOUS
<1>2. FoldLeft(AddRule, base, seq) = it[1 .. n]
  BY <1>1 DEF FoldLeft, MapThenFoldSet
<1>3. /\ step \in [(1 .. n) \X V -> V]
      /\ \A i \in 1 .. n, v \in V : step[<<i, v>>] = AddRule(v, seq[i])
  BY <1>1
<1>4. \A s \in SUBSET (1 .. n) : s # {} => Max(s) \in 1 .. n
  BY <1>1, MaxIn
<1> HIDE DEF step
<1>5. it = [s \in SUBSET DOMAIN seq |->
              IF s = {} THEN base ELSE AddRule(it[s \ {Max(s)}], seq[Max(s)])]
  <2>1. PICK f : f \in [SUBSET (1 .. n) -> V] /\ IsFold(f, n, base, step)
    BY <1>1, <1>3, FoldExists
  <2>2. f = [s \in SUBSET DOMAIN seq |->
               IF s = {} THEN base ELSE AddRule(f[s \ {Max(s)}], seq[Max(s)])]
    BY <1>1, <1>3, <1>4, <2>1 DEF IsFold
  <2> QED
    BY <2>2
<1> HIDE DEF it
<1>6. PICK f : it[1 .. n] = f[n] /\ IsLoop(f, V, n, base, step)
  <2>1. it[{}] = base
    BY <1>5
  <2>2. \A s \in SUBSET (1 .. n) : s # {} /\ it[s \ {Max(s)}] \in V =>
           it[s] = step[<<Max(s), it[s \ {Max(s)}]>>]
    <3> TAKE s \in SUBSET (1 .. n)
    <3> HAVE s # {} /\ it[s \ {Max(s)}] \in V
    <3>1. it[s] = AddRule(it[s \ {Max(s)}], seq[Max(s)])
      BY <1>1, <1>5
    <3> QED
      BY <1>3, <1>4, <3>1
  <2> QED
    BY <1>1, <1>3, <2>1, <2>2, FoldSteps
<1>7. \A i \in 1 .. n : f[i] = AddRule(f[i - 1], seq[i])
  BY <1>3, <1>6 DEF IsLoop
<1> QED
  BY <1>2, <1>6, <1>7 DEF IsLoop, AddRuleFold

AddRouteFold(f, V, n, base, seq) ==
    /\ f \in [0 .. n -> V] /\ f[0] = base /\ f[n] = FoldLeft(AddRoute, base, seq)
    /\ \A i \in 1 .. n : f[i] = AddRoute(f[i - 1], seq[i])

LEMMA AddRouteFolds ==
    ASSUME NEW D, NEW V, NEW seq \in Seq(D), NEW n, n = Len(seq), NEW base \in V,
           \A v \in V, d \in D : AddRoute(v, d) \in V
    PROVE  \E f : AddRouteFold(f, V, n, base, seq)
<1> DEFINE step == [p \in (1 .. n) \X V |-> AddRoute(p[2], seq[p[1]])]
           it   == CHOOSE f : f = [s \in SUBSET DOMAIN seq |->
                      IF s = {} THEN base ELSE AddRoute(f[s \ {Max(s)}], seq[Max(s)])]
<1>1. n \in Nat /\ DOMAIN seq = 1 .. n /\ \A i \in 1 .. n : seq[i] \in D
  OBVIOUS
<1>2. FoldLeft(AddRoute, base, seq) = it[1 .. n]
  BY <1>1 DEF FoldLeft, MapThenFoldSet
<1>3. /\ step \in [(1 .. n) \X V -> V]
      /\ \A i \in 1 .. n, v \in V : step[<<i, v>>] = AddRoute(v, seq[i])
  BY <1>1
<1>4. \A s \in SUBSET (1 .. n) : s # {} => Max(s) \in 1 .. n
  BY <1>1, MaxIn
<1> HIDE DEF step
<1>5. it = [s \in SUBSET DOMAIN seq |->
              IF s = {} THEN base ELSE AddRoute(it[s \ {Max(s)}], seq[Max(s)])]
  <2>1. PICK f : f \in [SUBSET (1 .. n) -> V] /\ IsFold(f, n, base, step)
    BY <1>1, <1>3, FoldExists
  <2>2. f = [s \in SUBSET DOMAIN seq |->
               IF s = {} THEN base ELSE AddRoute(f[s \ {Max(s)}], seq[Max(s)])]
    BY <1>1, <1>3, <1>4, <2>1 DEF IsFold
  <2> QED
    BY <2>2
<1> HIDE DEF it
<1>6. PICK f : it[1 .. n] = f[n] /\ IsLoop(f, V, n, base, step)
  <2>1. it[{}] = base
    BY <1>5
  <2>2. \A s \in SUBSET (1 .. n) : s # {} /\ it[s \ {Max(s)}] \in V =>
           it[s] = step[<<Max(s), it[s \ {Max(s)}]>>]
    <3> TAKE s \in SUBSET (1 .. n)
    <3> HAVE s # {} /\ it[s \ {Max(s)}] \in V
    <3>1. it[s] = AddRoute(it[s \ {Max(s)}], seq[Max(s)])
      BY <1>1, <1>5
    <3> QED
      BY <1>3, <1>4, <3>1
  <2> QED
    BY <1>1, <1>3, <2>1, <2>2, FoldSteps
<1>7. \A i \in 1 .. n : f[i] = AddRoute(f[i - 1], seq[i])
  BY <1>3, <1>6 DEF IsLoop
<1> QED
  BY <1>2, <1>6, <1>7 DEF IsLoop, AddRouteFold

AddNodeFold(f, V, n, base, seq) ==
    /\ f \in [0 .. n -> V] /\ f[0] = base /\ f[n] = FoldLeft(AddNode, base, seq)
    /\ \A i \in 1 .. n : f[i] = AddNode(f[i - 1], seq[i])

LEMMA AddNodeFolds ==
    ASSUME NEW D, NEW V, NEW seq \in Seq(D), NEW n, n = Len(seq), NEW base \in V,
           \A v \in V, d \in D : AddNode(v, d) \in V
    PROVE  \E f : AddNodeFold(f, V, n, base, seq)
<1> DEFINE step == [p \in (1 .. n) \X V |-> AddNode(p[2], seq[p[1]])]
           it   == CHOOSE f : f = [s \in SUBSET DOMAIN seq |->
                      IF s = {} THEN base ELSE AddNode(f[s \ {Max(s)}], seq[Max(s)])]
<1>1. n \in Nat /\ DOMAIN seq = 1 .. n /\ \A i \in 1 .. n : seq[i] \in D
  OBVIOUS
<1>2. FoldLeft(AddNode, base, seq) = it[1 .. n]
  BY <1>1 DEF FoldLeft, MapThenFoldSet
<1>3. /\ step \in [(1 .. n) \X V -> V]
      /\ \A i \in 1 .. n, v \in V : step[<<i, v>>] = AddNode(v, seq[i])
  BY <1>1
<1>4. \A s \in SUBSET (1 .. n) : s # {} => Max(s) \in 1 .. n
  BY <1>1, MaxIn
<1> HIDE DEF step
<1>5. it = [s \in SUBSET DOMAIN seq |->
              IF s = {} THEN base ELSE AddNode(it[s \ {Max(s)}], seq[Max(s)])]
  <2>1. PICK f : f \in [SUBSET (1 .. n) -> V] /\ IsFold(f, n, base, step)
    BY <1>1, <1>3, FoldExists
  <2>2. f = [s \in SUBSET DOMAIN seq |->
               IF s = {} THEN base ELSE AddNode(f[s \ {Max(s)}], seq[Max(s)])]
    BY <1>1, <1>3, <1>4, <2>1 DEF IsFold
  <2> QED
    BY <2>2
<1> HIDE DEF it
<1>6. PICK f : it[1 .. n] = f[n] /\ IsLoop(f, V, n, base, step)
  <2>1. it[{}] = base
    BY <1>5
  <2>2. \A s \in SUBSET (1 .. n) : s # {} /\ it[s \ {Max(s)}] \in V =>
           it[s] = step[<<Max(s), it[s \ {Max(s)}]>>]
    <3> TAKE s \in SUBSET (1 .. n)
    <3> HAVE s # {} /\ it[s \ {Max(s)}] \in V
    <3>1. it[s] = AddNode(it[s \ {Max(s)}], seq[Max(s)])
      BY <1>1, <1>5
    <3> QED
      BY <1>3, <1>4, <3>1
  <2> QED
    BY <1>1, <1>3, <2>1, <2>2, FoldSteps
<1>7. \A i \in 1 .. n : f[i] = AddNode(f[i - 1], seq[i])
  BY <1>3, <1>6 DEF IsLoop
<1> QED
  BY <1>2, <1>6, <1>7 DEF IsLoop, AddNodeFold

-----------------------------------------------------------------------------
(* Outbounds *)

\* Reads a list by its positions.
LEMMA ListOf ==
    ASSUME NEW s, IsList(s)
    PROVE  /\ s \in Seq(ToSet(s)) /\ Len(s) \in Nat /\ DOMAIN s = 1 .. Len(s)
           /\ \A x : x \in ToSet(s) <=> \E i \in 1 .. Len(s) : x = s[i]
BY DEF IsList, ToSet

\* What appending adds to the members of a list.
LEMMA Appended ==
    ASSUME NEW D, NEW s \in Seq(D), NEW x \in D
    PROVE  Append(s, x) \in Seq(D) /\ ToSet(Append(s, x)) = ToSet(s) \cup {x}
<1> DEFINE t == Append(s, x)
<1>1. t \in Seq(D) /\ Len(t) = Len(s) + 1 /\ t[Len(s) + 1] = x /\ \A i \in 1 .. Len(s) : t[i] = s[i]
  OBVIOUS
<1>2. DOMAIN t = 1 .. Len(s) + 1 /\ DOMAIN s = 1 .. Len(s) /\ Len(s) \in Nat
  BY <1>1
<1> HIDE DEF t
<1>3. \A y : y \in ToSet(t) <=> y \in ToSet(s) \cup {x}
  <2> TAKE y
  <2>1. y \in ToSet(t) => y \in ToSet(s) \cup {x}
    <3> SUFFICES ASSUME NEW i \in 1 .. Len(s) + 1, y = t[i] PROVE y \in ToSet(s) \cup {x}
      BY <1>2 DEF ToSet
    <3>1. CASE i = Len(s) + 1
      BY <1>1, <3>1
    <3>2. CASE i \in 1 .. Len(s)
      BY <1>1, <1>2, <3>2 DEF ToSet
    <3> QED
      BY <1>2, <3>1, <3>2
  <2>2. y \in ToSet(s) => y \in ToSet(t)
    <3> SUFFICES ASSUME NEW i \in 1 .. Len(s), y = s[i] PROVE y \in ToSet(t)
      BY <1>2 DEF ToSet
    <3>1. i \in 1 .. Len(s) + 1 /\ y = t[i]
      BY <1>1, <1>2
    <3> QED
      BY <1>2, <3>1 DEF ToSet
  <2>3. x \in ToSet(t)
    <3>1. Len(s) + 1 \in 1 .. Len(s) + 1
      BY <1>2
    <3> QED
      BY <1>1, <1>2, <3>1 DEF ToSet
  <2> QED
    BY <2>1, <2>2, <2>3
<1> QED
  BY <1>1, <1>3 DEF t

\* A tag that was seen stays taken.
LEMMA TakenStays ==
    ASSUME NEW s, NEW t, ToSet(s) \subseteq ToSet(t), NEW tag, Taken(s, tag)
    PROVE  Taken(t, tag)
BY DEF Taken

\* Each outbound has a tag of its own, upper and lower case alike.
Apart(s) ==
    /\ \A i \in DOMAIN s : LowerCase[s[i].tag] \notin Reserved
    /\ \A i, j \in DOMAIN s : LowerCase[s[i].tag] = LowerCase[s[j].tag] => i = j

\* An outbound is added, or an outbound with its tag was there.
LEMMA OutboundAdded ==
    ASSUME NEW D, NEW s \in Seq(D), NEW o \in D, NEW t, t = AddOutbound(s, o)
    PROVE  /\ t \in Seq(D) /\ Taken(t, o.tag)
           /\ ToSet(s) \subseteq ToSet(t) /\ ToSet(t) \subseteq ToSet(s) \cup {o}
           /\ Apart(s) => Apart(t)
<1>1. CASE Taken(s, o.tag)
  BY <1>1 DEF AddOutbound
<1>2. CASE ~Taken(s, o.tag)
  <2>1. t = Append(s, o)
    BY <1>2 DEF AddOutbound
  <2>2. t \in Seq(D) /\ ToSet(t) = ToSet(s) \cup {o}
    BY <2>1, Appended
  <2>3. Taken(t, o.tag)
    BY <2>2 DEF Taken
  <2>4. ASSUME Apart(s) PROVE Apart(t)
    <3> DEFINE n == Len(s)
    <3>1. /\ n \in Nat /\ DOMAIN s = 1 .. n /\ DOMAIN t = 1 .. n + 1
          /\ t[n + 1] = o /\ \A i \in 1 .. n : t[i] = s[i] /\ s[i] \in ToSet(s)
      BY <2>1 DEF ToSet
    <3>2. /\ LowerCase[o.tag] \notin Reserved
          /\ \A q \in ToSet(s) : LowerCase[q.tag] # LowerCase[o.tag]
      BY <1>2 DEF Taken
    <3> HIDE DEF n
    <3>3. \A i \in 1 .. n + 1 : i \in 1 .. n \/ i = n + 1
      BY <3>1
    <3>4. /\ \A i \in 1 .. n : LowerCase[t[i].tag] \notin Reserved
          /\ \A i \in 1 .. n : LowerCase[t[i].tag] # LowerCase[t[n + 1].tag]
          /\ \A i, j \in 1 .. n : LowerCase[t[i].tag] = LowerCase[t[j].tag] => i = j
      BY <2>4, <3>1, <3>2 DEF Apart
    <3> QED
      BY <3>1, <3>2, <3>3, <3>4 DEF Apart
  <2> QED
    BY <2>2, <2>3, <2>4
<1> QED
  BY <1>1, <1>2

\* The same for all outbounds of a node.
LEMMA OutboundsAdded ==
    ASSUME NEW D, NEW s \in Seq(D), NEW node, IsList(node.outbounds), ToSet(node.outbounds) \subseteq D,
           NEW t, t = AddOutbounds(s, node)
    PROVE  /\ t \in Seq(D) /\ ToSet(s) \subseteq ToSet(t)
           /\ ToSet(t) \subseteq ToSet(s) \cup ToSet(node.outbounds)
           /\ \A o \in ToSet(node.outbounds) : Taken(t, o.tag)
           /\ Apart(s) => Apart(t)
<1> DEFINE seq == node.outbounds
           n   == Len(seq)
<1>1. /\ n = Len(seq) /\ n \in Nat /\ seq \in Seq(ToSet(seq)) /\ seq \in Seq(D)
      /\ \A x : x \in ToSet(seq) <=> \E i \in 1 .. n : x = seq[i]
  <2>1. /\ seq \in Seq(ToSet(seq)) /\ Len(seq) \in Nat
        /\ \A x : x \in ToSet(seq) <=> \E i \in 1 .. Len(seq) : x = seq[i]
    BY ListOf
  <2>2. ToSet(seq) \subseteq D
    OBVIOUS
  <2> HIDE DEF seq
  <2>3. seq \in Seq(D)
    BY <2>1, <2>2
  <2> QED
    BY <2>1, <2>3
<1> HIDE DEF seq, n
<1>2. \A i \in 1 .. n : seq[i] \in ToSet(seq) /\ seq[i] \in D
  BY <1>1
<1>3. PICK f : AddOutboundFold(f, Seq(D), n, s, seq)
  <2>1. \A v \in Seq(D), d \in D : AddOutbound(v, d) \in Seq(D)
    BY OutboundAdded
  <2> QED
    BY <1>1, <2>1, AddOutboundFolds
<1> DEFINE S == {i \in 0 .. n : /\ ToSet(s) \subseteq ToSet(f[i])
                                /\ ToSet(f[i]) \subseteq ToSet(s) \cup ToSet(seq)
                                /\ \A j \in 1 .. i : Taken(f[i], seq[j].tag)
                                /\ Apart(s) => Apart(f[i])}
<1>4. 0 \in S
  BY <1>1, <1>3 DEF AddOutboundFold
<1>5. ASSUME NEW i \in 0 .. n - 1, i \in S PROVE i + 1 \in S
  <2>1. i \in 0 .. n /\ i + 1 \in 0 .. n /\ i + 1 \in 1 .. n /\ (i + 1) - 1 = i
    BY <1>1
  <2>2. /\ f[i] \in Seq(D) /\ f[i + 1] = AddOutbound(f[i], seq[i + 1])
        /\ seq[i + 1] \in D /\ seq[i + 1] \in ToSet(seq)
    BY <1>2, <1>3, <2>1 DEF AddOutboundFold
  <2>3. /\ Taken(f[i + 1], seq[i + 1].tag)
        /\ ToSet(f[i]) \subseteq ToSet(f[i + 1])
        /\ ToSet(f[i + 1]) \subseteq ToSet(f[i]) \cup {seq[i + 1]}
        /\ Apart(f[i]) => Apart(f[i + 1])
    BY <2>2, OutboundAdded
  <2>4. \A j \in 1 .. i + 1 : Taken(f[i + 1], seq[j].tag)
    <3> TAKE j \in 1 .. i + 1
    <3>1. CASE j = i + 1
      BY <2>3, <3>1
    <3>2. CASE j \in 1 .. i
      <4>1. Taken(f[i], seq[j].tag)
        BY <1>5, <3>2
      <4> QED
        BY <2>3, <4>1, TakenStays
    <3> QED
      BY <2>1, <3>1, <3>2
  <2> QED
    BY <1>5, <2>1, <2>2, <2>3, <2>4
<1> HIDE DEF S
<1>6. n \in S
  BY <1>1, <1>4, <1>5, Induction
<1>7. t = f[n] /\ f[n] \in Seq(D)
  <2>1. f[n] = FoldLeft(AddOutbound, s, seq) /\ f[n] \in Seq(D)
    BY <1>1, <1>3 DEF AddOutboundFold
  <2>2. t = FoldLeft(AddOutbound, s, seq)
    BY DEF AddOutbounds, seq
  <2> QED
    BY <2>1, <2>2
<1>8. \A o \in ToSet(seq) : Taken(t, o.tag)
  BY <1>1, <1>6, <1>7 DEF S
<1> QED
  BY <1>6, <1>7, <1>8 DEF S, seq

\* Whatever outbounds the nodes have: those merged are theirs and have tags of their
\* own, and each of theirs has its tag, or one that differs in case, among those merged
\* or reserved.
LEMMA OutboundsMerged ==
    ASSUME NEW nodes, IsList(nodes), \A node \in ToSet(nodes) : IsList(node.outbounds),
           NEW D, D = UNION {ToSet(node.outbounds) : node \in ToSet(nodes)}
    PROVE  /\ ToSet(MergedOutbounds(nodes)) \subseteq D
           /\ \A o \in D : Taken(MergedOutbounds(nodes), o.tag)
           /\ Apart(MergedOutbounds(nodes))
<1> DEFINE n == Len(nodes)
           N == ToSet(nodes)
<1>1. /\ n = Len(nodes) /\ n \in Nat /\ nodes \in Seq(N)
      /\ \A x : x \in N <=> \E i \in 1 .. n : x = nodes[i]
  BY ListOf
<1>2. \A node \in N : IsList(node.outbounds) /\ ToSet(node.outbounds) \subseteq D
  OBVIOUS
<1>3. \A o \in D : \E node \in N : o \in ToSet(node.outbounds)
  OBVIOUS
<1> HIDE DEF N, n
<1>4. PICK f : AddOutboundsFold(f, Seq(D), n, <<>>, nodes)
  <2>1. \A v \in Seq(D), d \in N : AddOutbounds(v, d) \in Seq(D)
    BY <1>2, OutboundsAdded
  <2>2. <<>> \in Seq(D)
    OBVIOUS
  <2> QED
    BY <1>1, <2>1, <2>2, AddOutboundsFolds
<1> DEFINE S == {i \in 0 .. n : /\ ToSet(f[i]) \subseteq D /\ Apart(f[i])
                                /\ \A j \in 1 .. i : \A o \in ToSet(nodes[j].outbounds) :
                                      Taken(f[i], o.tag)}
<1>5. 0 \in S
  <2>1. ToSet(f[0]) = {} /\ Apart(f[0])
    BY <1>4 DEF ToSet, Apart, AddOutboundsFold
  <2> QED
    BY <1>1, <2>1
<1>6. ASSUME NEW i \in 0 .. n - 1, i \in S PROVE i + 1 \in S
  <2>1. i \in 0 .. n /\ i + 1 \in 0 .. n /\ i + 1 \in 1 .. n /\ (i + 1) - 1 = i
    BY <1>1
  <2>2. f[i] \in Seq(D) /\ f[i + 1] = AddOutbounds(f[i], nodes[i + 1]) /\ nodes[i + 1] \in N
    BY <1>1, <1>4, <2>1 DEF AddOutboundsFold
  <2>3. IsList(nodes[i + 1].outbounds) /\ ToSet(nodes[i + 1].outbounds) \subseteq D
    BY <1>2, <2>2
  <2>4. /\ ToSet(f[i]) \subseteq ToSet(f[i + 1])
        /\ ToSet(f[i + 1]) \subseteq ToSet(f[i]) \cup ToSet(nodes[i + 1].outbounds)
        /\ \A o \in ToSet(nodes[i + 1].outbounds) : Taken(f[i + 1], o.tag)
        /\ Apart(f[i]) => Apart(f[i + 1])
    BY <2>2, <2>3, OutboundsAdded
  <2>5. \A j \in 1 .. i + 1 : \A o \in ToSet(nodes[j].outbounds) : Taken(f[i + 1], o.tag)
    <3> TAKE j \in 1 .. i + 1
    <3>1. CASE j = i + 1
      BY <2>4, <3>1
    <3>2. CASE j \in 1 .. i
      <4>1. \A o \in ToSet(nodes[j].outbounds) : Taken(f[i], o.tag)
        BY <1>6, <3>2
      <4> QED
        BY <2>4, <4>1, TakenStays
    <3> QED
      BY <2>1, <3>1, <3>2
  <2> QED
    BY <1>6, <2>1, <2>3, <2>4, <2>5
<1> HIDE DEF S
<1>7. n \in S
  <2>1. n \in Nat
    BY <1>1
  <2> QED
    BY <2>1, <1>5, <1>6, Induction
<1>8. MergedOutbounds(nodes) = f[n]
  BY <1>4 DEF MergedOutbounds, AddOutboundsFold
<1>9. ToSet(MergedOutbounds(nodes)) \subseteq D /\ Apart(MergedOutbounds(nodes))
  BY <1>7, <1>8 DEF S
<1>10. \A o \in D : Taken(MergedOutbounds(nodes), o.tag)
  <2> TAKE o \in D
  <2>1. PICK node \in N : o \in ToSet(node.outbounds)
    BY <1>3
  <2>2. PICK j \in 1 .. n : node = nodes[j]
    BY <1>1
  <2>3. Taken(f[n], o.tag)
    BY <1>7, <2>1, <2>2 DEF S
  <2> QED
    BY <1>8, <2>3
<1> QED
  BY <1>9, <1>10

-----------------------------------------------------------------------------
(* Rules and entries *)

Built(rule) == [outbound |-> OutboundOf(rule), entry |-> None]
Kept(entry) == [outbound |-> None, entry |-> entry]

\* What is merged, with sections in X and rules in R.
Merging(O, X, R) == [outbounds : {O}, dns : X, options : X, rules : Seq(R)]

RuleIn(m, rule, t) ==
    /\ t.dns = m.dns /\ t.options = m.options
    /\ ToSet(m.rules) \subseteq ToSet(t.rules)
    /\ \A x \in ToSet(t.rules) : x \in ToSet(m.rules) \/ (Live(rule) /\ x = Built(rule))
    /\ Live(rule) => Built(rule) \in ToSet(t.rules)

\* A rule leaves the sections and all rules there, and is there afterwards if it is live.
LEMMA RuleAdded ==
    ASSUME NEW O, NEW X, NEW R, NEW m \in Merging(O, X, R), NEW rule, Built(rule) \in R
    PROVE  AddRule(m, rule) \in Merging(O, X, R) /\ RuleIn(m, rule, AddRule(m, rule))
<1> DEFINE t == AddRule(m, rule)
<1>1. CASE ~Live(rule)
  BY <1>1 DEF AddRule, RuleIn
<1>2. CASE Live(rule)
  <2>1. t = [m EXCEPT !.rules = Append(m.rules, Built(rule))]
    BY <1>2 DEF AddRule, Built
  <2>2. m.rules \in Seq(R)
    BY DEF Merging
  <2>3. /\ Append(m.rules, Built(rule)) \in Seq(R)
        /\ ToSet(Append(m.rules, Built(rule))) = ToSet(m.rules) \cup {Built(rule)}
    BY <2>2, Appended
  <2>4. t.rules = Append(m.rules, Built(rule)) /\ t.dns = m.dns /\ t.options = m.options
    BY <2>1 DEF Merging
  <2>5. t \in Merging(O, X, R)
    BY <2>1, <2>3 DEF Merging
  <2> HIDE DEF t
  <2>6. RuleIn(m, rule, t)
    BY <1>2, <2>3, <2>4 DEF RuleIn
  <2> QED
    BY <2>5, <2>6 DEF t
<1> QED
  BY <1>1, <1>2

RouteIn(m, e, t) ==
    /\ ToSet(m.rules) \subseteq ToSet(t.rules)
    /\ ToSet(t.rules) \subseteq ToSet(m.rules) \cup {Kept(e)}
    /\ (e.dns = None \/ e.options = None) /\ (e.dns # None => m.dns = None)
          /\ (e.options # None => m.options = None) =>
          /\ t.dns = IF e.dns # None THEN e.dns ELSE m.dns
          /\ t.options = IF e.options # None THEN e.options ELSE m.options
          /\ e.dns # None \/ e.options # None => t.rules = m.rules

\* An entry leaves all rules there; it becomes the section it carries if there was none.
LEMMA RouteAdded ==
    ASSUME NEW O, NEW X, NEW R, NEW m \in Merging(O, X, R),
           NEW e, e.dns \in X, e.options \in X, Kept(e) \in R
    PROVE  AddRoute(m, e) \in Merging(O, X, R) /\ RouteIn(m, e, AddRoute(m, e))
<1> DEFINE t == AddRoute(m, e)
<1>1. CASE e.dns # None /\ m.dns = None
  <2>1. t = [m EXCEPT !.dns = e.dns]
    BY <1>1 DEF AddRoute
  <2>2. t \in Merging(O, X, R) /\ t.dns = e.dns /\ t.options = m.options /\ t.rules = m.rules
    BY <2>1 DEF Merging
  <2> HIDE DEF t
  <2>3. RouteIn(m, e, t)
    BY <1>1, <2>2 DEF RouteIn
  <2> QED
    BY <2>2, <2>3 DEF t
<1>2. CASE ~(e.dns # None /\ m.dns = None) /\ e.options # None /\ m.options = None
  <2>1. t = [m EXCEPT !.options = e.options]
    BY <1>2 DEF AddRoute
  <2>2. t \in Merging(O, X, R) /\ t.dns = m.dns /\ t.options = e.options /\ t.rules = m.rules
    BY <2>1 DEF Merging
  <2> HIDE DEF t
  <2>3. RouteIn(m, e, t)
    BY <1>2, <2>2 DEF RouteIn
  <2> QED
    BY <2>2, <2>3 DEF t
<1>3. CASE ~(e.dns # None /\ m.dns = None) /\ ~(e.options # None /\ m.options = None)
  <2>1. t = [m EXCEPT !.rules = Append(m.rules, Kept(e))]
    BY <1>3 DEF AddRoute, Kept
  <2>2. m.rules \in Seq(R)
    BY DEF Merging
  <2>3. /\ Append(m.rules, Kept(e)) \in Seq(R)
        /\ ToSet(Append(m.rules, Kept(e))) = ToSet(m.rules) \cup {Kept(e)}
    BY <2>2, Appended
  <2>4. t.rules = Append(m.rules, Kept(e)) /\ t.dns = m.dns /\ t.options = m.options
    BY <2>1 DEF Merging
  <2>5. t \in Merging(O, X, R)
    BY <2>1, <2>3 DEF Merging
  <2> HIDE DEF t
  <2>6. RouteIn(m, e, t)
    BY <1>3, <2>3, <2>4 DEF RouteIn
  <2> QED
    BY <2>5, <2>6 DEF t
<1> QED
  BY <1>1, <1>2, <1>3

IsBuilt(x, node) == \E rule \in ToSet(node.rules) : Live(rule) /\ x = Built(rule)

\* The same for all rules of a node.
LEMMA RulesAdded ==
    ASSUME NEW O, NEW X, NEW R, NEW m \in Merging(O, X, R), NEW node,
           IsList(node.rules), \A rule \in ToSet(node.rules) : Built(rule) \in R,
           NEW t, t = AddRules(m, node)
    PROVE  /\ t \in Merging(O, X, R) /\ t.dns = m.dns /\ t.options = m.options
           /\ ToSet(m.rules) \subseteq ToSet(t.rules)
           /\ \A x \in ToSet(t.rules) : x \in ToSet(m.rules) \/ IsBuilt(x, node)
           /\ \A rule \in ToSet(node.rules) : Live(rule) => Built(rule) \in ToSet(t.rules)
<1> DEFINE seq == node.rules
           n   == Len(seq)
<1>1. /\ n = Len(seq) /\ n \in Nat /\ seq \in Seq(ToSet(seq))
      /\ \A x : x \in ToSet(seq) <=> \E i \in 1 .. n : x = seq[i]
  BY ListOf
<1>2. \A rule \in ToSet(seq) : Built(rule) \in R
  OBVIOUS
<1>3. t = FoldLeft(AddRule, m, seq)
  BY DEF AddRules
<1> HIDE DEF seq, n
<1>4. PICK f : AddRuleFold(f, Merging(O, X, R), n, m, seq)
  <2>1. \A v \in Merging(O, X, R), d \in ToSet(seq) : AddRule(v, d) \in Merging(O, X, R)
    BY <1>2, RuleAdded
  <2> QED
    BY <1>1, <2>1, AddRuleFolds
<1> DEFINE S == {i \in 0 .. n : /\ f[i].dns = m.dns /\ f[i].options = m.options
                                /\ ToSet(m.rules) \subseteq ToSet(f[i].rules)
                                /\ \A x \in ToSet(f[i].rules) :
                                      x \in ToSet(m.rules) \/ IsBuilt(x, node)
                                /\ \A j \in 1 .. i :
                                      Live(seq[j]) => Built(seq[j]) \in ToSet(f[i].rules)}
<1>5. 0 \in S
  <2>1. f[0] = m
    BY <1>4 DEF AddRuleFold
  <2> QED
    BY <1>1, <2>1
<1>6. ASSUME NEW i \in 0 .. n - 1, i \in S PROVE i + 1 \in S
  <2> DEFINE rule == seq[i + 1]
             v    == f[i]
             w    == f[i + 1]
  <2>1. i \in 0 .. n /\ i + 1 \in 0 .. n /\ i + 1 \in 1 .. n /\ (i + 1) - 1 = i
    BY <1>1
  <2>2. v \in Merging(O, X, R) /\ w = AddRule(v, rule) /\ Built(rule) \in R
    BY <1>1, <1>2, <1>4, <2>1 DEF AddRuleFold
  <2>3. /\ w.dns = v.dns /\ w.options = v.options
        /\ ToSet(v.rules) \subseteq ToSet(w.rules)
        /\ \A x \in ToSet(w.rules) : x \in ToSet(v.rules) \/ (Live(rule) /\ x = Built(rule))
        /\ Live(rule) => Built(rule) \in ToSet(w.rules)
    <3>1. RuleIn(v, rule, w)
      BY <2>2, RuleAdded
    <3> QED
      BY <3>1 DEF RuleIn
  <2>4. \A x \in ToSet(w.rules) : x \in ToSet(v.rules) \/ IsBuilt(x, node)
    <3>1. rule \in ToSet(node.rules)
      BY <1>1, <2>1 DEF seq
    <3> QED
      BY <2>3, <3>1 DEF IsBuilt
  <2>5. \A j \in 1 .. i + 1 : Live(seq[j]) => Built(seq[j]) \in ToSet(f[i + 1].rules)
    <3> TAKE j \in 1 .. i + 1
    <3>1. CASE j = i + 1
      BY <2>3, <3>1
    <3>2. CASE j \in 1 .. i
      BY <1>6, <2>3, <3>2
    <3> QED
      BY <2>1, <3>1, <3>2
  <2> QED
    BY <1>6, <2>1, <2>3, <2>4, <2>5
<1> HIDE DEF S
<1>7. n \in S
  <2>1. n \in Nat
    BY <1>1
  <2> QED
    BY <2>1, <1>5, <1>6, Induction
<1>8. t = f[n] /\ t \in Merging(O, X, R)
  <2>1. f[n] = FoldLeft(AddRule, m, seq) /\ f[n] \in Merging(O, X, R)
    BY <1>1, <1>4 DEF AddRuleFold
  <2> QED
    BY <1>3, <2>1
<1>9. \A rule \in ToSet(seq) : Live(rule) => Built(rule) \in ToSet(t.rules)
  BY <1>1, <1>7, <1>8 DEF S
<1> QED
  BY <1>7, <1>8, <1>9 DEF S, seq

\* The entries of a node, of which one at most carries each kind of section that was
\* not there before.
OneEach(m, node) ==
    /\ \A k, l \in DOMAIN node.routes :
          /\ node.routes[k].dns # None /\ node.routes[l].dns # None => k = l
          /\ node.routes[k].options # None /\ node.routes[l].options # None => k = l
    /\ \A k \in DOMAIN node.routes :
          /\ node.routes[k].dns = None \/ node.routes[k].options = None
          /\ node.routes[k].dns # None => m.dns = None
          /\ node.routes[k].options # None => m.options = None

\* Then the section of the entry, if there is one, and no such entry as a rule.
Sections(m, node, t) ==
    /\ \A e \in ToSet(node.routes) : e.dns # None => t.dns = e.dns
    /\ (\A e \in ToSet(node.routes) : e.dns = None) => t.dns = m.dns
    /\ \A e \in ToSet(node.routes) : e.options # None => t.options = e.options
    /\ (\A e \in ToSet(node.routes) : e.options = None) => t.options = m.options

NoSections(x) == x.entry.dns = None /\ x.entry.options = None

\* What all entries of a node add.
RoutesIn(m, node, t) ==
    /\ ToSet(m.rules) \subseteq ToSet(t.rules)
    /\ \A x \in ToSet(t.rules) : x \in ToSet(m.rules) \/ x.entry \in ToSet(node.routes)
    /\ OneEach(m, node) =>
          /\ Sections(m, node, t)
          /\ \A x \in ToSet(t.rules) : x \in ToSet(m.rules) \/ NoSections(x)

\* The same for all entries of a node.
LEMMA RoutesAdded ==
    ASSUME NEW O, NEW X, NEW R, NEW m \in Merging(O, X, R), NEW node,
           IsList(node.routes),
           \A e \in ToSet(node.routes) : e.dns \in X /\ e.options \in X /\ Kept(e) \in R,
           NEW t, t = AddRoutes(m, node)
    PROVE  t \in Merging(O, X, R) /\ RoutesIn(m, node, t)
<1> DEFINE seq == node.routes
           n   == Len(seq)
           V   == Merging(O, X, R)
<1>1. /\ n = Len(seq) /\ n \in Nat /\ seq \in Seq(ToSet(seq))
      /\ \A x : x \in ToSet(seq) <=> \E i \in 1 .. n : x = seq[i]
  BY ListOf
<1>2. \A e \in ToSet(seq) : e.dns \in X /\ e.options \in X /\ Kept(e) \in R
  OBVIOUS
<1>3. t = FoldLeft(AddRoute, m, seq)
  BY DEF AddRoutes
<1> HIDE DEF seq, n
<1>4. PICK f : AddRouteFold(f, V, n, m, seq)
  <2>1. \A v \in V, d \in ToSet(seq) : AddRoute(v, d) \in V
    BY <1>2, RouteAdded
  <2> HIDE DEF V
  <2>2. m \in V
    BY DEF V
  <2> QED
    BY <1>1, <2>1, <2>2, AddRouteFolds
<1> DEFINE Sect(i) ==
             /\ \A j \in 1 .. i : seq[j].dns # None => f[i].dns = seq[j].dns
             /\ (\A j \in 1 .. i : seq[j].dns = None) => f[i].dns = m.dns
             /\ \A j \in 1 .. i : seq[j].options # None => f[i].options = seq[j].options
             /\ (\A j \in 1 .. i : seq[j].options = None) => f[i].options = m.options
             /\ \A x \in ToSet(f[i].rules) : x \in ToSet(m.rules) \/ NoSections(x)
           S == {i \in 0 .. n : /\ ToSet(m.rules) \subseteq ToSet(f[i].rules)
                                /\ \A x \in ToSet(f[i].rules) :
                                      x \in ToSet(m.rules) \/ x.entry \in ToSet(seq)
                                /\ OneEach(m, node) => Sect(i)}
<1>5. 0 \in S
  <2>1. f[0] = m
    BY <1>4 DEF AddRouteFold
  <2>2. \A j \in 1 .. 0 : FALSE
    OBVIOUS
  <2>3. \A x \in ToSet(f[0].rules) : x \in ToSet(m.rules)
    BY <2>1
  <2>4. f[0].dns = m.dns /\ f[0].options = m.options
    BY <2>1
  <2>5. Sect(0)
    <3>1. /\ \A j \in 1 .. 0 : seq[j].dns # None => f[0].dns = seq[j].dns
          /\ \A j \in 1 .. 0 : seq[j].options # None => f[0].options = seq[j].options
      BY <2>2
    <3> QED
      BY <2>3, <2>4, <3>1
  <2> HIDE DEF Sect
  <2> QED
    BY <1>1, <2>1, <2>5
<1>6. ASSUME NEW i \in 0 .. n - 1, i \in S PROVE i + 1 \in S
  <2> DEFINE e == seq[i + 1]
  <2>1. i \in 0 .. n /\ i + 1 \in 0 .. n /\ i + 1 \in 1 .. n /\ (i + 1) - 1 = i
    BY <1>1
  <2>2. /\ f[i] \in V /\ f[i + 1] = AddRoute(f[i], e)
        /\ e.dns \in X /\ e.options \in X /\ Kept(e) \in R
    BY <1>1, <1>2, <1>4, <2>1 DEF AddRouteFold
  <2>3. /\ ToSet(f[i].rules) \subseteq ToSet(f[i + 1].rules)
        /\ ToSet(f[i + 1].rules) \subseteq ToSet(f[i].rules) \cup {Kept(e)}
        /\ (e.dns = None \/ e.options = None) /\ (e.dns # None => f[i].dns = None)
              /\ (e.options # None => f[i].options = None) =>
                 /\ f[i + 1].dns = IF e.dns # None THEN e.dns ELSE f[i].dns
                 /\ f[i + 1].options = IF e.options # None THEN e.options ELSE f[i].options
                 /\ e.dns # None \/ e.options # None => f[i + 1].rules = f[i].rules
    <3> DEFINE v == f[i]
               w == f[i + 1]
    <3>1. v \in V /\ w = AddRoute(v, e) /\ e.dns \in X /\ e.options \in X /\ Kept(e) \in R
      BY <2>2
    <3> HIDE DEF e, v, w
    <3>2. RouteIn(v, e, w)
      BY <3>1, RouteAdded
    <3> QED
      BY <3>2 DEF v, w, RouteIn
  <2>4. ASSUME OneEach(m, node) PROVE Sect(i + 1)
    <3>1. Sect(i)
      BY <1>6, <2>4
    <3>2. /\ \A k, l \in 1 .. n : seq[k].dns # None /\ seq[l].dns # None => k = l
          /\ \A k, l \in 1 .. n : seq[k].options # None /\ seq[l].options # None => k = l
          /\ \A k \in 1 .. n : /\ seq[k].dns = None \/ seq[k].options = None
                               /\ seq[k].dns # None => m.dns = None
                               /\ seq[k].options # None => m.options = None
      <4>1. DOMAIN seq = 1 .. n
        BY <1>1
      <4> QED
        BY <2>4, <4>1 DEF OneEach, seq
    <3>3. ASSUME NEW j \in 1 .. i
          PROVE  /\ e.dns # None => seq[j].dns = None
                 /\ e.options # None => seq[j].options = None
      <4>1. j \in 1 .. n /\ j # i + 1
        BY <1>1, <2>1
      <4>2. e.dns # None => seq[j].dns = None
        BY <2>1, <3>2, <4>1
      <4>3. e.options # None => seq[j].options = None
        BY <2>1, <3>2, <4>1
      <4> QED
        BY <4>2, <4>3
    <3>4. e.dns # None => f[i].dns = None
      <4>1. e.dns # None => m.dns = None
        BY <2>1, <3>2
      <4> QED
        BY <3>1, <3>3, <4>1
    <3>5. e.options # None => f[i].options = None
      <4>1. e.options # None => m.options = None
        BY <2>1, <3>2
      <4> QED
        BY <3>1, <3>3, <4>1
    <3>6. e.dns = None \/ e.options = None
      BY <2>1, <3>2
    <3>7. /\ f[i + 1].dns = IF e.dns # None THEN e.dns ELSE f[i].dns
          /\ f[i + 1].options = IF e.options # None THEN e.options ELSE f[i].options
          /\ e.dns # None \/ e.options # None => f[i + 1].rules = f[i].rules
      BY <2>3, <3>4, <3>5, <3>6
    <3>8. \A j \in 1 .. i + 1 : j \in 1 .. i \/ j = i + 1
      BY <2>1
    <3>9. \A j \in 1 .. i + 1 : seq[j].dns # None => f[i + 1].dns = seq[j].dns
      BY <3>1, <3>3, <3>7, <3>8
    <3>10. (\A j \in 1 .. i + 1 : seq[j].dns = None) => f[i + 1].dns = m.dns
      <4>1. \A j \in 1 .. i : j \in 1 .. i + 1
        BY <2>1
      <4>2. i + 1 \in 1 .. i + 1
        BY <2>1
      <4> QED
        BY <3>1, <3>7, <4>1, <4>2
    <3>11. \A j \in 1 .. i + 1 : seq[j].options # None => f[i + 1].options = seq[j].options
      BY <3>1, <3>3, <3>7, <3>8
    <3>12. (\A j \in 1 .. i + 1 : seq[j].options = None) => f[i + 1].options = m.options
      <4>1. \A j \in 1 .. i : j \in 1 .. i + 1
        BY <2>1
      <4>2. i + 1 \in 1 .. i + 1
        BY <2>1
      <4> QED
        BY <3>1, <3>7, <4>1, <4>2
    <3>13. \A x \in ToSet(f[i + 1].rules) : x \in ToSet(m.rules) \/ NoSections(x)
      <4>1. CASE e.dns # None \/ e.options # None
        BY <3>1, <3>7, <4>1
      <4>2. CASE e.dns = None /\ e.options = None
        <5>1. NoSections(Kept(e))
          BY <4>2 DEF Kept, NoSections
        <5> QED
          BY <2>3, <3>1, <4>2, <5>1
      <4> QED
        BY <4>1, <4>2
    <3> QED
      BY <3>9, <3>10, <3>11, <3>12, <3>13
  <2>5. e \in ToSet(seq) /\ Kept(e).entry = e
    BY <1>1, <2>1 DEF Kept
  <2> HIDE DEF Sect, e
  <2>6. \A x \in ToSet(f[i + 1].rules) : x \in ToSet(m.rules) \/ x.entry \in ToSet(seq)
    BY <1>6, <2>3, <2>5
  <2> QED
    BY <1>6, <2>1, <2>3, <2>4, <2>6
<1> HIDE DEF S
<1>7. n \in S
  <2>1. n \in Nat
    BY <1>1
  <2> QED
    BY <2>1, <1>5, <1>6, Induction
<1>8. t = f[n] /\ t \in V
  <2>1. f[n] = FoldLeft(AddRoute, m, seq) /\ f[n] \in V
    BY <1>1, <1>4 DEF AddRouteFold
  <2> QED
    BY <1>3, <2>1
<1>9. /\ ToSet(m.rules) \subseteq ToSet(t.rules)
      /\ \A x \in ToSet(t.rules) : x \in ToSet(m.rules) \/ x.entry \in ToSet(seq)
  BY <1>7, <1>8 DEF S
<1>10. ASSUME OneEach(m, node)
       PROVE  /\ Sections(m, node, t)
              /\ \A x \in ToSet(t.rules) : x \in ToSet(m.rules) \/ NoSections(x)
  <2>1. Sect(n)
    <3> HIDE DEF Sect
    <3> QED
      BY <1>7, <1>10 DEF S
  <2>2. /\ \A e \in ToSet(seq) : e.dns # None => t.dns = e.dns
        /\ (\A e \in ToSet(seq) : e.dns = None) => t.dns = m.dns
        /\ \A e \in ToSet(seq) : e.options # None => t.options = e.options
        /\ (\A e \in ToSet(seq) : e.options = None) => t.options = m.options
    BY <1>1, <1>8, <2>1
  <2>3. Sections(m, node, t)
    BY <2>2 DEF Sections, seq
  <2> QED
    BY <1>8, <2>1, <2>3
<1> QED
  BY <1>8, <1>9, <1>10 DEF RoutesIn, seq

-----------------------------------------------------------------------------
(* Nodes *)

\* A node's part of the merge.
NodeIn(m, node, t) ==
    /\ ToSet(m.rules) \subseteq ToSet(t.rules)
    /\ \A rule \in ToSet(node.rules) : Live(rule) => Built(rule) \in ToSet(t.rules)
    /\ \A x \in ToSet(t.rules) :
          x \in ToSet(m.rules) \/ IsBuilt(x, node) \/ x.entry \in ToSet(node.routes)
    /\ OneEach(m, node) =>
          /\ Sections(m, node, t)
          /\ \A x \in ToSet(t.rules) : x \in ToSet(m.rules) \/ x.entry = None \/ NoSections(x)

\* A node's rules and entries together.
LEMMA NodeAdded ==
    ASSUME NEW O, NEW X, NEW R, NEW m \in Merging(O, X, R), NEW node,
           IsList(node.rules), \A rule \in ToSet(node.rules) : Built(rule) \in R,
           IsList(node.routes),
           \A e \in ToSet(node.routes) : e.dns \in X /\ e.options \in X /\ Kept(e) \in R
    PROVE  AddNode(m, node) \in Merging(O, X, R) /\ NodeIn(m, node, AddNode(m, node))
<1> DEFINE r == AddRules(m, node)
           t == AddRoutes(r, node)
<1>1. /\ r \in Merging(O, X, R) /\ r.dns = m.dns /\ r.options = m.options
      /\ ToSet(m.rules) \subseteq ToSet(r.rules)
      /\ \A x \in ToSet(r.rules) : x \in ToSet(m.rules) \/ IsBuilt(x, node)
      /\ \A rule \in ToSet(node.rules) : Live(rule) => Built(rule) \in ToSet(r.rules)
  <2> HIDE DEF r
  <2>1. r = AddRules(m, node)
    BY DEF r
  <2> QED
    BY <2>1, RulesAdded
<1> HIDE DEF r
<1>2. t \in Merging(O, X, R) /\ RoutesIn(r, node, t)
  <2> HIDE DEF t
  <2>1. t = AddRoutes(r, node)
    BY DEF t
  <2>2. r \in Merging(O, X, R) /\ IsList(node.routes)
    BY <1>1
  <2>3. \A e \in ToSet(node.routes) : e.dns \in X /\ e.options \in X /\ Kept(e) \in R
    OBVIOUS
  <2> QED
    BY ONLY <2>1, <2>2, <2>3, RoutesAdded
<1> HIDE DEF t
<1>3. OneEach(r, node) <=> OneEach(m, node)
  BY <1>1 DEF OneEach
<1>4. Sections(r, node, t) => Sections(m, node, t)
  BY <1>1 DEF Sections
<1>5. \A x : IsBuilt(x, node) => x.entry = None
  BY DEF IsBuilt, Built
<1>6. NodeIn(m, node, t)
  BY <1>1, <1>2, <1>3, <1>4, <1>5 DEF NodeIn, RoutesIn
<1>7. AddNode(m, node) = t
  BY DEF AddNode, r, t
<1> QED
  BY <1>2, <1>6, <1>7

\* The only section there is, is the first one.
LEMMA FirstSectionOf ==
    ASSUME NEW Z, NEW s \in Seq(Z)
    PROVE  /\ (\A n \in DOMAIN s : s[n] = None) => FirstSection(s) = None
           /\ \A n \in DOMAIN s :
                 s[n] # None /\ (\A k \in DOMAIN s : s[k] # None => k = n) => FirstSection(s) = s[n]
<1> DEFINE I == {i \in 1 .. Len(s) : s[i] # None}
           at == IF I # {} THEN Min(I) ELSE 0
<1>1. FirstSection(s) = IF at = 0 THEN None ELSE s[at]
  BY DEF FirstSection, SelectInSeq
<1>2. DOMAIN s = 1 .. Len(s) /\ Len(s) \in Nat
  OBVIOUS
<1>3. ASSUME \A n \in DOMAIN s : s[n] = None PROVE FirstSection(s) = None
  BY <1>1, <1>2, <1>3
<1>4. ASSUME NEW n \in DOMAIN s, s[n] # None, \A k \in DOMAIN s : s[k] # None => k = n
      PROVE  FirstSection(s) = s[n]
  <2>1. I = {n}
    BY <1>2, <1>4
  <2>2. n \in Nat /\ n # 0
    BY <1>2
  <2>3. Min({n}) = n
    BY <2>2 DEF Min
  <2> QED
    BY <1>1, <2>1, <2>2, <2>3
<1> QED
  BY <1>3, <1>4

\* The merge, node by node.
IsMerge(f, nodes) ==
    /\ f[0].dns = FirstSection([n \in DOMAIN nodes |-> nodes[n].dns])
    /\ f[0].options = FirstSection([n \in DOMAIN nodes |-> nodes[n].options])
    /\ f[0].rules = <<>> /\ f[Len(nodes)] = Merged(nodes)
    /\ \A i \in 1 .. Len(nodes) : NodeIn(f[i - 1], nodes[i], f[i])

\* The merge goes from node to node, and leaves the outbounds as they were merged.
LEMMA NodesMerged ==
    ASSUME NEW nodes, IsList(nodes), \A node \in ToSet(nodes) : IsRecord(node)
    PROVE  (\E f : IsMerge(f, nodes)) /\ Merged(nodes).outbounds = MergedOutbounds(nodes)
<1> DEFINE n == Len(nodes)
           N == ToSet(nodes)
           dns0 == FirstSection([k \in DOMAIN nodes |-> nodes[k].dns])
           options0 == FirstSection([k \in DOMAIN nodes |-> nodes[k].options])
           entries == UNION {ToSet(node.routes) : node \in N}
           rules == UNION {ToSet(node.rules) : node \in N}
           O == MergedOutbounds(nodes)
           X == {dns0, options0} \cup {e.dns : e \in entries} \cup {e.options : e \in entries}
           R == {Built(rule) : rule \in rules} \cup {Kept(e) : e \in entries}
           V == Merging(O, X, R)
           base == [outbounds |-> O, dns |-> dns0, options |-> options0, rules |-> <<>>]
<1>1. n = Len(nodes) /\ n \in Nat /\ nodes \in Seq(N) /\ \A i \in 1 .. n : nodes[i] \in N
  BY ListOf
<1>2. \A node \in N : /\ IsList(node.rules) /\ IsList(node.routes)
                      /\ \A rule \in ToSet(node.rules) : rule \in rules
                      /\ \A e \in ToSet(node.routes) : e \in entries
  BY DEF IsRecord
<1>3. /\ \A rule \in rules : Built(rule) \in R
      /\ \A e \in entries : e.dns \in X /\ e.options \in X /\ Kept(e) \in R
      /\ dns0 \in X /\ options0 \in X
  OBVIOUS
<1>4. Merged(nodes) = FoldLeft(AddNode, base, nodes)
  BY DEF Merged
<1>5. base.dns = dns0 /\ base.options = options0 /\ base.rules = <<>>
  OBVIOUS
<1> HIDE DEF n, N, entries, rules, X, R, dns0, options0
<1>6. base \in V
  <2>1. <<>> \in Seq(R)
    OBVIOUS
  <2> QED
    BY <1>3, <2>1 DEF Merging
<1> HIDE DEF base, O
<1>7. \A v \in V, d \in N : AddNode(v, d) \in V /\ NodeIn(v, d, AddNode(v, d))
  BY <1>2, <1>3, NodeAdded
<1> HIDE DEF V
<1>8. PICK f : AddNodeFold(f, V, n, base, nodes)
  BY <1>1, <1>6, <1>7, AddNodeFolds
<1>9. \A i \in 1 .. n : f[i - 1] \in V /\ f[i] = AddNode(f[i - 1], nodes[i])
  <2>1. \A i \in 1 .. n : i - 1 \in 0 .. n
    BY <1>1
  <2> QED
    BY <1>8, <2>1 DEF AddNodeFold
<1>10. \A i \in 1 .. n : NodeIn(f[i - 1], nodes[i], f[i])
  BY <1>1, <1>7, <1>9
<1>11. f[0] = base /\ f[n] = Merged(nodes) /\ f[n] \in V
  <2>1. f[0] = base /\ f[n] \in V /\ f[n] = FoldLeft(AddNode, base, nodes)
    BY <1>1, <1>8 DEF AddNodeFold
  <2> QED
    BY <1>4, <2>1
<1>12. IsMerge(f, nodes)
  BY <1>1, <1>5, <1>10, <1>11 DEF IsMerge, dns0, options0
<1>13. Merged(nodes).outbounds = O
  BY <1>11 DEF V, Merging
<1> QED
  BY <1>12, <1>13 DEF O

\* Every rule of a node that is live is among those merged, and besides them there are
\* entries only.
LEMMA RulesMerged ==
    ASSUME NEW nodes, IsList(nodes), \A node \in ToSet(nodes) : IsRecord(node)
    PROVE  /\ \A node \in ToSet(nodes) : \A rule \in ToSet(node.rules) :
                 Live(rule) => Built(rule) \in ToSet(Merged(nodes).rules)
           /\ \A x \in ToSet(Merged(nodes).rules) : \E node \in ToSet(nodes) :
                 IsBuilt(x, node) \/ x.entry \in ToSet(node.routes)
<1> DEFINE n == Len(nodes)
<1>1. n = Len(nodes) /\ n \in Nat /\ \A x : x \in ToSet(nodes) <=> \E i \in 1 .. n : x = nodes[i]
  BY ListOf
<1>2. PICK f : IsMerge(f, nodes)
  BY NodesMerged
<1>3. f[n] = Merged(nodes) /\ \A i \in 1 .. n : NodeIn(f[i - 1], nodes[i], f[i])
  BY <1>2 DEF IsMerge
<1> HIDE DEF n
<1> DEFINE From(x, node) == IsBuilt(x, node) \/ x.entry \in ToSet(node.routes)
           S == {i \in 0 .. n : /\ \A j \in 1 .. i : \A rule \in ToSet(nodes[j].rules) :
                                      Live(rule) => Built(rule) \in ToSet(f[i].rules)
                                /\ \A x \in ToSet(f[i].rules) :
                                      \E j \in 1 .. n : From(x, nodes[j])}
<1>4. 0 \in S
  <2>1. ToSet(f[0].rules) = {}
    BY <1>2 DEF IsMerge, ToSet
  <2> QED
    BY <1>1, <2>1
<1>5. ASSUME NEW i \in 0 .. n - 1, i \in S PROVE i + 1 \in S
  <2>1. i + 1 \in 0 .. n /\ i + 1 \in 1 .. n /\ (i + 1) - 1 = i
    BY <1>1
  <2>2. NodeIn(f[i], nodes[i + 1], f[i + 1])
    BY <1>3, <2>1
  <2>3. /\ ToSet(f[i].rules) \subseteq ToSet(f[i + 1].rules)
        /\ \A rule \in ToSet(nodes[i + 1].rules) : Live(rule) => Built(rule) \in ToSet(f[i + 1].rules)
        /\ \A x \in ToSet(f[i + 1].rules) : x \in ToSet(f[i].rules) \/ From(x, nodes[i + 1])
    BY <2>2 DEF NodeIn
  <2> HIDE DEF From
  <2>4. \A j \in 1 .. i + 1 : j \in 1 .. i \/ j = i + 1
    BY <2>1
  <2> QED
    BY <1>5, <2>1, <2>3, <2>4
<1> HIDE DEF S
<1>6. n \in S
  <2>1. n \in Nat
    BY <1>1
  <2> QED
    BY <2>1, <1>4, <1>5, Induction
<1> QED
  BY <1>1, <1>3, <1>6 DEF S

-----------------------------------------------------------------------------
(* Sections *)

\* The places where a section can be, by the positions of nodes and entries.
LEMMA PlacesAre ==
    ASSUME IsList(Own), \A node \in ToSet(Own) : IsRecord(node), NEW n, n = Len(Own)
    PROVE  /\ n \in Nat /\ DOMAIN Own = 1 .. n
           /\ \A i \in 1 .. n :
                 /\ <<i, 0>> \in Places /\ At(<<i, 0>>) = Own[i]
                 /\ DOMAIN Own[i].routes = 1 .. Len(Own[i].routes) /\ Len(Own[i].routes) \in Nat
                 /\ \A e \in ToSet(Own[i].routes) : \E k \in DOMAIN Own[i].routes : e = Own[i].routes[k]
                 /\ \A k \in DOMAIN Own[i].routes :
                       /\ <<i, k>> \in Places /\ At(<<i, k>>) = Own[i].routes[k] /\ k # 0
                       /\ Own[i].routes[k] \in ToSet(Own[i].routes)
           /\ \A p \in Places : /\ p[1] \in 1 .. n /\ p = <<p[1], p[2]>>
                                /\ p[2] = 0 \/ p[2] \in DOMAIN Own[p[1]].routes
<1>1. n \in Nat /\ DOMAIN Own = 1 .. n /\ \A i \in 1 .. n : IsList(Own[i].routes)
  BY ListOf DEF IsRecord
<1>2. ASSUME NEW i \in 1 .. n
      PROVE  /\ DOMAIN Own[i].routes = 1 .. Len(Own[i].routes) /\ Len(Own[i].routes) \in Nat
             /\ \A e \in ToSet(Own[i].routes) : \E k \in 1 .. Len(Own[i].routes) : e = Own[i].routes[k]
             /\ \A k \in 1 .. Len(Own[i].routes) : Own[i].routes[k] \in ToSet(Own[i].routes)
  BY <1>1, ListOf
<1>3. \A i \in 1 .. n : \A k \in 0 .. Len(Own[i].routes) : <<i, k>> \in Places
  BY <1>1 DEF Places
<1>4. \A i, k : At(<<i, k>>) = IF k = 0 THEN Own[i] ELSE Own[i].routes[k]
  BY DEF At
<1>5. ASSUME NEW p \in Places
      PROVE  /\ p[1] \in 1 .. n /\ p = <<p[1], p[2]>>
             /\ p[2] = 0 \/ p[2] \in DOMAIN Own[p[1]].routes
  <2>1. PICK i \in 1 .. n : \E k \in 0 .. Len(Own[i].routes) : p = <<i, k>>
    BY <1>1 DEF Places
  <2>2. PICK k \in 0 .. Len(Own[i].routes) : p = <<i, k>>
    BY <2>1
  <2>3. p[1] = i /\ p[2] = k
    BY <2>2
  <2>4. k = 0 \/ k \in DOMAIN Own[i].routes
    BY <1>2
  <2>5. Own[p[1]].routes = Own[i].routes
    BY <2>3
  <2> QED
    BY <2>2, <2>3, <2>4, <2>5
<1>6. ASSUME NEW i \in 1 .. n
      PROVE  /\ <<i, 0>> \in Places /\ At(<<i, 0>>) = Own[i]
             /\ \A k \in 1 .. Len(Own[i].routes) :
                   <<i, k>> \in Places /\ At(<<i, k>>) = Own[i].routes[k] /\ k # 0
  <2>1. Len(Own[i].routes) \in Nat
    BY <1>2
  <2>2. /\ 0 \in 0 .. Len(Own[i].routes)
        /\ \A k \in 1 .. Len(Own[i].routes) : k \in 0 .. Len(Own[i].routes) /\ k # 0
    BY ONLY <2>1
  <2> QED
    BY <1>3, <1>4, <2>2
<1>7. ASSUME NEW i \in 1 .. n
      PROVE  /\ \A e \in ToSet(Own[i].routes) : \E k \in DOMAIN Own[i].routes : e = Own[i].routes[k]
             /\ \A k \in DOMAIN Own[i].routes :
                   /\ <<i, k>> \in Places /\ At(<<i, k>>) = Own[i].routes[k] /\ k # 0
                   /\ Own[i].routes[k] \in ToSet(Own[i].routes)
  <2>1. DOMAIN Own[i].routes = 1 .. Len(Own[i].routes)
    BY <1>2
  <2>2. ASSUME NEW e \in ToSet(Own[i].routes)
        PROVE  \E k \in DOMAIN Own[i].routes : e = Own[i].routes[k]
    <3>1. \E k \in 1 .. Len(Own[i].routes) : e = Own[i].routes[k]
      BY <1>2
    <3> QED
      BY ONLY <2>1, <3>1
  <2>3. ASSUME NEW k \in DOMAIN Own[i].routes
        PROVE  /\ <<i, k>> \in Places /\ At(<<i, k>>) = Own[i].routes[k] /\ k # 0
               /\ Own[i].routes[k] \in ToSet(Own[i].routes)
    <3>1. k \in 1 .. Len(Own[i].routes)
      BY ONLY <2>1, k \in DOMAIN Own[i].routes
    <3> QED
      BY <1>2, <1>6, <3>1
  <2> QED
    BY ONLY <2>2, <2>3
<1> QED
  BY <1>1, <1>2, <1>5, <1>6, <1>7

\* The places of the nodes themselves, and of the entries of the first i nodes.
Before(p, i) == p[2] = 0 \/ p[1] <= i

\* What is merged has the section of these places, if there is one.
DnsOf(m, i) ==
    /\ \A p \in DnsPlaces : Before(p, i) => m.dns = At(p).dns
    /\ (\A p \in DnsPlaces : ~Before(p, i)) => m.dns = None

OptionsOf(m, i) ==
    /\ \A p \in OptionsPlaces : Before(p, i) => m.options = At(p).options
    /\ (\A p \in OptionsPlaces : ~Before(p, i)) => m.options = None

\* Before the first node the merge has what the nodes themselves carry.
LEMMA SectionsBegin ==
    ASSUME IsList(Own), \A node \in ToSet(Own) : IsRecord(node), OneSectionEach,
           NEW f, IsMerge(f, Own)
    PROVE  DnsOf(f[0], 0) /\ OptionsOf(f[0], 0)
<1> DEFINE n == Len(Own)
           dns == [k \in DOMAIN Own |-> Own[k].dns]
           options == [k \in DOMAIN Own |-> Own[k].options]
<1> HIDE DEF n
<1>1. /\ n \in Nat /\ DOMAIN Own = 1 .. n
      /\ \A i \in 1 .. n : <<i, 0>> \in Places /\ At(<<i, 0>>) = Own[i]
      /\ \A p \in Places : p[1] \in 1 .. n /\ p = <<p[1], p[2]>>
  <2>1. n = Len(Own)
    BY DEF n
  <2> QED
    BY <2>1, PlacesAre
<1>2. \A p \in Places : Before(p, 0) => p = <<p[1], 0>> /\ At(p) = Own[p[1]]
  BY <1>1 DEF Before
<1>3. /\ dns \in Seq({Own[k].dns : k \in 1 .. n}) /\ DOMAIN dns = 1 .. n
      /\ \A k \in 1 .. n : dns[k] = Own[k].dns
  BY <1>1
<1>4. /\ options \in Seq({Own[k].options : k \in 1 .. n}) /\ DOMAIN options = 1 .. n
      /\ \A k \in 1 .. n : options[k] = Own[k].options
  BY <1>1
<1>5. f[0].dns = FirstSection(dns) /\ f[0].options = FirstSection(options)
  BY DEF IsMerge
<1> HIDE DEF dns, options
<1>6. \A k \in 1 .. n : dns[k] # None => <<k, 0>> \in DnsPlaces /\ Before(<<k, 0>>, 0)
  BY <1>1, <1>3 DEF DnsPlaces, Before
<1>7. \A k \in 1 .. n : options[k] # None => <<k, 0>> \in OptionsPlaces /\ Before(<<k, 0>>, 0)
  BY <1>1, <1>4 DEF OptionsPlaces, Before
<1>8. ASSUME NEW p \in DnsPlaces, Before(p, 0) PROVE f[0].dns = At(p).dns
  <2>1. /\ p \in Places /\ p[1] \in 1 .. n /\ At(p) = Own[p[1]]
        /\ dns[p[1]] = At(p).dns /\ dns[p[1]] # None
    BY <1>1, <1>2, <1>3, <1>8 DEF DnsPlaces
  <2>2. \A k \in 1 .. n : dns[k] # None => k = p[1]
    <3> TAKE k \in 1 .. n
    <3> HAVE dns[k] # None
    <3>1. <<k, 0>> = p
      BY <1>6 DEF OneSectionEach
    <3> QED
      BY <3>1
  <2>3. \A k \in DOMAIN dns :
           dns[k] # None /\ (\A l \in DOMAIN dns : dns[l] # None => l = k) =>
               FirstSection(dns) = dns[k]
    BY <1>3, FirstSectionOf
  <2> QED
    BY <1>3, <1>5, <2>1, <2>2, <2>3
<1>9. ASSUME \A p \in DnsPlaces : ~Before(p, 0) PROVE f[0].dns = None
  <2>1. \A k \in 1 .. n : dns[k] = None
    BY <1>6, <1>9
  <2> QED
    BY <1>3, <1>5, <2>1, FirstSectionOf
<1>10. ASSUME NEW p \in OptionsPlaces, Before(p, 0) PROVE f[0].options = At(p).options
  <2>1. /\ p \in Places /\ p[1] \in 1 .. n /\ At(p) = Own[p[1]]
        /\ options[p[1]] = At(p).options /\ options[p[1]] # None
    BY <1>1, <1>2, <1>4, <1>10 DEF OptionsPlaces
  <2>2. \A k \in 1 .. n : options[k] # None => k = p[1]
    <3> TAKE k \in 1 .. n
    <3> HAVE options[k] # None
    <3>1. <<k, 0>> = p
      BY <1>7 DEF OneSectionEach
    <3> QED
      BY <3>1
  <2>3. \A k \in DOMAIN options :
           options[k] # None /\ (\A l \in DOMAIN options : options[l] # None => l = k) =>
               FirstSection(options) = options[k]
    BY <1>4, FirstSectionOf
  <2> QED
    BY <1>4, <1>5, <2>1, <2>2, <2>3
<1>11. ASSUME \A p \in OptionsPlaces : ~Before(p, 0) PROVE f[0].options = None
  <2>1. \A k \in 1 .. n : options[k] = None
    BY <1>7, <1>11
  <2> QED
    BY <1>4, <1>5, <2>1, FirstSectionOf
<1> QED
  BY <1>8, <1>9, <1>10, <1>11 DEF DnsOf, OptionsOf

\* After a node it has what the entries of this node carry, too.
LEMMA SectionsGoOn ==
    ASSUME IsList(Own), \A node \in ToSet(Own) : IsRecord(node), OneSectionEach,
           NEW i \in 1 .. Len(Own), NEW m, NEW t, NodeIn(m, Own[i], t),
           DnsOf(m, i - 1), OptionsOf(m, i - 1)
    PROVE  /\ DnsOf(t, i) /\ OptionsOf(t, i)
           /\ \A x \in ToSet(t.rules) : x \in ToSet(m.rules) \/ x.entry = None \/ NoSections(x)
<1> DEFINE n == Len(Own)
           node == Own[i]
<1>1. /\ n \in Nat /\ DOMAIN node.routes = 1 .. Len(node.routes)
      /\ \A e \in ToSet(node.routes) : \E k \in DOMAIN node.routes : e = node.routes[k]
      /\ \A k \in DOMAIN node.routes :
            /\ <<i, k>> \in Places /\ At(<<i, k>>) = node.routes[k] /\ k # 0
            /\ node.routes[k] \in ToSet(node.routes)
      /\ \A p \in Places : /\ p[1] \in 1 .. n /\ p = <<p[1], p[2]>>
                           /\ p[1] = i => p[2] = 0 \/ p[2] \in DOMAIN node.routes
  BY PlacesAre
<1>2. i \in 1 .. n /\ i \in Int /\ ~(i <= i - 1) /\ i <= i
  BY <1>1
<1>3. \A p \in Places : Before(p, i) <=> Before(p, i - 1) \/ (p[1] = i /\ p[2] \in DOMAIN node.routes)
  BY <1>1, <1>2 DEF Before
<1> HIDE DEF node, n
<1>4. \A k \in DOMAIN node.routes :
         /\ <<i, k>> \in Places /\ At(<<i, k>>) = node.routes[k] /\ Before(<<i, k>>, i)
         /\ ~Before(<<i, k>>, i - 1) /\ <<i, k>>[2] # 0
  BY <1>1, <1>2 DEF Before
<1>5. \A k \in DOMAIN node.routes : node.routes[k].dns # None =>
         <<i, k>> \in DnsPlaces /\ \A p \in DnsPlaces : p = <<i, k>>
  BY <1>4 DEF DnsPlaces, OneSectionEach
<1>6. \A k \in DOMAIN node.routes : node.routes[k].options # None =>
         <<i, k>> \in OptionsPlaces /\ \A p \in OptionsPlaces : p = <<i, k>>
  BY <1>4 DEF OptionsPlaces, OneSectionEach
<1>7. OneEach(m, node)
  <2>1. ASSUME NEW k \in DOMAIN node.routes
        PROVE  /\ node.routes[k].dns = None \/ node.routes[k].options = None
               /\ node.routes[k].dns # None => m.dns = None
               /\ node.routes[k].options # None => m.options = None
    <3>1. node.routes[k].dns = None \/ node.routes[k].options = None
      <4>1. <<i, k>> \in DnsPlaces \cap OptionsPlaces => <<i, k>>[2] = 0
        BY DEF OneSectionEach
      <4> QED
        BY <1>4, <1>5, <1>6, <4>1
    <3>2. node.routes[k].dns # None => m.dns = None
      <4>1. node.routes[k].dns # None => \A p \in DnsPlaces : ~Before(p, i - 1)
        BY <1>4, <1>5
      <4> QED
        BY <4>1 DEF DnsOf
    <3>3. node.routes[k].options # None => m.options = None
      <4>1. node.routes[k].options # None => \A p \in OptionsPlaces : ~Before(p, i - 1)
        BY <1>4, <1>6
      <4> QED
        BY <4>1 DEF OptionsOf
    <3> QED
      BY <3>1, <3>2, <3>3
  <2>2. \A k, l \in DOMAIN node.routes :
           node.routes[k].dns # None /\ node.routes[l].dns # None => k = l
    <3> TAKE k, l \in DOMAIN node.routes
    <3> HAVE node.routes[k].dns # None /\ node.routes[l].dns # None
    <3>1. <<i, k>> = <<i, l>>
      BY <1>5
    <3> QED
      BY <3>1
  <2>3. \A k, l \in DOMAIN node.routes :
           node.routes[k].options # None /\ node.routes[l].options # None => k = l
    <3> TAKE k, l \in DOMAIN node.routes
    <3> HAVE node.routes[k].options # None /\ node.routes[l].options # None
    <3>1. <<i, k>> = <<i, l>>
      BY <1>6
    <3> QED
      BY <3>1
  <2> QED
    BY <2>1, <2>2, <2>3 DEF OneEach
<1>8. /\ Sections(m, node, t)
      /\ \A x \in ToSet(t.rules) : x \in ToSet(m.rules) \/ x.entry = None \/ NoSections(x)
  BY <1>7 DEF NodeIn, node
<1>9. \A p \in Places : p[1] = i /\ p[2] \in DOMAIN node.routes => At(p) = node.routes[p[2]]
  BY <1>1, <1>4
<1>10. DnsOf(t, i)
  <2>1. /\ \A e \in ToSet(node.routes) : e.dns # None => t.dns = e.dns
        /\ (\A e \in ToSet(node.routes) : e.dns = None) => t.dns = m.dns
    BY <1>8 DEF Sections
  <2>2. CASE \E k \in DOMAIN node.routes : node.routes[k].dns # None
    <3>1. PICK k \in DOMAIN node.routes : node.routes[k].dns # None
      BY <2>2
    <3>2. t.dns = node.routes[k].dns
      BY <1>1, <2>1, <3>1
    <3>3. \A p \in DnsPlaces : At(p) = node.routes[k]
      BY <1>4, <1>5, <3>1
    <3>4. <<i, k>> \in DnsPlaces /\ Before(<<i, k>>, i)
      BY <1>4, <1>5, <3>1
    <3> QED
      BY <3>2, <3>3, <3>4 DEF DnsOf
  <2>3. CASE \A k \in DOMAIN node.routes : node.routes[k].dns = None
    <3>1. t.dns = m.dns
      BY <1>1, <2>1, <2>3
    <3>2. \A p \in DnsPlaces : Before(p, i) <=> Before(p, i - 1)
      BY <1>3, <1>9, <2>3 DEF DnsPlaces
    <3> QED
      BY <3>1, <3>2 DEF DnsOf
  <2> QED
    BY <2>2, <2>3
<1>11. OptionsOf(t, i)
  <2>1. /\ \A e \in ToSet(node.routes) : e.options # None => t.options = e.options
        /\ (\A e \in ToSet(node.routes) : e.options = None) => t.options = m.options
    BY <1>8 DEF Sections
  <2>2. CASE \E k \in DOMAIN node.routes : node.routes[k].options # None
    <3>1. PICK k \in DOMAIN node.routes : node.routes[k].options # None
      BY <2>2
    <3>2. t.options = node.routes[k].options
      BY <1>1, <2>1, <3>1
    <3>3. \A p \in OptionsPlaces : At(p) = node.routes[k]
      BY <1>4, <1>6, <3>1
    <3>4. <<i, k>> \in OptionsPlaces /\ Before(<<i, k>>, i)
      BY <1>4, <1>6, <3>1
    <3> QED
      BY <3>2, <3>3, <3>4 DEF OptionsOf
  <2>3. CASE \A k \in DOMAIN node.routes : node.routes[k].options = None
    <3>1. t.options = m.options
      BY <1>1, <2>1, <2>3
    <3>2. \A p \in OptionsPlaces : Before(p, i) <=> Before(p, i - 1)
      BY <1>3, <1>9, <2>3 DEF OptionsPlaces
    <3> QED
      BY <3>1, <3>2 DEF OptionsOf
  <2> QED
    BY <2>2, <2>3
<1> QED
  BY <1>8, <1>10, <1>11

\* After the last node it has whatever section there is.
LEMMA SectionsMerged ==
    ASSUME IsList(Own), \A node \in ToSet(Own) : IsRecord(node), OneSectionEach
    PROVE  /\ \A p \in DnsPlaces : Merged(Own).dns = At(p).dns
           /\ \A p \in OptionsPlaces : Merged(Own).options = At(p).options
           /\ \A x \in ToSet(Merged(Own).rules) : x.entry = None \/ NoSections(x)
<1> DEFINE n == Len(Own)
<1>1. n = Len(Own) /\ n \in Nat
  BY ListOf
<1>2. \A p \in Places : p[1] \in 1 .. n
  BY PlacesAre
<1>3. PICK f : IsMerge(f, Own)
  BY NodesMerged
<1>4. f[n] = Merged(Own) /\ f[0].rules = <<>> /\ \A i \in 1 .. n : NodeIn(f[i - 1], Own[i], f[i])
  BY <1>3 DEF IsMerge
<1> HIDE DEF n
<1> DEFINE Clean(i) == \A x \in ToSet(f[i].rules) : x.entry = None \/ NoSections(x)
           S == {i \in 0 .. n : DnsOf(f[i], i) /\ OptionsOf(f[i], i) /\ Clean(i)}
<1>5. 0 \in S
  <2>1. Clean(0)
    BY <1>4 DEF ToSet
  <2>2. DnsOf(f[0], 0) /\ OptionsOf(f[0], 0)
    BY <1>3, SectionsBegin
  <2> HIDE DEF Clean
  <2> QED
    BY <1>1, <2>1, <2>2
<1>6. ASSUME NEW i \in 0 .. n - 1, i \in S PROVE i + 1 \in S
  <2> DEFINE j == i + 1
  <2>1. j \in 0 .. n /\ j \in 1 .. n /\ j \in 1 .. Len(Own) /\ j - 1 = i
    BY <1>1
  <2> HIDE DEF j
  <2>2. NodeIn(f[i], Own[j], f[j])
    BY <1>4, <2>1
  <2>3. DnsOf(f[i], j - 1) /\ OptionsOf(f[i], j - 1) /\ Clean(i)
    BY <1>6, <2>1
  <2>4. /\ DnsOf(f[j], j) /\ OptionsOf(f[j], j)
        /\ \A x \in ToSet(f[j].rules) : x \in ToSet(f[i].rules) \/ x.entry = None \/ NoSections(x)
    BY <2>1, <2>2, <2>3, SectionsGoOn
  <2>5. Clean(j)
    BY <2>3, <2>4
  <2> HIDE DEF Clean
  <2>6. j \in S
    BY <2>1, <2>4, <2>5
  <2> QED
    BY <2>6 DEF j
<1> HIDE DEF S
<1>7. n \in S
  <2>1. n \in Nat
    BY <1>1
  <2> QED
    BY <2>1, <1>5, <1>6, Induction
<1>8. DnsOf(Merged(Own), n) /\ OptionsOf(Merged(Own), n) /\ Clean(n)
  BY <1>4, <1>7 DEF S
<1>9. \A p \in Places : Before(p, n)
  BY <1>1, <1>2 DEF Before
<1>10. \A p \in DnsPlaces : Merged(Own).dns = At(p).dns
  BY <1>8, <1>9 DEF DnsOf, DnsPlaces
<1>11. \A p \in OptionsPlaces : Merged(Own).options = At(p).options
  BY <1>8, <1>9 DEF OptionsOf, OptionsPlaces
<1> QED
  BY <1>4, <1>8, <1>10, <1>11

-----------------------------------------------------------------------------
(* The inductive invariant *)

USE TagAssumption, ProvisioningAssumption

\* The steps of the generator: while it makes a key pair, while it makes or looks
\* at inbounds, while it writes config.json.
Certifying == {"openCert", "writeCert", "openKey", "writeKey"}
Building   == {"inbound"} \cup Certifying
Writing    == {"openConfig", "writeConfig"}
Steps      == {"down", "fetch", "agent", "running"} \cup Building \cup Writing

\* Types that TypeOK leaves open.
StepsOK == pc \in Steps /\ built <= Len(got)

\* A pair of files that is complete, or was, is not made again: one pair at most for
\* each fault, and one more.
PairsOK ==
    /\ made <= faults + 1
    /\ (cert = Absent \/ key = Absent) /\ pc \notin {"openCert", "writeCert", "openKey"} =>
          made <= faults
    /\ pc \in {"openKey", "writeKey"} => cert # Absent
    /\ pc \in Certifying => made > 0

\* What was fetched is a beginning of what the mode wants, and all of it once the
\* inbounds are built.
FetchedIsOwn ==
    /\ Len(got) <= Len(Own) /\ \A n \in 1 .. Len(got) : got[n] = Own[n]
    /\ pc \in {"down", "agent", "running"} => got = <<>> /\ built = 0
    /\ got # <<>> => HasIds(opts)
    /\ pc \in Building \cup Writing => Len(got) = Len(Own)

\* The records whose inbounds are built are complete; what is written can be merged.
BuiltIsComplete ==
    /\ \A n \in 1 .. built : got[n].complete
    /\ pc \in Certifying => built < Len(got) /\ got[built + 1].complete
    /\ pc \in Writing => built = Len(got) /\ Mergeable(got)

\* A config.json that is complete is what the mode installed last makes of the records.
ConfigIsOwn ==
    Complete =>
        /\ HasIds(opts) /\ Mergeable(Own)
        /\ config = [inbounds |-> [n \in DOMAIN Own |-> Own[n].protocol], routing |-> Merged(Own)]
        /\ \A n \in DOMAIN Own : Own[n].complete

RunningIsComplete == pc = "running" => Complete

\* Rules spell tags as outbounds do, and reserved ones as they are.
SpelledAlike ==
    \A r \in OwnRules : r.action = "route" =>
        /\ LowerCase[r.target] \in Reserved => r.target \in Reserved
        /\ \A o \in OwnOutbounds : LowerCase[o.tag] = LowerCase[r.target] => o.tag = r.target

\* What sing-box asks of outbounds and rules: no tag twice, be it one of "direct" and
\* "block", which each config.json has; and no rule to a tag that is not there.
RoutingIsAccepted ==
    Complete =>
        /\ Apart(config.routing.outbounds)
        /\ SpelledAlike => TargetsThere(config)

\* A certificate and a key that were asked for are there, and stay.
FilesThere ==
    /\ \A n \in 1 .. built : got[n].protocol = "hysteria" => cert # Absent /\ key # Absent
    /\ Complete /\ "hysteria" \in ToSet(config.inbounds) => cert # Absent /\ key # Absent

\* What keeps a complete config.json from being loaded is a pair of files of which one
\* is cut short or of another generation.
LoadsUnlessCut ==
    Complete /\ SpelledAlike => Loads \/ (cert # Absent /\ key # Absent /\ ~PairMatches)

Inv ==
    /\ TypeOK /\ StepsOK /\ PairsOK
    /\ FetchedIsOwn /\ BuiltIsComplete
    /\ ConfigIsOwn /\ RunningIsComplete

-----------------------------------------------------------------------------
(* What the mode wants *)

\* A mode has one or two nodes.
LEMMA WantedType ==
    ASSUME NEW o \in Options
    PROVE  Wanted(o.mode) \in Seq(Types) /\ Len(Wanted(o.mode)) \in 1 .. 2
<1>1. o.mode \in {"vless", "hy2", "ss", "both"}
  OBVIOUS
<1>2. CASE o.mode = "vless"
  <2>1. Wanted(o.mode) = <<"vless">>
    BY <1>2 DEF Wanted
  <2> QED
    BY <2>1 DEF Types
<1>3. CASE o.mode = "hy2"
  <2>1. Wanted(o.mode) = <<"hysteria">>
    BY <1>3 DEF Wanted
  <2> QED
    BY <2>1 DEF Types
<1>4. CASE o.mode = "ss"
  <2>1. Wanted(o.mode) = <<"shadowsocks">>
    BY <1>4 DEF Wanted
  <2> QED
    BY <2>1 DEF Types
<1>5. CASE o.mode = "both"
  <2>1. Wanted(o.mode) = <<"vless", "hysteria">>
    BY <1>5 DEF Wanted
  <2> QED
    BY <2>1 DEF Types
<1> QED
  BY <1>1, <1>2, <1>3, <1>4, <1>5

RecordSet(r) == {r[t] : t \in Types}

\* So there are one or two records for it, each of the panel's.
LEMMA RecordsType ==
    ASSUME NEW o \in Options, NEW r, NEW own, own = RecordsOf(o, r)
    PROVE  /\ own \in Seq(RecordSet(r))
           /\ DOMAIN own = 1 .. Len(own) /\ Len(own) = Len(Wanted(o.mode)) /\ Len(own) \in 1 .. 2
           /\ \A n \in 1 .. Len(own) : own[n] = r[Wanted(o.mode)[n]]
<1> DEFINE w == Wanted(o.mode)
<1>1. w \in Seq(Types) /\ Len(w) \in 1 .. 2
  BY WantedType
<1>2. DOMAIN w = 1 .. Len(w) /\ \A n \in 1 .. Len(w) : w[n] \in Types
  BY <1>1
<1>3. own = [n \in 1 .. Len(w) |-> r[w[n]]]
  BY <1>2 DEF RecordsOf
<1> HIDE DEF w
<1>4. own \in Seq(RecordSet(r)) /\ Len(own) = Len(w)
  BY <1>1, <1>2, <1>3 DEF RecordSet
<1> QED
  BY <1>1, <1>3, <1>4 DEF w

\* The same of the options and records there are.
LEMMA OwnType ==
    ASSUME opts \in Options, records \in Records
    PROVE  /\ Own \in Seq({records[t] : t \in Types})
           /\ DOMAIN Own = 1 .. Len(Own) /\ Len(Own) = Len(Wanted(opts.mode)) /\ Len(Own) \in 1 .. 2
           /\ \A n \in 1 .. Len(Own) : Own[n] = records[Wanted(opts.mode)[n]]
<1>1. Own = RecordsOf(opts, records) /\ RecordSet(records) = {records[t] : t \in Types}
  BY DEF Own, RecordSet
<1> QED
  BY <1>1, RecordsType

\* All of it fetched is what the mode wants.
LEMMA FetchedAll ==
    ASSUME TypeOK, FetchedIsOwn, Len(got) = Len(Own)
    PROVE  got = Own /\ got # <<>> /\ HasIds(opts)
<1>1. /\ got \in Seq({records[t] : t \in Types})
      /\ Own \in Seq({records[t] : t \in Types}) /\ Len(Own) \in 1 .. 2
  BY OwnType DEF TypeOK
<1>2. \A n \in 1 .. Len(got) : got[n] = Own[n]
  BY DEF FetchedIsOwn
<1>3. got = Own
  BY <1>1, <1>2
<1>4. got # <<>>
  BY <1>1
<1> QED
  BY <1>3, <1>4 DEF FetchedIsOwn

LEMMA OwnKept == UNCHANGED <<opts, records>> => Own' = Own
BY DEF Own

-----------------------------------------------------------------------------
(* The steps *)

LEMMA InvInit == Init => Inv
<1> SUFFICES ASSUME Init PROVE Inv
  OBVIOUS
<1>1. opts \in Options /\ records \in Records
  BY DEF Init
<1>2. TypeOK
  BY DEF Init, TypeOK, Complete, Pairs
<1>3. StepsOK /\ PairsOK
  BY DEF Init, StepsOK, PairsOK, Steps, Certifying
<1>4. FetchedIsOwn
  BY <1>1, OwnType DEF Init, FetchedIsOwn, Building, Writing, Certifying
<1>5. BuiltIsComplete /\ ConfigIsOwn /\ RunningIsComplete
  BY DEF Init, BuiltIsComplete, ConfigIsOwn, RunningIsComplete, Complete, Certifying, Writing
<1> QED
  BY <1>2, <1>3, <1>4, <1>5 DEF Inv

\* config.json is left as it was.
LEMMA ConfigKept ==
    ASSUME Inv, UNCHANGED <<opts, records, config>>
    PROVE  /\ ConfigIsOwn' /\ (Complete' <=> Complete)
           /\ Complete' => DOMAIN config' = {"inbounds", "routing"}
BY OwnKept DEF Inv, TypeOK, ConfigIsOwn, Complete

\* A program that ended: what it had in memory is gone, and the files are left.
LEMMA FailStep ==
    ASSUME Inv, Fail, UNCHANGED <<records, cert, key, made>>,
           \/ faults' = faults /\ pc \notin Certifying
           \/ faults' = faults + 1 /\ faults < MaxFaults,
           \/ UNCHANGED <<opts, config>>
           \/ opts' \in Options /\ ~Complete'
    PROVE  Inv'
<1>1. pc' = "down" /\ got' = <<>> /\ built' = 0
  BY DEF Fail
<1>2. opts' \in Options /\ records' \in Records
  BY DEF Inv, TypeOK
<1>3. faults' \in 0 .. MaxFaults /\ faults \in 0 .. MaxFaults /\ made \in Nat
  BY DEF Inv, TypeOK
<1>4. ConfigIsOwn' /\ (Complete' => DOMAIN config' = {"inbounds", "routing"})
  BY ConfigKept DEF ConfigIsOwn
<1>5. got' \in Seq({records'[t] : t \in Types}) /\ Len(got') = 0
  BY <1>1
<1>6. TypeOK'
  BY <1>1, <1>2, <1>3, <1>4, <1>5 DEF Inv, TypeOK, Pairs
<1>7. StepsOK'
  BY <1>1, <1>5 DEF StepsOK, Steps
<1>8. PairsOK'
  <2>1. CASE faults' = faults /\ pc \notin Certifying
    <3>1. /\ made' <= faults' + 1
          /\ (cert' = Absent \/ key' = Absent) => made' <= faults'
      BY <2>1 DEF Inv, PairsOK, Certifying
    <3> QED
      BY <1>1, <3>1 DEF PairsOK, Certifying
  <2>2. CASE faults' = faults + 1
    <3>1. made' <= faults' /\ made' <= faults' + 1
      BY <1>3, <2>2 DEF Inv, PairsOK
    <3> QED
      BY <1>1, <3>1 DEF PairsOK, Certifying
  <2> QED
    BY <2>1, <2>2
<1>9. FetchedIsOwn'
  <2>1. Own' = RecordsOf(opts', records')
    BY DEF Own
  <2>2. Len(Own') \in 1 .. 2
    BY <1>2, <2>1, RecordsType
  <2> QED
    BY <1>1, <1>5, <2>2 DEF FetchedIsOwn, Building, Writing, Certifying
<1>10. BuiltIsComplete' /\ RunningIsComplete'
  BY <1>1 DEF BuiltIsComplete, RunningIsComplete, Certifying, Writing
<1> QED
  BY <1>4, <1>6, <1>7, <1>8, <1>9, <1>10 DEF Inv

\* The next step begins, with the files and all that was fetched and built.
LEMMA GotoStep ==
    ASSUME Inv, NEW step \in Steps \ Certifying, Goto(step),
           UNCHANGED <<opts, records, files, made, faults>>, pc \notin Certifying,
           step \in {"down", "agent", "running"} => pc \in {"down", "agent", "running"},
           step \in Building \cup Writing => Len(got) = Len(Own),
           step \in Writing => built = Len(got) /\ Mergeable(got),
           step = "running" => Complete
    PROVE  Inv'
<1>1. pc' = step /\ UNCHANGED <<got, built, opts, records, cert, key, config, made, faults>>
  BY DEF Goto, files
<1>2. Own' = Own /\ ConfigIsOwn' /\ (Complete' <=> Complete)
  BY <1>1, OwnKept, ConfigKept
<1>3. TypeOK'
  BY <1>1 DEF Inv, TypeOK, Complete
<1>4. StepsOK'
  BY <1>1 DEF Inv, StepsOK
<1>5. PairsOK'
  BY <1>1 DEF Inv, PairsOK, Certifying
<1>6. FetchedIsOwn'
  BY <1>1, <1>2 DEF Inv, FetchedIsOwn
<1>7. BuiltIsComplete'
  BY <1>1 DEF Inv, BuiltIsComplete
<1>8. RunningIsComplete'
  BY <1>1, <1>2 DEF RunningIsComplete
<1> QED
  BY <1>2, <1>3, <1>4, <1>5, <1>6, <1>7, <1>8 DEF Inv

\* A record is fetched: the next one the mode wants.
LEMMA FetchStep ==
    ASSUME Inv, Fetch
    PROVE  Inv'
<1>1. /\ pc = "fetch" /\ HasIds(opts) /\ Len(got) < Len(Own)
      /\ UNCHANGED <<opts, records, cert, key, config, pc, built, made, faults>>
  BY OwnType DEF Fetch, files, Inv, TypeOK
<1>2. Own' = Own /\ ConfigIsOwn' /\ (Complete' <=> Complete)
  BY <1>1, OwnKept, ConfigKept
<1>3. /\ got \in Seq({records[t] : t \in Types}) /\ Len(got) \in Nat /\ built \in 0 .. Len(got)
      /\ Own \in Seq({records[t] : t \in Types}) /\ Len(Own) \in 1 .. 2
      /\ Own[Len(got) + 1] = records[Wanted(opts.mode)[Len(got) + 1]]
  BY <1>1, OwnType DEF Inv, TypeOK
<1>4. got' = Append(got, Own[Len(got) + 1])
  BY <1>3 DEF Fetch
<1>5. /\ got' \in Seq({records[t] : t \in Types}) /\ Len(got') = Len(got) + 1 /\ got' # <<>>
      /\ \A n \in 1 .. Len(got) : got'[n] = got[n]
      /\ got'[Len(got) + 1] = Own[Len(got) + 1]
  BY <1>1, <1>3, <1>4
<1>6. TypeOK'
  BY <1>1, <1>2, <1>3, <1>5 DEF Inv, TypeOK
<1>7. StepsOK'
  BY <1>1, <1>3, <1>5 DEF Inv, StepsOK
<1>8. PairsOK'
  BY <1>1 DEF Inv, PairsOK
<1>9. FetchedIsOwn'
  <2>1. \A n \in 1 .. Len(got') : got'[n] = Own[n]
    BY <1>3, <1>5 DEF Inv, FetchedIsOwn
  <2> QED
    BY <1>1, <1>2, <1>3, <1>5, <2>1 DEF FetchedIsOwn, Building, Writing, Certifying
<1>10. BuiltIsComplete' /\ RunningIsComplete'
  BY <1>1, <1>3, <1>5 DEF Inv, BuiltIsComplete, RunningIsComplete, Certifying, Writing
<1> QED
  BY <1>2, <1>6, <1>7, <1>8, <1>9, <1>10 DEF Inv

\* The inbound of the next record is built.
LEMMA BuiltStep ==
    ASSUME Inv, pc \in Building, pc' = "inbound", built' = built + 1,
           built < Len(got), got[built + 1].complete,
           UNCHANGED <<opts, records, cert, config, got, made, faults>>,
           \/ UNCHANGED key /\ pc = "inbound"
           \/ pc = "writeKey" /\ key' = made
    PROVE  Inv'
<1>1. Own' = Own /\ ConfigIsOwn' /\ (Complete' <=> Complete)
  BY OwnKept, ConfigKept
<1>2. /\ Len(got) \in Nat /\ built \in 0 .. Len(got)
      /\ made \in 0 .. MaxFaults + 1 /\ faults \in 0 .. MaxFaults
  BY DEF Inv, TypeOK
<1>3. key' \in Pairs \cup {Absent, Torn}
  BY <1>2 DEF Inv, TypeOK, PairsOK, Pairs, Certifying
<1>4. TypeOK'
  BY <1>1, <1>2, <1>3 DEF Inv, TypeOK
<1>5. StepsOK'
  BY <1>2 DEF StepsOK, Steps, Building
<1>6. PairsOK'
  <2>1. CASE UNCHANGED key /\ pc = "inbound"
    BY <2>1 DEF Inv, PairsOK, Certifying
  <2>2. CASE pc = "writeKey" /\ key' = made
    BY <1>2, <2>2 DEF Inv, PairsOK, Certifying
  <2> QED
    BY <2>1, <2>2
<1>7. FetchedIsOwn'
  BY <1>1 DEF Inv, FetchedIsOwn, Building, Writing, Certifying
<1>8. BuiltIsComplete'
  BY <1>2 DEF Inv, BuiltIsComplete, Certifying, Writing
<1>9. RunningIsComplete'
  BY DEF RunningIsComplete
<1> QED
  BY <1>1, <1>4, <1>5, <1>6, <1>7, <1>8, <1>9 DEF Inv

\* A new pair is begun, or a file of it is opened or completed.
LEMMA CertifyStep ==
    ASSUME Inv, pc \in Building, pc' \in Certifying,
           UNCHANGED <<opts, records, config, got, built, faults>>,
           built < Len(got), got[built + 1].complete,
           \/ pc = "inbound" /\ pc' = "openCert" /\ made' = made + 1
                 /\ (cert = Absent \/ key = Absent) /\ UNCHANGED <<cert, key>>
           \/ pc = "openCert" /\ pc' = "writeCert" /\ cert' = Torn /\ UNCHANGED <<key, made>>
           \/ pc = "writeCert" /\ pc' = "openKey" /\ cert' = made /\ UNCHANGED <<key, made>>
           \/ pc = "openKey" /\ pc' = "writeKey" /\ key' = Torn /\ UNCHANGED <<cert, made>>
    PROVE  Inv'
<1>1. Own' = Own /\ ConfigIsOwn' /\ (Complete' <=> Complete)
  BY OwnKept, ConfigKept
<1>2. /\ made \in 0 .. MaxFaults + 1 /\ faults \in 0 .. MaxFaults
      /\ pc \in Certifying => made > 0
      /\ pc = "inbound" /\ (cert = Absent \/ key = Absent) => made <= faults
  BY DEF Inv, TypeOK, PairsOK, Certifying
<1>3. made' \in 0 .. MaxFaults + 1
  BY <1>2 DEF Certifying
<1>4. cert' \in Pairs \cup {Absent, Torn} /\ key' \in Pairs \cup {Absent, Torn}
  BY <1>2 DEF Inv, TypeOK, Pairs, Certifying
<1>5. TypeOK'
  BY <1>1, <1>3, <1>4 DEF Inv, TypeOK
<1>6. StepsOK'
  BY DEF Inv, StepsOK, Steps, Building
<1>7. PairsOK'
  BY <1>2 DEF Inv, PairsOK, Certifying
<1>8. FetchedIsOwn'
  BY <1>1 DEF Inv, FetchedIsOwn, Building, Writing, Certifying
<1>9. BuiltIsComplete' /\ RunningIsComplete'
  BY DEF Inv, BuiltIsComplete, RunningIsComplete, Certifying, Writing
<1> QED
  BY <1>1, <1>5, <1>6, <1>7, <1>8, <1>9 DEF Inv

\* config.json is truncated.
LEMMA OpenConfigStep ==
    ASSUME Inv, OpenConfig
    PROVE  Inv'
<1>1. /\ pc = "openConfig" /\ pc' = "writeConfig" /\ config' = Empty
      /\ UNCHANGED <<opts, records, cert, key, got, built, made, faults>>
  BY DEF OpenConfig, Goto
<1>2. Own' = Own /\ ~Complete'
  BY <1>1, OwnKept DEF Complete
<1>3. TypeOK'
  BY <1>1, <1>2 DEF Inv, TypeOK
<1>4. StepsOK'
  BY <1>1 DEF Inv, StepsOK, Steps, Writing
<1>5. PairsOK'
  BY <1>1 DEF Inv, PairsOK, Certifying
<1>6. FetchedIsOwn'
  BY <1>1, <1>2 DEF Inv, FetchedIsOwn, Building, Writing, Certifying
<1>7. BuiltIsComplete' /\ RunningIsComplete' /\ ConfigIsOwn'
  BY <1>1, <1>2 DEF Inv, BuiltIsComplete, RunningIsComplete, ConfigIsOwn, Certifying, Writing
<1> QED
  BY <1>3, <1>4, <1>5, <1>6, <1>7 DEF Inv

\* What is written is made of all records the mode wants, each complete.
LEMMA WriteConfigStep ==
    ASSUME Inv, WriteConfig
    PROVE  Inv'
<1>1. /\ pc = "writeConfig" /\ pc' = "agent" /\ config' = Content /\ got' = <<>> /\ built' = 0
      /\ UNCHANGED <<opts, records, cert, key, made, faults>>
  BY DEF WriteConfig
<1>2. Own' = Own /\ opts \in Options /\ records \in Records
  BY <1>1, OwnKept DEF Inv, TypeOK
<1>3. got = Own /\ HasIds(opts) /\ Mergeable(Own)
  <2>1. Len(got) = Len(Own)
    BY <1>1 DEF Inv, FetchedIsOwn, Writing
  <2>2. Mergeable(got)
    BY <1>1 DEF Inv, BuiltIsComplete, Writing
  <2> QED
    BY <2>1, <2>2, FetchedAll DEF Inv
<1>4. \A n \in DOMAIN Own : Own[n].complete
  <2>1. built = Len(Own) /\ \A n \in 1 .. built : Own[n].complete
    BY <1>1, <1>3 DEF Inv, BuiltIsComplete, Writing
  <2> QED
    BY <1>2, <2>1, OwnType
<1>5. config' = [inbounds |-> [n \in DOMAIN Own |-> Own[n].protocol], routing |-> Merged(Own)]
  BY <1>1, <1>3 DEF Content
<1>6. TypeOK'
  <2>1. DOMAIN config' = {"inbounds", "routing"}
    BY <1>5
  <2>2. got' \in Seq({records'[t] : t \in Types}) /\ Len(got') = 0
    BY <1>1
  <2> QED
    BY <1>1, <2>1, <2>2 DEF Inv, TypeOK
<1>7. StepsOK'
  BY <1>1 DEF StepsOK, Steps
<1>8. PairsOK'
  BY <1>1 DEF Inv, PairsOK, Certifying
<1>9. FetchedIsOwn'
  <2>1. Len(got') = 0 /\ Len(Own') \in 1 .. 2
    BY <1>1, <1>2, OwnType
  <2> QED
    BY <1>1, <2>1 DEF FetchedIsOwn, Building, Writing, Certifying
<1>10. BuiltIsComplete' /\ RunningIsComplete'
  BY <1>1 DEF BuiltIsComplete, RunningIsComplete, Certifying, Writing
<1>11. ConfigIsOwn'
  BY <1>1, <1>2, <1>3, <1>4, <1>5 DEF ConfigIsOwn
<1> QED
  BY <1>6, <1>7, <1>8, <1>9, <1>10, <1>11 DEF Inv

\* Every step keeps the invariant.
LEMMA InvStep == Inv /\ [Next]_vars => Inv'
<1> SUFFICES ASSUME Inv, [Next]_vars PROVE Inv'
  OBVIOUS
<1>1. /\ got \in Seq({records[t] : t \in Types}) /\ Len(got) \in Nat /\ built \in 0 .. Len(got)
      /\ Len(Own) = Len(Wanted(opts.mode)) /\ Len(Own) \in 1 .. 2
  BY OwnType DEF Inv, TypeOK
<1>2. CASE Start
  BY <1>2, GotoStep DEF Start, Steps, Certifying, Building, Writing
<1>3. CASE IdsMissing \/ FetchFails \/ BadRecord
  BY <1>3, FailStep DEF IdsMissing, FetchFails, BadRecord, files, Certifying
<1>4. CASE Fetch
  BY <1>4, FetchStep
<1>5. CASE Fetched
  BY <1>1, <1>5, GotoStep DEF Fetched, Steps, Certifying, Building, Writing
<1>6. CASE BuildInbound
  BY <1>6, BuiltStep DEF BuildInbound, Node, files, Building
<1>7. CASE CheckPair
  <2>1. CASE cert # Absent /\ key # Absent
    BY <1>7, <2>1, BuiltStep DEF CheckPair, Node, files, Building
  <2>2. CASE ~(cert # Absent /\ key # Absent)
    BY <1>7, <2>2, CertifyStep DEF CheckPair, Node, Goto, files, Building, Certifying
  <2> QED
    BY <2>1, <2>2
<1>8. CASE OpenCert \/ WriteCert \/ OpenKey
  <2>1. pc \in Certifying /\ built < Len(got) /\ got[built + 1].complete
    BY <1>8 DEF OpenCert, WriteCert, OpenKey, Inv, BuiltIsComplete, Certifying
  <2> QED
    BY <1>8, <2>1, CertifyStep DEF OpenCert, WriteCert, OpenKey, Goto, Building, Certifying
<1>9. CASE WriteKey
  <2>1. built < Len(got) /\ got[built + 1].complete
    BY <1>9 DEF WriteKey, Inv, BuiltIsComplete, Certifying
  <2> QED
    BY <1>9, <2>1, BuiltStep DEF WriteKey, Building, Certifying
<1>10. CASE Merge
  <2>1. Len(got) = Len(Own)
    BY <1>10 DEF Merge, Inv, FetchedIsOwn, Building
  <2>2. CASE Mergeable(got)
    BY <1>10, <2>1, <2>2, GotoStep DEF Merge, Steps, Certifying, Building, Writing
  <2>3. CASE ~Mergeable(got)
    BY <1>10, <2>3, FailStep DEF Merge, files, Certifying
  <2> QED
    BY <2>2, <2>3
<1>11. CASE OpenConfig
  BY <1>11, OpenConfigStep
<1>12. CASE WriteConfig
  BY <1>12, WriteConfigStep
<1>13. CASE RunAgent
  <2>1. CASE Loads
    BY <1>13, <2>1, GotoStep DEF RunAgent, Loads, Complete, Steps, Certifying, Building, Writing
  <2>2. CASE ~Loads
    BY <1>13, <2>2, FailStep DEF RunAgent, files, Certifying
  <2> QED
    BY <2>1, <2>2
<1>14. CASE AgentExits
  BY <1>14, FailStep DEF AgentExits, files, Certifying
<1>15. CASE Crash
  BY <1>15, FailStep DEF Crash, Fault, files
<1>16. CASE ConfigCut
  <2>1. opts' \in Options /\ ~Complete'
    BY <1>16 DEF ConfigCut, Complete, Inv, TypeOK
  <2> QED
    BY <1>16, <2>1, FailStep DEF ConfigCut, Fault
<1>17. ASSUME NEW o \in Options, Install(o) PROVE Inv'
  <2>1. opts' \in Options /\ ~Complete'
    BY <1>17 DEF Install, Complete
  <2> QED
    BY <1>17, <2>1, FailStep DEF Install, Fault
<1>18. CASE UNCHANGED vars
  <2>1. Own' = Own /\ ConfigIsOwn' /\ (Complete' <=> Complete)
    BY <1>18, OwnKept, ConfigKept DEF vars, files
  <2>2. UNCHANGED <<opts, records, cert, key, config, pc, got, built, made, faults>>
    BY <1>18 DEF vars, files, run
  <2>3. TypeOK' /\ StepsOK' /\ PairsOK'
    BY <2>1, <2>2 DEF Inv, TypeOK, StepsOK, PairsOK
  <2>4. FetchedIsOwn' /\ BuiltIsComplete' /\ RunningIsComplete'
    BY <2>1, <2>2 DEF Inv, FetchedIsOwn, BuiltIsComplete, RunningIsComplete
  <2> QED
    BY <2>1, <2>3, <2>4 DEF Inv
<1> QED
  BY <1>2, <1>3, <1>4, <1>5, <1>6, <1>7, <1>8, <1>9, <1>10, <1>11, <1>12, <1>13, <1>14, <1>15,
     <1>16, <1>17, <1>18 DEF Next, Service

LEMMA Invariance == Spec => []Inv
BY InvInit, InvStep, PTL DEF Spec

\* The variables keep their types; in particular no installation and no crash makes
\* the generator run on records it did not fetch, or number more pairs than faults.
THEOREM TypeCorrect == Spec => []TypeOK
<1>1. Inv => TypeOK
  BY DEF Inv
<1> QED
  BY <1>1, Invariance, PTL

\* The agent that runs has the inbounds of the mode installed last, in the order of
\* the mode, each made of a complete record, after any installations, crashes, cut
\* writes and failed runs of the generator.
THEOREM InstalledRuns == Spec => []RunsWhatIsInstalled
<1>1. Inv => RunsWhatIsInstalled
  <2> SUFFICES ASSUME Inv, pc = "running"
               PROVE  /\ HasIds(opts)
                      /\ config.inbounds = [n \in DOMAIN Own |-> Own[n].protocol]
                      /\ \A node \in ToSet(Own) : node.complete
    BY DEF RunsWhatIsInstalled
  <2>1. /\ HasIds(opts) /\ \A n \in DOMAIN Own : Own[n].complete
        /\ config = [inbounds |-> [n \in DOMAIN Own |-> Own[n].protocol], routing |-> Merged(Own)]
    BY DEF Inv, RunningIsComplete, ConfigIsOwn
  <2> QED
    BY <2>1 DEF ToSet
<1> QED
  BY <1>1, Invariance, PTL

\* The records a configuration is made of are lists of outbounds, rules and entries.
LEMMA OwnRecords ==
    ASSUME TypeOK
    PROVE  IsList(Own) /\ \A node \in ToSet(Own) : IsRecord(node)
<1>1. opts \in Options /\ records \in Records
  BY DEF TypeOK
<1>2. /\ Own \in Seq({records[t] : t \in Types}) /\ DOMAIN Own = 1 .. Len(Own)
      /\ \A n \in 1 .. Len(Own) : Own[n] \in {records[t] : t \in Types}
  BY <1>1, OwnType
<1>3. \A node \in {records[t] : t \in Types} : IsRecord(node)
  BY <1>1
<1>4. IsList(Own)
  <2>1. \A n \in 1 .. Len(Own) : Own[n] \in ToSet(Own)
    BY <1>2 DEF ToSet
  <2> QED
    BY <1>2, <2>1 DEF IsList
<1>5. \A node \in ToSet(Own) : node \in {records[t] : t \in Types}
  BY <1>2 DEF ToSet
<1> QED
  BY <1>3, <1>4, <1>5

\* A complete config.json has what is merged of the records the mode wants, which
\* passed the checks of the merge.
LEMMA ConfigIsMerged ==
    ASSUME Inv, Complete
    PROVE  config.routing = Merged(Own) /\ Mergeable(Own)
BY DEF Inv, ConfigIsOwn

\* However many nodes, outbounds and rules there are, and after any installations,
\* crashes and failed runs of the generator: every live rule of every node is in a
\* complete config.json, and its target is there as the one outbound a node has
\* under that tag, if no two nodes' outbounds share a tag, rules spell tags as outbounds
\* do, and none is a reserved tag in another case.
THEOREM RulesReach == Spec => []RulesReachTheirOutbound
<1>1. Inv => RulesReachTheirOutbound
  <2> DEFINE merged == ToSet(MergedOutbounds(Own))
  <2> SUFFICES ASSUME Inv, Complete, TagsApart, NEW r \in OwnRules
               PROVE  /\ \E x \in ToSet(config.routing.rules) :
                            x.entry = None /\ x.outbound = OutboundOf(r)
                      /\ r.action = "route" /\ LowerCase[r.target] \notin Reserved =>
                            \E o \in OwnOutbounds :
                                {p \in ToSet(config.routing.outbounds) : p.tag = r.target} = {o}
    BY DEF RulesReachTheirOutbound
  <2>1. IsList(Own) /\ \A node \in ToSet(Own) : IsRecord(node) /\ IsList(node.outbounds)
    BY OwnRecords DEF Inv, IsRecord
  <2>2. Merged(Own).outbounds = MergedOutbounds(Own)
    BY <2>1, NodesMerged
  <2>3. config.routing = Merged(Own) /\ Mergeable(Own)
    BY ConfigIsMerged
  <2>4. PICK node \in ToSet(Own) : r \in ToSet(node.rules) /\ Live(r)
    BY DEF OwnRules
  <2>5. \E x \in ToSet(Merged(Own).rules) : x.entry = None /\ x.outbound = OutboundOf(r)
    <3>1. Built(r) \in ToSet(Merged(Own).rules)
      BY <2>1, <2>4, RulesMerged
    <3>2. Built(r).entry = None /\ Built(r).outbound = OutboundOf(r)
      BY DEF Built
    <3> QED
      BY <3>1, <3>2
  <2>6. ASSUME r.action = "route", LowerCase[r.target] \notin Reserved
        PROVE  \E o \in OwnOutbounds : {p \in merged : p.tag = r.target} = {o}
    <3>1. merged \subseteq OwnOutbounds
      BY <2>1, OutboundsMerged DEF OwnOutbounds
    <3>2. Taken(MergedOutbounds(Own), r.target)
      <4>1. "route" \notin Reserved
        BY DEF Reserved
      <4> QED
        BY <2>3, <2>4, <2>6, <4>1 DEF Mergeable
    <3>3. PICK o \in merged : LowerCase[o.tag] = LowerCase[r.target]
      BY <2>6, <3>2 DEF Taken
    <3>4. o.tag = r.target
      BY <2>6, <3>1, <3>3 DEF TagsApart
    <3>5. \A p \in merged : p.tag = r.target => p = o
      BY <3>1, <3>4 DEF TagsApart
    <3> HIDE DEF merged
    <3> QED
      BY <3>1, <3>4, <3>5
  <2> QED
    BY <2>2, <2>3, <2>5, <2>6
<1> QED
  BY <1>1, Invariance, PTL

\* Whatever outbounds and rules the nodes have, sing-box does not refuse what was merged
\* of them for a tag that is there twice, nor for a rule that leads nowhere, up to the
\* case of letters: the checks of customRouteRuleToSingBox are enough.
THEOREM RoutingLoads == Spec => []RoutingIsAccepted
<1>1. Inv => RoutingIsAccepted
  <2> SUFFICES ASSUME Inv, Complete
               PROVE  /\ Apart(config.routing.outbounds)
                      /\ SpelledAlike => TargetsThere(config)
    BY DEF RoutingIsAccepted
  <2>1. /\ IsList(Own) /\ \A node \in ToSet(Own) : IsRecord(node)
        /\ \A node \in ToSet(Own) : IsList(node.outbounds) /\ None \notin ToSet(node.routes)
    BY OwnRecords DEF Inv, IsRecord
  <2>2. config.routing = Merged(Own) /\ Mergeable(Own)
    BY ConfigIsMerged
  <2>3. Merged(Own).outbounds = MergedOutbounds(Own)
    BY <2>1, NodesMerged
  <2>4. /\ ToSet(MergedOutbounds(Own)) \subseteq OwnOutbounds
        /\ Apart(MergedOutbounds(Own))
    BY <2>1, OutboundsMerged DEF OwnOutbounds
  <2>5. ASSUME SpelledAlike, NEW x \in ToSet(Merged(Own).rules), x.entry = None
        PROVE  x.outbound \in Reserved \cup {o.tag : o \in ToSet(MergedOutbounds(Own))}
    <3>1. PICK node \in ToSet(Own) : IsBuilt(x, node)
      BY <2>1, <2>5, RulesMerged
    <3>2. PICK rule \in ToSet(node.rules) : Live(rule) /\ x = Built(rule)
      BY <3>1 DEF IsBuilt
    <3>3. x.outbound = OutboundOf(rule) /\ rule \in OwnRules
      BY <3>2 DEF Built, OwnRules
    <3>4. CASE rule.action \in Reserved
      BY <3>3, <3>4 DEF OutboundOf, Reserved
    <3>5. CASE rule.action \notin Reserved
      <4>1. rule.action = "route" /\ Taken(MergedOutbounds(Own), rule.target)
        BY <2>2, <3>2, <3>5 DEF Mergeable
      <4>2. x.outbound = rule.target
        BY <3>3, <4>1 DEF OutboundOf
      <4>3. CASE LowerCase[rule.target] \in Reserved
        BY <2>5, <3>3, <4>1, <4>2, <4>3 DEF SpelledAlike
      <4>4. CASE LowerCase[rule.target] \notin Reserved
        <5>1. PICK o \in ToSet(MergedOutbounds(Own)) : LowerCase[o.tag] = LowerCase[rule.target]
          BY <4>1, <4>4 DEF Taken
        <5>2. o.tag = rule.target
          BY <2>4, <2>5, <3>3, <4>1, <5>1 DEF SpelledAlike
        <5> QED
          BY <4>2, <5>1, <5>2
      <4> QED
        BY <4>3, <4>4
    <3> QED
      BY <3>4, <3>5
  <2> QED
    BY <2>2, <2>3, <2>4, <2>5 DEF TargetsThere
<1> QED
  BY <1>1, Invariance, PTL

\* Whichever node has the one DNS section and the one options section, and whether it
\* has them as custom_dns and route_options or as an entry at any place of its
\* custom_routes: a complete config.json has both, and no such entry as a rule.
THEOREM SectionsKept == Spec => []OneSectionIsKept
<1>1. Inv => OneSectionIsKept
  <2> SUFFICES ASSUME Inv, Complete, OneSectionEach
               PROVE  /\ \A p \in DnsPlaces : config.routing.dns = At(p).dns
                      /\ \A p \in OptionsPlaces : config.routing.options = At(p).options
                      /\ \A x \in ToSet(config.routing.rules) :
                            x.entry # None => x.entry.dns = None /\ x.entry.options = None
    BY DEF OneSectionIsKept
  <2>1. IsList(Own) /\ \A node \in ToSet(Own) : IsRecord(node)
    BY OwnRecords DEF Inv
  <2>2. /\ \A p \in DnsPlaces : Merged(Own).dns = At(p).dns
        /\ \A p \in OptionsPlaces : Merged(Own).options = At(p).options
        /\ \A x \in ToSet(Merged(Own).rules) : x.entry = None \/ NoSections(x)
    BY <2>1, SectionsMerged
  <2>3. config.routing = Merged(Own)
    BY ConfigIsMerged
  <2> QED
    BY <2>2, <2>3 DEF NoSections
<1> QED
  BY <1>1, Invariance, PTL

-----------------------------------------------------------------------------
(* The certificate files *)

LEMMA FilesStay ==
    ASSUME Inv, [Next]_vars
    PROVE  (cert # Absent => cert' # Absent) /\ (key # Absent => key' # Absent)
<1>1. made \in Nat /\ made # Absent /\ Torn # Absent
  BY DEF Inv, TypeOK
<1>2. CASE OpenCert \/ WriteCert \/ OpenKey \/ WriteKey
  BY <1>1, <1>2 DEF OpenCert, WriteCert, OpenKey, WriteKey
<1>3. CASE \/ Start \/ IdsMissing \/ Fetch \/ FetchFails \/ Fetched \/ BadRecord
           \/ BuildInbound \/ CheckPair
  BY <1>3 DEF Start, IdsMissing, Fetch, FetchFails, Fetched, BadRecord, BuildInbound, CheckPair, files
<1>4. CASE Merge \/ OpenConfig \/ WriteConfig \/ RunAgent \/ AgentExits \/ Crash \/ ConfigCut
  BY <1>4 DEF Merge, OpenConfig, WriteConfig, RunAgent, AgentExits, Crash, ConfigCut, files
<1>5. CASE \E o \in Options : Install(o)
  BY <1>5 DEF Install
<1>6. CASE UNCHANGED vars
  BY <1>6 DEF vars, files
<1> QED
  BY <1>2, <1>3, <1>4, <1>5, <1>6 DEF Next, Service

\* An inbound of Hysteria 2 is built when both files are there.
LEMMA FilesBuilt ==
    ASSUME Inv, FilesThere, [Next]_vars
    PROVE  \A n \in 1 .. built' : got'[n].protocol = "hysteria" => cert' # Absent /\ key' # Absent
<1> SUFFICES ASSUME NEW n \in 1 .. built', got'[n].protocol = "hysteria"
             PROVE  cert' # Absent /\ key' # Absent
  OBVIOUS
<1>1. /\ got \in Seq({records[t] : t \in Types}) /\ Len(got) \in Nat
      /\ built \in 0 .. Len(got) /\ made \in Nat /\ made # Absent /\ Torn # Absent
  BY DEF Inv, TypeOK
<1>2. n \in 1 .. built /\ got[n].protocol = "hysteria" => cert' # Absent /\ key' # Absent
  BY FilesStay DEF FilesThere
<1>3. CASE built' = 0
  BY <1>3
<1>4. CASE UNCHANGED <<got, built>>
  BY <1>2, <1>4
<1>5. CASE Fetch
  <2>1. built' = built /\ n \in 1 .. Len(got)
    BY <1>1, <1>5 DEF Fetch
  <2>2. got'[n] = got[n]
    BY <1>1, <1>5, <2>1 DEF Fetch
  <2> QED
    BY <1>2, <2>1, <2>2
<1>6. CASE BuildInbound
  <2>1. built' = built + 1 /\ got' = got /\ got[built + 1].protocol # "hysteria"
    BY <1>6 DEF BuildInbound, Node
  <2>2. n \in 1 .. built
    BY <1>1, <2>1
  <2> QED
    BY <1>2, <2>1, <2>2
<1>7. CASE CheckPair
  <2>1. CASE cert # Absent /\ key # Absent
    BY <2>1, FilesStay
  <2>2. CASE ~(cert # Absent /\ key # Absent)
    BY <1>4, <1>7, <2>2 DEF CheckPair, Goto
  <2> QED
    BY <2>1, <2>2
<1>8. CASE WriteKey
  <2>1. cert # Absent
    BY <1>8 DEF WriteKey, Inv, PairsOK
  <2>2. cert' = cert /\ key' = made
    BY <1>8 DEF WriteKey
  <2> QED
    BY <1>1, <2>1, <2>2
<1>9. CASE Start \/ Fetched \/ OpenCert \/ WriteCert \/ OpenKey \/ OpenConfig
  BY <1>4, <1>9 DEF Start, Fetched, OpenCert, WriteCert, OpenKey, OpenConfig, Goto
<1>10. CASE IdsMissing \/ FetchFails \/ BadRecord \/ WriteConfig \/ AgentExits \/ Crash \/ ConfigCut
  BY <1>3, <1>10 DEF IdsMissing, FetchFails, BadRecord, WriteConfig, AgentExits, Crash, ConfigCut, Fail
<1>11. CASE Merge \/ RunAgent
  BY <1>3, <1>4, <1>11 DEF Merge, RunAgent, Goto, Fail
<1>12. CASE \E o \in Options : Install(o)
  BY <1>3, <1>12 DEF Install, Fail
<1>13. CASE UNCHANGED vars
  BY <1>4, <1>13 DEF vars, run
<1> QED
  BY <1>5, <1>6, <1>7, <1>8, <1>9, <1>10, <1>11, <1>12, <1>13 DEF Next, Service

\* And config.json is written when all inbounds are built.
LEMMA FilesOfConfig ==
    ASSUME Inv, FilesThere, [Next]_vars, Complete', "hysteria" \in ToSet(config'.inbounds)
    PROVE  cert' # Absent /\ key' # Absent
<1>1. CASE UNCHANGED config
  <2>1. cert # Absent /\ key # Absent
    BY <1>1 DEF FilesThere, Complete
  <2> QED
    BY <2>1, FilesStay
<1>2. CASE WriteConfig
  <2>1. /\ config' = Content /\ UNCHANGED <<cert, key>>
        /\ built = Len(got) /\ DOMAIN got = 1 .. Len(got)
    BY <1>2 DEF WriteConfig, Inv, TypeOK, BuiltIsComplete, Writing
  <2>2. PICK n \in DOMAIN got : got[n].protocol = "hysteria"
    BY <2>1 DEF Content, ToSet
  <2> QED
    BY <2>1, <2>2 DEF FilesThere
<1>3. CASE OpenConfig \/ ConfigCut \/ \E o \in Options : Install(o)
  BY <1>3 DEF OpenConfig, ConfigCut, Install, Complete
<1>4. CASE \/ Start \/ IdsMissing \/ Fetch \/ FetchFails \/ Fetched \/ BadRecord \/ BuildInbound
           \/ CheckPair \/ OpenCert \/ WriteCert \/ OpenKey \/ WriteKey
  BY <1>1, <1>4 DEF Start, IdsMissing, Fetch, FetchFails, Fetched, BadRecord, BuildInbound,
                    CheckPair, OpenCert, WriteCert, OpenKey, WriteKey, files
<1>5. CASE Merge \/ RunAgent \/ AgentExits \/ Crash
  BY <1>1, <1>5 DEF Merge, RunAgent, AgentExits, Crash, files
<1>6. CASE UNCHANGED vars
  BY <1>1, <1>6 DEF vars, files
<1> QED
  BY <1>2, <1>3, <1>4, <1>5, <1>6 DEF Next, Service

\* A complete config.json can be loaded by sing-box after any installations, crashes and
\* failed runs, if rules spell tags alike and its certificate and key, which are there if
\* it needs them, are a pair: a crash between the two files is all that stands in the way.
THEOREM ConfigLoads == Spec => []LoadsUnlessCut
<1>1. Init => FilesThere
  BY DEF Init, FilesThere, Complete
<1>2. Inv /\ FilesThere /\ [Next]_vars => FilesThere'
  BY FilesBuilt, FilesOfConfig DEF FilesThere
<1>3. FilesThere /\ RoutingIsAccepted => LoadsUnlessCut
  BY DEF FilesThere, RoutingIsAccepted, LoadsUnlessCut, Loads, Complete
<1> QED
  BY <1>1, <1>2, <1>3, Invariance, RoutingLoads, PTL DEF Spec

=============================================================================
