---------------------------- MODULE NumberProofs ----------------------------
(***************************************************************************)
(* Facts about the least and the greatest element of a set of numbers that *)
(* the proofs about ids and lengths share.                                 *)
(***************************************************************************)
EXTENDS Integers, FiniteSetsExt, FiniteSetTheorems, WellFoundedInduction, TLAPS

\* A nonempty set of naturals has a least element, which Min picks.
LEMMA MinOfNaturals ==
  ASSUME NEW S, S \subseteq Nat, S # {}
  PROVE  Min(S) \in S /\ \A y \in S : Min(S) <= y
<1> DEFINE R == OpToRel(<, Nat)
<1>1. IsWellFoundedOn(R, Nat)
  BY NatLessThanWellFounded, Zenon
<1> HIDE DEF R
<1>2. PICK x \in S : \A y \in S : ~(<<y, x>> \in R)
  BY <1>1, WFMin, Zenon
<1>3. \A y \in S : x <= y
  <2> SUFFICES ASSUME NEW y \in S, ~(x <= y)
               PROVE  FALSE
    OBVIOUS
  <2>1. x \in Nat /\ y \in Nat /\ y < x
    OBVIOUS
  <2>2. <<y, x>> \in R
    BY <2>1 DEF R, OpToRel
  <2> QED
    BY <1>2, <2>2
<1> QED
  BY <1>3, Zenon DEF Min

LEMMA MaxOfTwo ==
  ASSUME NEW a \in Int, NEW b \in Int
  PROVE  Max({a, b}) \in {a, b} /\ Max({a, b}) >= a /\ Max({a, b}) >= b
<1>1. \E x \in {a, b} : \A y \in {a, b} : x >= y
  OBVIOUS
<1> QED
  BY <1>1 DEF Max

LEMMA MinOfTwo ==
  ASSUME NEW a \in Int, NEW b \in Int
  PROVE  Min({a, b}) \in {a, b}
<1>1. \E x \in {a, b} : \A y \in {a, b} : x <= y
  OBVIOUS
<1> QED
  BY <1>1 DEF Min

\* A nonempty finite set of naturals has a greatest element: a smallest set
\* without one would still have none after one of its elements is removed.
LEMMA MaxOfNaturals ==
  ASSUME NEW S, S \subseteq Nat, S # {}, IsFiniteSet(S)
  PROVE  Max(S) \in S /\ \A y \in S : Max(S) >= y
<1> DEFINE HasGreatest(T) == \E x \in T : \A y \in T : x >= y
           Without == {T \in SUBSET S : T # {} /\ ~HasGreatest(T)}
           Sizes == {Cardinality(T) : T \in Without}
<1>1. \A T \in SUBSET S : IsFiniteSet(T) /\ Cardinality(T) \in Nat
  BY FS_Subset, FS_CardinalityType, Zenon
<1>2. Without = {}
  <2> SUFFICES ASSUME Without # {}
               PROVE  FALSE
    OBVIOUS
  <2>1. Sizes \subseteq Nat /\ Sizes # {}
    BY <1>1
  <2> HIDE DEF Sizes
  <2>2. Min(Sizes) \in Sizes /\ \A n \in Sizes : Min(Sizes) <= n
    BY <2>1, MinOfNaturals, Zenon
  <2>3. PICK T \in Without : \A U \in Without : Cardinality(T) <= Cardinality(U)
    BY <2>2, Zenon DEF Sizes
  <2>4. PICK x \in T : TRUE
    BY Zenon
  <2> DEFINE U == T \ {x}
  <2>5. U \in SUBSET S /\ Cardinality(U) = Cardinality(T) - 1 /\ Cardinality(T) \in Nat
    BY <1>1, <2>4, FS_RemoveElement
  <2>6. Cardinality(U) < Cardinality(T)
    BY <2>5
  <2>7. U \notin Without
    <3> HIDE DEF U
    <3> QED
      BY <1>1, <2>3, <2>5, <2>6
  <2>8. CASE U = {}
    BY <2>4, <2>8
  <2>9. CASE U # {}
    <3>1. PICK z \in U : \A y \in U : z >= y
      BY <2>5, <2>7, <2>9
    <3>2. HasGreatest(T)
      <4>1. x \in Nat /\ z \in Nat /\ T \subseteq Nat
        BY <2>4
      <4>2. CASE x >= z
        BY <2>4, <3>1, <4>1, <4>2
      <4>3. CASE ~(x >= z)
        BY <2>4, <3>1, <4>1, <4>3
      <4> QED
        BY <4>2, <4>3
    <3> QED
      BY <3>2
  <2> QED
    BY <2>8, <2>9
<1>3. HasGreatest(S)
  BY <1>2
<1> QED
  BY <1>3, Zenon DEF Max

\* One more than the largest id of a table is the id of no record.
LEMMA IdAfterLargest ==
  ASSUME NEW T, NEW N \in Nat, \A r \in T : r.id \in 1 .. N
  PROVE  /\ 1 + Max({0} \cup {r.id : r \in T}) \in Nat \ {0}
         /\ \A r \in T : r.id # 1 + Max({0} \cup {q.id : q \in T})
<1> DEFINE S == {0} \cup {r.id : r \in T}
<1>1. S \subseteq 0 .. N /\ S # {}
  OBVIOUS
<1>2. \A r \in T : r.id \in S
  OBVIOUS
<1> HIDE DEF S
<1>3. S \in SUBSET Nat /\ \A k \in S : k <= N
  BY <1>1
<1>4. IsFiniteSet(S)
  BY <1>3, FS_BoundedSetOfNaturals
<1>5. Max(S) \in Nat /\ \A y \in S : Max(S) >= y
  BY <1>1, <1>3, <1>4, MaxOfNaturals, Zenon
<1>6. 1 + Max(S) \in Nat \ {0} /\ \A r \in T : r.id # 1 + Max(S)
  BY <1>2, <1>3, <1>5
<1> QED
  BY <1>6 DEF S

\* Division with remainder, by the least multiple that exceeds n.
LEMMA Division ==
  ASSUME NEW n \in Nat, NEW d \in Nat \ {0}
  PROVE  \E q \in Nat, r \in 0 .. (d - 1) : n = q * d + r
<1> DEFINE S == {q \in Nat : n < q * d + d}
<1>1. n * d \in Nat /\ n < n * d + d
  OBVIOUS
<1>2. S \subseteq Nat /\ S # {}
  BY <1>1
<1>3. Min(S) \in S /\ \A y \in S : Min(S) <= y
  <2> HIDE DEF S
  <2> QED
    BY <1>2, MinOfNaturals, Zenon
<1>4. PICK q \in Nat : q = Min(S)
  BY <1>2, <1>3, Zenon
<1>5. n < q * d + d /\ \A y \in Nat : n < y * d + d => q <= y
  BY <1>3, <1>4
<1> HIDE DEF S
<1>6. q * d \in Nat
  OBVIOUS
<1>7. q * d <= n
  <2>1. CASE q = 0
    BY <2>1
  <2>2. CASE q # 0
    <3>1. PICK p \in Nat : q = p + 1
      <4>1. q - 1 \in Nat /\ q = (q - 1) + 1
        BY <2>2
      <4> QED
        BY <4>1
    <3>2. q * d = p * d + d /\ p * d \in Nat
      BY <3>1
    <3>3. ~(n < p * d + d)
      BY <1>5, <3>1
    <3> QED
      BY <3>2, <3>3
  <2> QED
    BY <2>1, <2>2
<1>8. n - q * d \in 0 .. (d - 1) /\ n = q * d + (n - q * d)
  BY <1>5, <1>6, <1>7
<1> QED
  BY <1>8

\* Multiples of d are at least d apart.
LEMMA Multiples ==
  ASSUME NEW x \in Nat, NEW y \in Nat, NEW d \in Nat, x < y
  PROVE  x * d + d <= y * d
<1>1. PICK z \in Nat : y = x + 1 + z
  <2>1. y - x - 1 \in Nat /\ y = x + 1 + (y - x - 1)
    OBVIOUS
  <2> QED
    BY <2>1
<1>2. y * d = x * d + d + z * d /\ z * d \in Nat /\ x * d \in Nat
  BY <1>1
<1> QED
  BY <1>2

\* What is below a multiple of d has fewer whole d's in it.
LEMMA BelowMultiple ==
  ASSUME NEW q \in Nat, NEW m \in Nat, NEW d \in Nat \ {0}, NEW r \in Nat, q * d + r < m * d
  PROVE  q < m
<1> SUFFICES ASSUME m <= q
             PROVE  FALSE
  OBVIOUS
<1>1. q * d \in Nat /\ m * d \in Nat
  OBVIOUS
<1>2. CASE m < q
  BY <1>1, <1>2, Multiples
<1>3. CASE m = q
  BY <1>1, <1>3
<1> QED
  BY <1>2, <1>3

=============================================================================
