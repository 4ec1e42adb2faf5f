---------------------------- MODULE NaturalSets ----------------------------
(***************************************************************************)
(* Finite sets of natural numbers, which number segments, tables, the      *)
(* layers of a stack and the logs of a store: their greatest elements,     *)
(* their n-th ones, picking from sequences, division, sums over any finite *)
(* set, and that there is a function for a recursion over numbers.         *)
(***************************************************************************)
EXTENDS Subsequences, FiniteSetsExt, Functions, FiniteSetTheorems, WellFoundedInduction, TLAPS

Indices == {S \in SUBSET Nat : IsFiniteSet(S)}

LEMMA SubsetIndices ==
    ASSUME NEW S \in Indices, NEW T \in SUBSET S
    PROVE  T \in Indices
BY FS_Subset DEF Indices

LEMMA IntervalIndices ==
    ASSUME NEW m \in Nat, NEW n \in Nat
    PROVE  m..n \in Indices
BY FS_Interval DEF Indices

LEMMA AddedNumber ==
    ASSUME NEW S \in Indices, NEW g \in Nat
    PROVE  S \cup {g} \in Indices
BY FS_AddElement DEF Indices

(* A non-empty set of natural numbers below a bound has a greatest element,*)
(* and Max is that element.                                                *)
LEMMA MaxIsGreatest ==
    ASSUME NEW S \in Indices, S # {}
    PROVE  /\ Max(S) \in S
           /\ Max(S) \in Nat
           /\ \A y \in S : y <= Max(S)
<1> DEFINE Above(x) == {y \in S : y > x}
           U == {Above(x) : x \in S}
<1>1. IsFiniteSet(S) /\ S \in SUBSET Nat
  BY DEF Indices
<1>2. U \subseteq FiniteSubsetsOf(S)
  <2> SUFFICES ASSUME NEW x \in S PROVE Above(x) \in FiniteSubsetsOf(S)
    OBVIOUS
  <2>1. Above(x) \in SUBSET S
    OBVIOUS
  <2>2. IsFiniteSet(Above(x))
    BY <2>1, <1>1, FS_Subset
  <2> QED BY <2>1, <2>2 DEF FiniteSubsetsOf
<1>3. U # {}
  OBVIOUS
<1>4. PICK u \in U : \A w \in U : ~(<<w, u>> \in StrictSubsetOrdering(S))
  <2> HIDE DEF U
  <2>1. IsWellFoundedOn(StrictSubsetOrdering(S), FiniteSubsetsOf(S))
    BY FS_StrictSubsetOrderingWellFounded
  <2> QED BY <2>1, <1>2, <1>3, WFMin
<1>5. PICK x \in S : u = Above(x)
  OBVIOUS
<1>6. \A y \in S : y <= x
  <2> SUFFICES ASSUME NEW y \in S, y > x PROVE FALSE
    BY <1>1
  <2>1. y \in Above(x) /\ y \notin Above(y)
    BY <1>1
  <2>2. Above(y) \subseteq Above(x)
    <3> SUFFICES ASSUME NEW z \in S, z > y PROVE z > x
      OBVIOUS
    <3>1. x \in Int /\ y \in Int /\ z \in Int
      BY <1>1
    <3> QED BY <3>1
  <2>3. <<Above(y), Above(x)>> \in StrictSubsetOrdering(S)
    BY <2>1, <2>2 DEF StrictSubsetOrdering
  <2> QED BY <2>3, <1>4, <1>5
<1>7. \A y \in S : x >= y
  BY <1>6
<1>8. Max(S) \in S /\ \A y \in S : Max(S) >= y
  BY <1>7 DEF Max
<1> QED BY <1>1, <1>8

(* The least element, seen as the greatest of the mirrored set.            *)
LEMMA MinIsLeast ==
    ASSUME NEW S \in Indices, S # {}
    PROVE  /\ Min(S) \in S
           /\ \A y \in S : Min(S) <= y
<1> DEFINE M == Max(S)
           Mirror == {n \in 0..M : M - n \in S}
<1>1. M \in S /\ M \in Nat /\ \A y \in S : y <= M
  BY MaxIsGreatest
<1>2. S \subseteq Nat
  BY DEF Indices
<1> HIDE DEF M
<1>3. \A y \in S : M - y \in Mirror
  <2> SUFFICES ASSUME NEW y \in S PROVE M - y \in Mirror
    OBVIOUS
  <2>1. y \in Nat /\ y <= M
    BY <1>1, <1>2
  <2>2. M - y \in 0..M /\ M - (M - y) = y
    BY <1>1, <2>1
  <2> QED BY <2>2
<1>4. Mirror \in Indices
  <2>1. 0..M \in Indices
    BY <1>1, IntervalIndices
  <2> QED BY <2>1, SubsetIndices
<1>5. /\ Max(Mirror) \in Mirror
      /\ \A n \in Mirror : n <= Max(Mirror)
  <2>1. Mirror # {}
    BY <1>1, <1>3
  <2> HIDE DEF Mirror
  <2> QED BY <1>4, <2>1, MaxIsGreatest
<1>6. M - Max(Mirror) \in S /\ Max(Mirror) \in Nat
  BY <1>5
<1>7. \A y \in S : M - Max(Mirror) <= y
  <2> SUFFICES ASSUME NEW y \in S PROVE M - Max(Mirror) <= y
    OBVIOUS
  <2>1. M - y <= Max(Mirror)
    BY <1>3, <1>5
  <2> QED BY <1>1, <1>2, <1>6, <2>1
<1> QED BY <1>6, <1>7 DEF Min

(* Any non-empty set of natural numbers has a least element.               *)
LEMMA LeastOfNaturals ==
    ASSUME NEW S \in SUBSET Nat, S # {}
    PROVE  /\ Min(S) \in S
           /\ \A y \in S : Min(S) <= y
<1>1. PICK m \in S : TRUE
  OBVIOUS
<1> DEFINE T == S \cap 0..m
<1>2. T \in Indices /\ T # {}
  BY <1>1, IntervalIndices, SubsetIndices
<1>3. Min(T) \in T /\ \A y \in T : Min(T) <= y
  <2> HIDE DEF T
  <2> QED BY <1>2, MinIsLeast
<1>4. \A y \in S : Min(T) <= y
  BY <1>3
<1> QED BY <1>3, <1>4 DEF Min

-----------------------------------------------------------------------------
(* The elements of a finite set one after the other, and the elements of a *)
(* sequence with an index in it.                                           *)

Rank(S, k) == Cardinality({j \in S : j < k})

LEMMA RankType ==
    ASSUME NEW S \in Indices, NEW k \in S
    PROVE  Rank(S, k) \in 0..(Cardinality(S) - 1)
<1> DEFINE T == {j \in S : j < k}
<1>1. IsFiniteSet(S) /\ S \subseteq Nat
  BY DEF Indices
<1>2. T \subseteq S /\ T # S
  BY <1>1
<1>3. /\ Cardinality(T) <= Cardinality(S)
      /\ Cardinality(S) = Cardinality(T) => S = T
  BY <1>1, <1>2, FS_Subset
<1>4. Cardinality(T) \in Nat /\ Cardinality(S) \in Nat
  BY <1>1, <1>2, FS_Subset, FS_CardinalityType
<1> QED BY <1>2, <1>3, <1>4 DEF Rank

LEMMA RankGrows ==
    ASSUME NEW S \in Indices, NEW k \in S, NEW l \in S, k < l
    PROVE  Rank(S, k) < Rank(S, l)
<1> DEFINE K == {j \in S : j < k}
           L == {j \in S : j < l}
<1>1. IsFiniteSet(S) /\ S \subseteq Nat
  BY DEF Indices
<1>2. K \subseteq L /\ k \in L /\ k \notin K
  <2>1. k \in Nat /\ l \in Nat /\ \A j \in S : j \in Nat
    BY <1>1
  <2>2. \A j \in S : j < k => j < l
    BY <2>1
  <2>3. ~(k < k)
    BY <2>1
  <2> QED BY <2>2, <2>3
<1>3. IsFiniteSet(L) /\ K # L
  BY <1>1, <1>2, FS_Subset
<1>4. /\ Cardinality(K) <= Cardinality(L)
      /\ Cardinality(L) = Cardinality(K) => L = K
      /\ IsFiniteSet(K)
  BY <1>2, <1>3, FS_Subset
<1>5. Cardinality(K) \in Nat /\ Cardinality(L) \in Nat
  BY <1>3, <1>4, FS_CardinalityType
<1> QED BY <1>3, <1>4, <1>5 DEF Rank

(* Every rank is taken: the least one that is not would be that of the     *)
(* least element above the one before.                                     *)
LEMMA RankTaken ==
    ASSUME NEW S \in Indices, NEW n \in 0..(Cardinality(S) - 1)
    PROVE  \E k \in S : Rank(S, k) = n
<1> DEFINE Free == {m \in 0..(Cardinality(S) - 1) : \A k \in S : Rank(S, k) # m}
<1>1. IsFiniteSet(S) /\ S \subseteq Nat /\ Cardinality(S) \in Nat
  BY FS_CardinalityType DEF Indices
<1> SUFFICES ASSUME Free # {} PROVE FALSE
  OBVIOUS
<1> DEFINE m == Min(Free)
<1>2. m \in Free /\ \A y \in Free : m <= y
  <2>1. Free \in SUBSET Nat
    BY <1>1
  <2> HIDE DEF Free
  <2> QED BY <2>1, LeastOfNaturals
<1>3. m \in 0..(Cardinality(S) - 1) /\ \A k \in S : Rank(S, k) # m
  BY <1>2
<1>4. \A y \in 0..(Cardinality(S) - 1) : y < m => \E k \in S : Rank(S, k) = y
  <2> SUFFICES ASSUME NEW y \in 0..(Cardinality(S) - 1), y < m, y \in Free PROVE FALSE
    OBVIOUS
  <2>1. m <= y
    BY <1>2
  <2> QED BY <1>1, <1>3, <2>1
<1> HIDE DEF m, Free
<1>5. CASE m = 0
  <2>1. S # {}
    BY <1>1, <1>3, <1>5, FS_EmptySet
  <2>2. Min(S) \in S /\ \A y \in S : Min(S) <= y
    BY <2>1, MinIsLeast
  <2>3. \A j \in S : ~(j < Min(S))
    <3>1. \A j \in S : j \in Nat /\ Min(S) \in Nat
      BY <1>1, <2>2
    <3> QED BY <2>2, <3>1
  <2>4. Rank(S, Min(S)) = 0
    <3>1. {j \in S : j < Min(S)} = {}
      BY <2>3
    <3> QED BY <3>1, FS_EmptySet DEF Rank
  <2> QED BY <1>3, <1>5, <2>2, <2>4
<1>6. CASE m # 0
  <2>1. m - 1 \in 0..(Cardinality(S) - 1) /\ m - 1 < m
    BY <1>1, <1>3, <1>6
  <2>2. PICK k \in S : Rank(S, k) = m - 1
    BY <1>4, <2>1
  <2> DEFINE K == {j \in S : j < k}
             A == {j \in S : j > k}
  <2>3. k \in Nat /\ \A j \in S : j \in Nat
    BY <1>1
  <2>4. IsFiniteSet(K \cup {k}) /\ Cardinality(K \cup {k}) = m
    <3>1. IsFiniteSet(K) /\ k \notin K
      BY <1>1, <2>3, FS_Subset
    <3>2. Cardinality(K) = m - 1
      BY <2>2 DEF Rank
    <3>3. Cardinality(K \cup {k}) = Cardinality(K) + 1
      BY <3>1, FS_AddElement
    <3> QED BY <1>1, <1>3, <3>1, <3>2, <3>3, FS_AddElement
  <2>5. A # {}
    <3> SUFFICES ASSUME A = {} PROVE FALSE
      OBVIOUS
    <3>1. S = K \cup {k}
      <4>1. \A j \in S : j \in K \/ j = k \/ j \in A
        BY <2>3
      <4> QED BY <4>1
    <3>2. Cardinality(S) = m
      BY <2>4, <3>1
    <3> QED BY <1>1, <1>3, <3>2
  <2>6. Min(A) \in A /\ \A y \in A : Min(A) <= y
    <3>1. A \in Indices
      BY SubsetIndices
    <3> HIDE DEF A
    <3> QED BY <2>5, <3>1, MinIsLeast
  <2>7. {j \in S : j < Min(A)} = K \cup {k}
    <3>1. Min(A) \in Nat /\ k < Min(A)
      BY <1>1, <2>6
    <3>2. \A j \in S : j < Min(A) => j \notin A
      BY <2>3, <2>6, <3>1
    <3>3. \A j \in S : j < Min(A) <=> j \in K \/ j = k
      BY <2>3, <3>1, <3>2
    <3> QED BY <3>3
  <2>8. Min(A) \in S /\ Rank(S, Min(A)) = m
    BY <2>4, <2>6, <2>7 DEF Rank
  <2> QED BY <1>3, <2>8
<1> QED BY <1>5, <1>6

LEMMA NthOf ==
    ASSUME NEW S \in Indices, NEW n \in 0..(Cardinality(S) - 1)
    PROVE  Nth(S, n) \in S /\ Rank(S, Nth(S, n)) = n
<1>1. \E k \in S : Cardinality({j \in S : j < k}) = n
  BY RankTaken DEF Rank
<1> QED BY <1>1 DEF Nth, Rank

(* Counting upwards through a set of indices.                              *)
LEMMA NthAscends ==
    ASSUME NEW S \in Indices, NEW m \in 0..(Cardinality(S) - 1),
           NEW n \in 0..(Cardinality(S) - 1)
    PROVE  m < n <=> Nth(S, m) < Nth(S, n)
<1>1. /\ Nth(S, m) \in S /\ Rank(S, Nth(S, m)) = m
      /\ Nth(S, n) \in S /\ Rank(S, Nth(S, n)) = n
  BY NthOf
<1>2. Nth(S, m) \in Nat /\ Nth(S, n) \in Nat
  BY <1>1 DEF Indices
<1>3. CASE Nth(S, m) < Nth(S, n)
  <2>1. m < n
    BY <1>1, <1>3, RankGrows
  <2> QED BY <1>3, <2>1
<1>4. CASE Nth(S, n) < Nth(S, m)
  <2>1. n < m
    BY <1>1, <1>4, RankGrows
  <2> QED BY <1>2, <1>4, <2>1
<1>5. CASE Nth(S, m) = Nth(S, n)
  BY <1>1, <1>2, <1>5
<1> QED BY <1>2, <1>3, <1>4, <1>5

LEMMA NthCovers ==
    ASSUME NEW S \in Indices, NEW k \in S
    PROVE  Rank(S, k) \in 0..(Cardinality(S) - 1) /\ Nth(S, Rank(S, k)) = k
<1>1. Rank(S, k) \in 0..(Cardinality(S) - 1)
  BY RankType
<1>2. Nth(S, Rank(S, k)) \in S /\ Rank(S, Nth(S, Rank(S, k))) = Rank(S, k)
  BY <1>1, NthOf
<1>3. k \in Nat /\ Nth(S, Rank(S, k)) \in Nat
  BY <1>2 DEF Indices
<1>4. ~(k < Nth(S, Rank(S, k))) /\ ~(Nth(S, Rank(S, k)) < k)
  BY <1>1, <1>2, RankGrows
<1> QED BY <1>1, <1>3, <1>4

(* What is picked from a sequence, where it comes from, and in which order.*)
LEMMA PickOf ==
    ASSUME NEW T, NEW s \in Seq(T), NEW I \in SUBSET (DOMAIN s)
    PROVE  /\ I \in Indices
           /\ Pick(s, I) \in Seq(T)
           /\ DOMAIN Pick(s, I) = 1..Cardinality(I)
           /\ \A n \in DOMAIN Pick(s, I) :
                 Nth(I, n - 1) \in I /\ Pick(s, I)[n] = s[Nth(I, n - 1)]
           /\ \A m, n \in DOMAIN Pick(s, I) : m < n <=> Nth(I, m - 1) < Nth(I, n - 1)
           /\ \A i \in I : \E n \in DOMAIN Pick(s, I) : Nth(I, n - 1) = i
<1>1. Len(s) \in Nat /\ DOMAIN s = 1..Len(s)
  OBVIOUS
<1>2. I \in Indices
  BY <1>1, IntervalIndices, SubsetIndices
<1>3. Cardinality(I) \in Nat
  BY <1>2, FS_CardinalityType DEF Indices
<1>4. \A n \in 1..Cardinality(I) : n - 1 \in 0..(Cardinality(I) - 1)
  BY <1>3
<1>5. \A n \in 1..Cardinality(I) : Nth(I, n - 1) \in I
  BY <1>2, <1>4, NthOf
<1>6. Pick(s, I) \in [1..Cardinality(I) -> T]
  <2>1. \A n \in 1..Cardinality(I) : s[Nth(I, n - 1)] \in T
    BY <1>1, <1>5
  <2> QED BY <2>1 DEF Pick
<1>7. Pick(s, I) \in Seq(T)
  BY <1>3, <1>6
<1>8. \A m, n \in 1..Cardinality(I) : m < n <=> Nth(I, m - 1) < Nth(I, n - 1)
  <2> SUFFICES ASSUME NEW m \in 1..Cardinality(I), NEW n \in 1..Cardinality(I)
               PROVE  m < n <=> Nth(I, m - 1) < Nth(I, n - 1)
    OBVIOUS
  <2>1. m - 1 < n - 1 <=> Nth(I, m - 1) < Nth(I, n - 1)
    BY <1>2, <1>4, NthAscends
  <2> QED BY <1>3, <2>1
<1>9. \A i \in I : \E n \in 1..Cardinality(I) : Nth(I, n - 1) = i
  <2> SUFFICES ASSUME NEW i \in I PROVE \E n \in 1..Cardinality(I) : Nth(I, n - 1) = i
    OBVIOUS
  <2>1. Rank(I, i) \in 0..(Cardinality(I) - 1) /\ Nth(I, Rank(I, i)) = i
    BY <1>2, NthCovers
  <2>2. Rank(I, i) + 1 \in 1..Cardinality(I) /\ (Rank(I, i) + 1) - 1 = Rank(I, i)
    BY <1>3, <2>1
  <2> QED BY <2>1, <2>2
<1> QED BY <1>2, <1>5, <1>6, <1>7, <1>8, <1>9 DEF Pick

(* Dividing leaves a remainder.                                            *)
LEMMA Division ==
    ASSUME NEW a \in Nat, NEW b \in Nat \ {0}
    PROVE  /\ a \div b \in Nat /\ (a % b) \in 0 .. b - 1
           /\ a = b * (a \div b) + (a % b)
<1>1. a \div b \in Nat
  OBVIOUS
<1>2. (a % b) \in 0 .. b - 1
  OBVIOUS
<1>3. a = b * (a \div b) + (a % b)
  BY SMT
<1> QED BY <1>1, <1>2, <1>3

-----------------------------------------------------------------------------
(* Sums of natural numbers over a finite set.  The fold picks the elements *)
(* in an order of its own, which the sum does not depend on.               *)

First(s) == CHOOSE x \in s : TRUE

(* What the fold of a sum does with a set s, if g does the rest.           *)
SumOnce(f, g, s) == IF s = {} THEN 0 ELSE f[First(s)] + g[s \ {First(s)}]

Adds(f, S, g) == g = [s \in SUBSET S |-> SumOnce(f, g, s)]

LEMMA FirstOf ==
    ASSUME NEW s, s # {}
    PROVE  First(s) \in s
BY DEF First

LEMMA OneLess ==
    ASSUME NEW S, IsFiniteSet(S), NEW x \in S
    PROVE  /\ IsFiniteSet(S \ {x}) /\ S \ {x} \in SUBSET S
           /\ Cardinality(S) \in Nat /\ Cardinality(S \ {x}) \in Nat
           /\ Cardinality(S \ {x}) = Cardinality(S) - 1
BY FS_RemoveElement, FS_CardinalityType

LEMMA SumIsChosen ==
    ASSUME NEW f, NEW S
    PROVE  SumFunctionOnSet(f, S) = (CHOOSE g : Adds(f, S, g))[S]
BY Zenon DEF SumFunctionOnSet, FoldFunctionOnSet, MapThenFoldSet, Adds, SumOnce, First

LEMMA SumExists ==
    ASSUME NEW f, NEW S, IsFiniteSet(S)
    PROVE  \E g : Adds(f, S, g)
<1> DEFINE Upto(n, g) == \A s \in SUBSET S : Cardinality(s) <= n => g[s] = SumOnce(f, g, s)
           Bad == {n \in Nat : ~ \E g : Upto(n, g)}
<1>1. Bad = {}
  <2> SUFFICES ASSUME Bad # {} PROVE FALSE
    OBVIOUS
  <2> DEFINE m == Min(Bad)
  <2>1. m \in Bad /\ \A n \in Bad : m <= n
    BY LeastOfNaturals
  <2>2. m \in Nat
    BY <2>1
  <2> HIDE DEF m
  <2>3. CASE m = 0
    <3> DEFINE g == [s \in SUBSET S |-> 0]
    <3>1. \A s \in SUBSET S : Cardinality(s) <= 0 => s = {}
      BY FS_Subset, FS_CardinalityType, FS_EmptySet
    <3>2. Upto(0, g)
      BY <3>1 DEF SumOnce
    <3> QED BY <2>1, <2>3, <3>2
  <2>4. CASE m # 0
    <3>1. m - 1 \in Nat /\ m - 1 \notin Bad
      BY <2>1, <2>2, <2>4
    <3>2. PICK g : Upto(m - 1, g)
      BY <3>1
    <3> DEFINE h == [s \in SUBSET S |-> SumOnce(f, g, s)]
    <3>3. ASSUME NEW s \in SUBSET S, Cardinality(s) <= m
          PROVE  h[s] = SumOnce(f, h, s)
      <4>1. CASE s = {}
        BY <4>1 DEF SumOnce
      <4>2. CASE s # {}
        <5> DEFINE t == s \ {First(s)}
        <5>1. IsFiniteSet(s) /\ First(s) \in s
          BY <4>2, FS_Subset, FirstOf
        <5>2. t \in SUBSET S /\ Cardinality(t) <= m - 1
          BY <2>2, <3>3, <5>1, OneLess
        <5>3. h[t] = g[t]
          BY <3>2, <5>2
        <5> QED BY <4>2, <5>3 DEF SumOnce
      <4> QED BY <4>1, <4>2
    <3> HIDE DEF h
    <3>4. Upto(m, h)
      BY <3>3
    <3> QED BY <2>1, <3>4
  <2> QED BY <2>3, <2>4
<1>2. Cardinality(S) \in Nat
  BY FS_CardinalityType
<1>3. PICK g : Upto(Cardinality(S), g)
  BY <1>1, <1>2
<1>4. \A s \in SUBSET S : g[s] = SumOnce(f, g, s)
  BY <1>2, <1>3, FS_Subset
<1> DEFINE h == [s \in SUBSET S |-> g[s]]
<1>5. ASSUME NEW s \in SUBSET S PROVE h[s] = SumOnce(f, h, s)
  BY <1>4, <1>5 DEF SumOnce
<1>6. h = [s \in SUBSET S |-> h[s]]
  OBVIOUS
<1> HIDE DEF h
<1>7. h = [s \in SUBSET S |-> SumOnce(f, h, s)]
  BY <1>5, <1>6
<1> QED BY <1>7 DEF Adds

LEMMA SumAdds ==
    ASSUME NEW f, NEW S, IsFiniteSet(S)
    PROVE  \E g : Adds(f, S, g) /\ SumFunctionOnSet(f, S) = g[S]
<1> DEFINE g == CHOOSE h : Adds(f, S, h)
<1>1. Adds(f, S, g)
  BY SumExists
<1> QED BY <1>1, SumIsChosen

LEMMA AddsAgree ==
    ASSUME NEW f, NEW S, IsFiniteSet(S), NEW g, Adds(f, S, g),
           NEW T \in SUBSET S, NEW h, Adds(f, T, h)
    PROVE  g[T] = h[T]
<1> DEFINE Bad == {n \in Nat : \E s \in SUBSET T : Cardinality(s) = n /\ g[s] # h[s]}
<1>1. Bad = {}
  <2> SUFFICES ASSUME Bad # {} PROVE FALSE
    OBVIOUS
  <2> DEFINE m == Min(Bad)
  <2>1. m \in Bad /\ \A n \in Bad : m <= n
    BY LeastOfNaturals
  <2>2. m \in Nat
    BY <2>1
  <2> HIDE DEF m
  <2>3. PICK s \in SUBSET T : Cardinality(s) = m /\ g[s] # h[s]
    BY <2>1
  <2>4. g[s] = SumOnce(f, g, s) /\ h[s] = SumOnce(f, h, s)
    BY DEF Adds
  <2>5. s # {}
    BY <2>3, <2>4 DEF SumOnce
  <2> DEFINE t == s \ {First(s)}
  <2>6. IsFiniteSet(s) /\ First(s) \in s
    BY <2>5, FS_Subset, FirstOf
  <2>7. t \in SUBSET T /\ Cardinality(t) \in Nat /\ Cardinality(t) < m
    BY <2>2, <2>3, <2>6, OneLess
  <2>8. g[t] = h[t]
    BY <2>1, <2>2, <2>7
  <2> QED BY <2>3, <2>4, <2>5, <2>8 DEF SumOnce
<1>2. IsFiniteSet(T) /\ Cardinality(T) \in Nat
  BY FS_Subset, FS_CardinalityType
<1> QED BY <1>1, <1>2

LEMMA SumOfNone ==
    ASSUME NEW f
    PROVE  SumFunctionOnSet(f, {}) = 0
<1>1. PICK g : Adds(f, {}, g) /\ SumFunctionOnSet(f, {}) = g[{}]
  BY SumAdds, FS_EmptySet
<1>2. g[{}] = SumOnce(f, g, {})
  BY <1>1 DEF Adds
<1> QED BY <1>1, <1>2 DEF SumOnce

LEMMA SumTakesFirst ==
    ASSUME NEW f, NEW S, IsFiniteSet(S), S # {}
    PROVE  SumFunctionOnSet(f, S)
             = f[First(S)] + SumFunctionOnSet(f, S \ {First(S)})
<1> DEFINE T == S \ {First(S)}
<1>1. First(S) \in S /\ IsFiniteSet(T) /\ T \in SUBSET S
  BY FirstOf, OneLess
<1>2. PICK g : Adds(f, S, g) /\ SumFunctionOnSet(f, S) = g[S]
  BY SumAdds
<1>3. PICK h : Adds(f, T, h) /\ SumFunctionOnSet(f, T) = h[T]
  BY <1>1, SumAdds
<1> HIDE DEF T
<1>4. g[T] = h[T]
  BY <1>1, <1>2, <1>3, AddsAgree
<1>5. g[S] = SumOnce(f, g, S)
  BY <1>2 DEF Adds
<1> QED BY <1>2, <1>3, <1>4, <1>5 DEF SumOnce, T

(* A sum of natural numbers is one.                                        *)
LEMMA SumType ==
    ASSUME NEW f, NEW S, IsFiniteSet(S), \A i \in S : f[i] \in Nat
    PROVE  SumFunctionOnSet(f, S) \in Nat
<1> DEFINE Bad == {n \in Nat : \E s \in SUBSET S :
                      Cardinality(s) = n /\ SumFunctionOnSet(f, s) \notin Nat}
<1>1. Bad = {}
  <2> SUFFICES ASSUME Bad # {} PROVE FALSE
    OBVIOUS
  <2> DEFINE m == Min(Bad)
  <2>1. m \in Bad /\ \A n \in Bad : m <= n
    BY LeastOfNaturals
  <2>2. m \in Nat
    BY <2>1
  <2> HIDE DEF m
  <2>3. PICK s \in SUBSET S : Cardinality(s) = m /\ SumFunctionOnSet(f, s) \notin Nat
    BY <2>1
  <2>4. s # {}
    BY <2>3, SumOfNone
  <2> DEFINE t == s \ {First(s)}
  <2>5. IsFiniteSet(s) /\ First(s) \in s
    BY <2>4, FS_Subset, FirstOf
  <2>6. t \in SUBSET S /\ Cardinality(t) \in Nat /\ Cardinality(t) < m
    BY <2>2, <2>3, <2>5, OneLess
  <2>7. SumFunctionOnSet(f, t) \in Nat
    BY <2>1, <2>2, <2>6
  <2>8. SumFunctionOnSet(f, s) = f[First(s)] + SumFunctionOnSet(f, t)
    BY <2>4, <2>5, SumTakesFirst
  <2> QED BY <2>3, <2>5, <2>7, <2>8
<1>2. Cardinality(S) \in Nat
  BY FS_CardinalityType
<1> QED BY <1>1, <1>2

(* A sum of integers is one, and any element can be taken out of it.       *)
LEMMA IntegerSumType ==
    ASSUME NEW f, NEW S, IsFiniteSet(S), \A i \in S : f[i] \in Int
    PROVE  SumFunctionOnSet(f, S) \in Int
<1> DEFINE Bad == {n \in Nat : \E s \in SUBSET S :
                      Cardinality(s) = n /\ SumFunctionOnSet(f, s) \notin Int}
<1>1. Bad = {}
  <2> SUFFICES ASSUME Bad # {} PROVE FALSE
    OBVIOUS
  <2> DEFINE m == Min(Bad)
  <2>1. m \in Bad /\ \A n \in Bad : m <= n
    BY LeastOfNaturals
  <2>2. m \in Nat
    BY <2>1
  <2> HIDE DEF m
  <2>3. PICK s \in SUBSET S : Cardinality(s) = m /\ SumFunctionOnSet(f, s) \notin Int
    BY <2>1
  <2>4. s # {}
    BY <2>3, SumOfNone
  <2> DEFINE t == s \ {First(s)}
  <2>5. IsFiniteSet(s) /\ First(s) \in s
    BY <2>4, FS_Subset, FirstOf
  <2>6. t \in SUBSET S /\ Cardinality(t) \in Nat /\ Cardinality(t) < m
    BY <2>2, <2>3, <2>5, OneLess
  <2>7. SumFunctionOnSet(f, t) \in Int
    BY <2>1, <2>2, <2>6
  <2>8. SumFunctionOnSet(f, s) = f[First(s)] + SumFunctionOnSet(f, t)
    BY <2>4, <2>5, SumTakesFirst
  <2> QED BY <2>3, <2>5, <2>7, <2>8
<1>2. Cardinality(S) \in Nat
  BY FS_CardinalityType
<1> QED BY <1>1, <1>2

LEMMA IntegerSumTakes ==
    ASSUME NEW f, NEW S, IsFiniteSet(S), \A i \in S : f[i] \in Int, NEW y \in S
    PROVE  SumFunctionOnSet(f, S) = f[y] + SumFunctionOnSet(f, S \ {y})
<1> DEFINE Takes(s) == \A z \in s :
              SumFunctionOnSet(f, s) = f[z] + SumFunctionOnSet(f, s \ {z})
           Bad == {n \in Nat : \E s \in SUBSET S : Cardinality(s) = n /\ ~Takes(s)}
<1>1. Bad = {}
  <2> SUFFICES ASSUME Bad # {} PROVE FALSE
    OBVIOUS
  <2> DEFINE m == Min(Bad)
  <2>1. m \in Bad /\ \A n \in Bad : m <= n
    BY LeastOfNaturals
  <2>2. m \in Nat
    BY <2>1
  <2> HIDE DEF m
  <2>3. PICK s \in SUBSET S : Cardinality(s) = m /\ ~Takes(s)
    BY <2>1
  <2>4. PICK z \in s : SumFunctionOnSet(f, s) # f[z] + SumFunctionOnSet(f, s \ {z})
    BY <2>3
  <2> DEFINE x == First(s)
  <2>5. IsFiniteSet(s) /\ x \in s /\ s # {}
    BY FS_Subset, FirstOf
  <2>6. SumFunctionOnSet(f, s) = f[x] + SumFunctionOnSet(f, s \ {x})
    BY <2>5, SumTakesFirst
  <2> HIDE DEF x
  <2>7. x # z
    BY <2>4, <2>6
  <2>8. /\ s \ {x} \in SUBSET S /\ Cardinality(s \ {x}) \in Nat /\ Cardinality(s \ {x}) < m
        /\ s \ {z} \in SUBSET S /\ Cardinality(s \ {z}) \in Nat /\ Cardinality(s \ {z}) < m
        /\ IsFiniteSet((s \ {x}) \ {z})
    <3>1. /\ IsFiniteSet(s \ {x}) /\ Cardinality(s \ {x}) \in Nat
          /\ Cardinality(s \ {x}) = Cardinality(s) - 1
      BY <2>5, OneLess
    <3>2. /\ Cardinality(s \ {z}) \in Nat /\ Cardinality(s \ {z}) = Cardinality(s) - 1
      BY <2>5, OneLess
    <3>3. IsFiniteSet((s \ {x}) \ {z})
      BY <3>1, FS_Subset
    <3> QED BY <2>2, <2>3, <3>1, <3>2, <3>3
  <2>9. Takes(s \ {x}) /\ Takes(s \ {z})
    BY <2>1, <2>2, <2>8
  <2> DEFINE rest == (s \ {x}) \ {z}
  <2>10. rest = (s \ {z}) \ {x}
    OBVIOUS
  <2>11. SumFunctionOnSet(f, s \ {x}) = f[z] + SumFunctionOnSet(f, rest)
    BY <2>7, <2>9
  <2>12. SumFunctionOnSet(f, s \ {z}) = f[x] + SumFunctionOnSet(f, rest)
    BY <2>5, <2>7, <2>9, <2>10
  <2> HIDE DEF rest
  <2>13. SumFunctionOnSet(f, rest) \in Int /\ f[x] \in Int /\ f[z] \in Int
    <3>1. \A i \in rest : f[i] \in Int
      BY DEF rest
    <3> QED BY <2>5, <2>8, <3>1, IntegerSumType DEF rest
  <2> QED BY <2>4, <2>6, <2>11, <2>12, <2>13
<1>2. Cardinality(S) \in Nat
  BY FS_CardinalityType
<1>3. Takes(S)
  BY <1>1, <1>2
<1> QED BY <1>3

LEMMA SumTakes ==
    ASSUME NEW f, NEW S, IsFiniteSet(S), \A i \in S : f[i] \in Nat, NEW y \in S
    PROVE  SumFunctionOnSet(f, S) = f[y] + SumFunctionOnSet(f, S \ {y})
<1>1. \A i \in S : f[i] \in Int
  OBVIOUS
<1> QED BY <1>1, IntegerSumTakes

(* A sum only looks at the elements it is over.                            *)
LEMMA SumSame ==
    ASSUME NEW f, NEW g, NEW S, IsFiniteSet(S), \A i \in S : f[i] = g[i]
    PROVE  SumFunctionOnSet(f, S) = SumFunctionOnSet(g, S)
<1> DEFINE Bad == {n \in Nat : \E s \in SUBSET S : Cardinality(s) = n
                      /\ SumFunctionOnSet(f, s) # SumFunctionOnSet(g, s)}
<1>1. Bad = {}
  <2> SUFFICES ASSUME Bad # {} PROVE FALSE
    OBVIOUS
  <2> DEFINE m == Min(Bad)
  <2>1. m \in Bad /\ \A n \in Bad : m <= n
    BY LeastOfNaturals
  <2>2. m \in Nat
    BY <2>1
  <2> HIDE DEF m
  <2>3. PICK s \in SUBSET S : Cardinality(s) = m
            /\ SumFunctionOnSet(f, s) # SumFunctionOnSet(g, s)
    BY <2>1
  <2>4. s # {}
    BY <2>3, SumOfNone
  <2> DEFINE t == s \ {First(s)}
  <2>5. IsFiniteSet(s) /\ First(s) \in s
    BY <2>4, FS_Subset, FirstOf
  <2>6. t \in SUBSET S /\ Cardinality(t) \in Nat /\ Cardinality(t) < m
    BY <2>2, <2>3, <2>5, OneLess
  <2>7. SumFunctionOnSet(f, t) = SumFunctionOnSet(g, t)
    BY <2>1, <2>2, <2>6
  <2>8. /\ SumFunctionOnSet(f, s) = f[First(s)] + SumFunctionOnSet(f, t)
        /\ SumFunctionOnSet(g, s) = g[First(s)] + SumFunctionOnSet(g, t)
    BY <2>4, <2>5, SumTakesFirst
  <2> QED BY <2>3, <2>5, <2>7, <2>8
<1>2. Cardinality(S) \in Nat
  BY FS_CardinalityType
<1> QED BY <1>1, <1>2

(* A part of a sum is no greater.                                          *)
LEMMA SumGrows ==
    ASSUME NEW f, NEW T, IsFiniteSet(T), \A i \in T : f[i] \in Nat, NEW S \in SUBSET T
    PROVE  SumFunctionOnSet(f, S) <= SumFunctionOnSet(f, T)
<1> DEFINE Bad == {n \in Nat : \E t \in SUBSET T : /\ Cardinality(t) = n /\ S \subseteq t
                      /\ ~(SumFunctionOnSet(f, S) <= SumFunctionOnSet(f, t))}
<1>1. \A t \in SUBSET T : SumFunctionOnSet(f, t) \in Nat
  BY FS_Subset, SumType
<1>2. Bad = {}
  <2> SUFFICES ASSUME Bad # {} PROVE FALSE
    OBVIOUS
  <2> DEFINE m == Min(Bad)
  <2>1. m \in Bad /\ \A n \in Bad : m <= n
    BY LeastOfNaturals
  <2>2. m \in Nat
    BY <2>1
  <2> HIDE DEF m
  <2>3. PICK t \in SUBSET T : /\ Cardinality(t) = m /\ S \subseteq t
            /\ ~(SumFunctionOnSet(f, S) <= SumFunctionOnSet(f, t))
    BY <2>1
  <2>4. PICK y \in t : y \notin S
    <3>1. S # t
      BY <1>1, <2>3
    <3> QED BY <2>3, <3>1
  <2>5. IsFiniteSet(t)
    BY FS_Subset
  <2>6. t \ {y} \in SUBSET T /\ Cardinality(t \ {y}) \in Nat /\ Cardinality(t \ {y}) < m
    <3>1. Cardinality(t \ {y}) \in Nat /\ Cardinality(t \ {y}) = Cardinality(t) - 1
      BY <2>5, OneLess
    <3> QED BY <2>2, <2>3, <3>1
  <2>7. SumFunctionOnSet(f, S) <= SumFunctionOnSet(f, t \ {y})
    BY <2>1, <2>2, <2>3, <2>4, <2>6
  <2>8. SumFunctionOnSet(f, t) = f[y] + SumFunctionOnSet(f, t \ {y})
    BY <2>5, SumTakes
  <2> QED BY <1>1, <2>3, <2>6, <2>7, <2>8
<1>3. Cardinality(T) \in Nat
  BY FS_CardinalityType
<1> QED BY <1>2, <1>3

(* A sum does not depend on how its elements are numbered.                 *)
LEMMA SumRenumbered ==
    ASSUME NEW f, NEW g, NEW S, IsFiniteSet(S), NEW h,
           \A i \in S : f[i] \in Nat /\ f[i] = g[h[i]],
           \A i, j \in S : h[i] = h[j] => i = j
    PROVE  SumFunctionOnSet(f, S) = SumFunctionOnSet(g, {h[i] : i \in S})
<1> DEFINE Image(s) == {h[i] : i \in s}
           Bad == {n \in Nat : \E s \in SUBSET S : Cardinality(s) = n
                      /\ SumFunctionOnSet(f, s) # SumFunctionOnSet(g, Image(s))}
<1>1. Bad = {}
  <2> SUFFICES ASSUME Bad # {} PROVE FALSE
    OBVIOUS
  <2> DEFINE m == Min(Bad)
  <2>1. m \in Bad /\ \A n \in Bad : m <= n
    BY LeastOfNaturals
  <2>2. m \in Nat
    BY <2>1
  <2> HIDE DEF m
  <2>3. PICK s \in SUBSET S : Cardinality(s) = m
            /\ SumFunctionOnSet(f, s) # SumFunctionOnSet(g, Image(s))
    BY <2>1
  <2>4. s # {}
    <3>1. CASE s = {}
      <4>1. Image(s) = {}
        BY <3>1
      <4> QED BY <2>3, <3>1, <4>1, SumOfNone
    <3> QED BY <3>1
  <2>5. PICK y \in s : TRUE
    BY <2>4
  <2> DEFINE t == s \ {y}
  <2>6. IsFiniteSet(s) /\ IsFiniteSet(Image(s))
    <3>1. IsFiniteSet(s)
      BY FS_Subset
    <3>2. [i \in s |-> h[i]] \in Surjection(s, Image(s))
      BY DEF Surjection
    <3> QED BY <3>1, <3>2, FS_Surjection
  <2>7. t \in SUBSET S /\ Cardinality(t) \in Nat /\ Cardinality(t) < m
    <3>1. Cardinality(s \ {y}) \in Nat /\ Cardinality(s \ {y}) = Cardinality(s) - 1
      BY <2>6, OneLess
    <3> QED BY <2>2, <2>3, <3>1
  <2>8. SumFunctionOnSet(f, t) = SumFunctionOnSet(g, Image(t))
    <3> HIDE DEF t, Image
    <3>1. Cardinality(t) \notin Bad
      BY <2>1, <2>2, <2>7
    <3> QED BY <2>7, <3>1
  <2>9. Image(t) = Image(s) \ {h[y]}
    <3>1. \A i \in s : i # y => h[i] # h[y]
      OBVIOUS
    <3> QED BY <3>1
  <2>10. SumFunctionOnSet(f, s) = f[y] + SumFunctionOnSet(f, t)
    BY <2>6, SumTakes
  <2>11. SumFunctionOnSet(g, Image(s)) = g[h[y]] + SumFunctionOnSet(g, Image(t))
    <3>1. \A x \in Image(s) : g[x] \in Nat
      OBVIOUS
    <3>2. h[y] \in Image(s)
      OBVIOUS
    <3> HIDE DEF Image
    <3> QED BY <2>6, <2>9, <3>1, <3>2, SumTakes
  <2> QED BY <2>3, <2>8, <2>10, <2>11
<1>2. Cardinality(S) \in Nat
  BY FS_CardinalityType
<1> QED BY <1>1, <1>2

LEMMA TriplesAre ==
    ASSUME NEW A, NEW B, NEW C, NEW p \in A \X B \X C
    PROVE  p = <<p[1], p[2], p[3]>> /\ p[1] \in A /\ p[2] \in B /\ p[3] \in C
OBVIOUS

LEMMA FiniteTriples ==
    ASSUME NEW A, IsFiniteSet(A), NEW B, IsFiniteSet(B), NEW C, IsFiniteSet(C)
    PROVE  IsFiniteSet(A \X B \X C)
<1> DEFINE f == [p \in A \X B \X C |-> <<<<p[1], p[2]>>, p[3]>>]
<1>1. IsFiniteSet(A \X B)
  BY FS_Product
<1>2. IsFiniteSet((A \X B) \X C)
  BY <1>1, FS_Product
<1>3. f \in [A \X B \X C -> (A \X B) \X C]
  OBVIOUS
<1>4. \A p, q \in A \X B \X C : f[p] = f[q] => p = q
  OBVIOUS
<1> HIDE DEF f
<1>5. f \in Injection(A \X B \X C, (A \X B) \X C)
  <2> DEFINE D == A \X B \X C
             R == (A \X B) \X C
  <2>1. f \in [D -> R] /\ \A p, q \in D : f[p] = f[q] => p = q
    BY <1>3, <1>4
  <2> HIDE DEF D, R
  <2>2. f \in Injection(D, R)
    BY <2>1 DEF Injection, IsInjective
  <2> QED BY <2>2 DEF D, R
<1> QED BY <1>2, <1>5, FS_Injection

(* A function on 1..n whose values rest on values further right: it stops  *)
(* with base, or makes a step from the value where it jumps to.            *)
Jumps(n, S, stop, base, jump, step) ==
    /\ \A i \in 1..n : i \in stop => base[i] \in S
    /\ \A i \in 1..n : i \notin stop => jump[i] \in (i + 1)..n
    /\ \A i \in 1..n, x \in S : i \notin stop => step[i][x] \in S

Follows(f, n, stop, base, jump, step) ==
    \A i \in 1..n : f[i] = IF i \in stop THEN base[i] ELSE step[i][f[jump[i]]]

(* There is one.                                                           *)
LEMMA JumpRecursion ==
    ASSUME NEW n \in Nat, NEW S, NEW stop, NEW base, NEW jump, NEW step,
           Jumps(n, S, stop, base, jump, step)
    PROVE  \E f \in [1..n -> S] : Follows(f, n, stop, base, jump, step)
<1> DEFINE Holds(f, i) == f[i] = IF i \in stop THEN base[i] ELSE step[i][f[jump[i]]]
           Upto(m) == \E f \in [(n - m + 1)..n -> S] :
                         \A i \in (n - m + 1)..n : Holds(f, i)
           Bad == {m \in 0..n : ~Upto(m)}
<1>0. /\ \A i \in 1..n : i \in stop => base[i] \in S
      /\ \A i \in 1..n : i \notin stop => jump[i] \in (i + 1)..n
      /\ \A i \in 1..n, x \in S : i \notin stop => step[i][x] \in S
  BY DEF Jumps
<1>1. Bad = {}
  <2> SUFFICES ASSUME Bad # {} PROVE FALSE
    OBVIOUS
  <2>1. Bad \in SUBSET Nat
    OBVIOUS
  <2> HIDE DEF Upto
  <2>2. PICK m \in Bad : \A k \in Bad : m <= k
    BY <2>1, LeastOfNaturals
  <2>3. m \in 0..n /\ ~Upto(m)
    OBVIOUS
  <2>4. m # 0
    <3> SUFFICES ASSUME m = 0 PROVE FALSE
      OBVIOUS
    <3>1. (n - 0 + 1)..n = {}
      OBVIOUS
    <3>2. [x \in {} |-> x] \in [{} -> S]
      OBVIOUS
    <3> QED BY <2>3, <3>1, <3>2 DEF Upto
  <2>5. m - 1 \in 0..n /\ Upto(m - 1)
    BY <2>2, <2>3, <2>4
  <2> DEFINE a == n - m + 1
             old == (a + 1)..n
             new == a..n
  <2>6. a \in 1..n /\ n - (m - 1) + 1 = a + 1 /\ a \notin old /\ new = old \cup {a}
        /\ old \subseteq 1..n
    BY <2>3, <2>4
  <2>7. PICK g \in [old -> S] : \A i \in old : Holds(g, i)
    BY <2>5, <2>6 DEF Upto
  <2> DEFINE first == IF a \in stop THEN base[a] ELSE step[a][g[jump[a]]]
             f == [i \in new |-> IF i = a THEN first ELSE g[i]]
  <2>8. first \in S
    <3>1. CASE a \in stop
      BY <1>0, <2>6, <3>1
    <3>2. CASE a \notin stop
      <4>1. jump[a] \in old
        BY <1>0, <2>6, <3>2
      <4> QED BY <1>0, <2>6, <2>7, <3>2, <4>1
    <3> QED BY <3>1, <3>2
  <2>9. f \in [new -> S]
    BY <2>6, <2>7, <2>8
  <2>10. ASSUME NEW i \in new PROVE Holds(f, i)
    <3>1. \A j \in old : f[j] = g[j]
      BY <2>6
    <3>2. f[a] = first
      BY <2>6
    <3>3. i \notin stop => jump[i] \in old
      <4>1. i \in 1..n /\ a <= i
        BY <2>6
      <4>2. i \notin stop => jump[i] \in (i + 1)..n
        BY <1>0, <4>1
      <4> QED BY <2>6, <4>1, <4>2
    <3> HIDE DEF f, first, old, new
    <3>4. CASE i = a
      <4>1. first = IF a \in stop THEN base[a] ELSE step[a][g[jump[a]]]
        BY DEF first
      <4> QED BY <3>1, <3>2, <3>3, <3>4, <4>1
    <3>5. CASE i # a
      <4>1. i \in old
        BY <2>6, <3>5
      <4>2. Holds(g, i)
        BY <2>7, <4>1
      <4> QED BY <3>1, <3>3, <4>1, <4>2
    <3> QED BY <3>4, <3>5
  <2>11. Upto(m)
    BY <2>9, <2>10 DEF Upto
  <2> QED BY <2>3, <2>11
<1>2. Upto(n)
  <2> HIDE DEF Upto
  <2> QED BY <1>1
<1>3. n - n + 1 = 1
  OBVIOUS
<1> QED BY <1>2, <1>3 DEF Follows

(* A function counted up from a first value, each value a step from the    *)
(* one before.                                                             *)
CountsUp(f, n, first, step) ==
    /\ f[0] = first
    /\ \A i \in 1..n : f[i] = step[f[i - 1]]

LEMMA StepRecursion ==
    ASSUME NEW n \in Nat, NEW S, NEW first \in S, NEW step \in [S -> S]
    PROVE  \E f \in [0..n -> S] : CountsUp(f, n, first, step)
<1> DEFINE m    == n + 1
           stop == {m}
           base == [i \in 1..m |-> first]
           jump == [i \in 1..m |-> i + 1]
           go   == [i \in 1..m |-> step]
<1>1. m \in Nat
  OBVIOUS
<1>2. Jumps(m, S, stop, base, jump, go)
  BY DEF Jumps
<1>3. PICK g \in [1..m -> S] : Follows(g, m, stop, base, jump, go)
  <2> HIDE DEF m, stop, base, jump, go
  <2> QED BY <1>1, <1>2, JumpRecursion
<1>4. g[m] = first /\ \A j \in 1..n : g[j] = step[g[j + 1]]
  BY <1>3 DEF Follows
<1> DEFINE f == [i \in 0..n |-> g[m - i]]
<1>5. f \in [0..n -> S]
  BY <1>3
<1>6. f[0] = first
  BY <1>4
<1>7. ASSUME NEW i \in 1..n PROVE f[i] = step[f[i - 1]]
  <2>1. f[i] = g[m - i] /\ f[i - 1] = g[(m - i) + 1] /\ m - i \in 1..n
    OBVIOUS
  <2> QED BY <1>4, <2>1
<1> QED BY <1>5, <1>6, <1>7 DEF CountsUp
=============================================================================
