--------------------------- MODULE LayersTheorems ---------------------------
(***************************************************************************)
(* What the operators of Layers return, for every set of keys and values.  *)
(***************************************************************************)
EXTENDS Layers, NaturalSets, SequenceTheorems

(* The two ways a lookup ends: no layer holds the key, or one layer does   *)
(* and no newer one.                                                       *)
LEMMA NewestCases ==
    ASSUME NEW S \in Indices, NEW layers, NEW k
    PROVE  \/ /\ \A i \in S : layers[i][k] = Absent
              /\ Newest(layers, S, k) = Absent
           \/ \E i \in S : /\ layers[i][k] # Absent
                           /\ \A j \in S : j > i => layers[j][k] = Absent
                           /\ Newest(layers, S, k) = layers[i][k]
<1>1. CASE Holders(layers, S, k) = {}
  BY <1>1 DEF Newest, Holders
<1>2. CASE Holders(layers, S, k) # {}
  <2> DEFINE H == Holders(layers, S, k)
  <2>1. H \in Indices
    <3>1. H \in SUBSET S
      BY DEF Holders
    <3> QED BY <3>1, SubsetIndices
  <2>2. Max(H) \in H /\ Max(H) \in Nat /\ \A y \in H : y <= Max(H)
    <3> HIDE DEF H
    <3> QED BY <1>2, <2>1, MaxIsGreatest DEF H
  <2>3. Newest(layers, S, k) = layers[Max(H)][k]
    BY <1>2 DEF Newest
  <2>4. Max(H) \in S /\ layers[Max(H)][k] # Absent
    BY <2>2 DEF Holders
  <2>5. ASSUME NEW j \in S, j > Max(H) PROVE layers[j][k] = Absent
    <3>1. j \notin H
      <4> HIDE DEF H
      <4>1. S \subseteq Nat
        BY DEF Indices
      <4>2. j \in Int
        BY <4>1
      <4> QED BY <2>2, <2>5, <4>2
    <3> QED BY <3>1 DEF Holders
  <2> QED BY <2>3, <2>4, <2>5
<1> QED BY <1>1, <1>2

(* Newest is determined by the layer it comes from.                        *)
LEMMA NewestIs ==
    ASSUME NEW S \in Indices, NEW layers, NEW k,
           NEW i \in S, layers[i][k] # Absent,
           \A j \in S : j > i => layers[j][k] = Absent
    PROVE  Newest(layers, S, k) = layers[i][k]
<1>1. PICK m \in S : /\ layers[m][k] # Absent
                     /\ \A j \in S : j > m => layers[j][k] = Absent
                     /\ Newest(layers, S, k) = layers[m][k]
  BY NewestCases
<1>2. ~(i > m) /\ ~(m > i)
  BY <1>1
<1>3. i \in Int /\ m \in Int
  BY DEF Indices
<1>4. i = m
  BY <1>2, <1>3
<1> QED BY <1>1, <1>4

LEMMA NewestAbsent ==
    ASSUME NEW S \in Indices, NEW layers, NEW k,
           \A i \in S : layers[i][k] = Absent
    PROVE  Newest(layers, S, k) = Absent
BY NewestCases

(* A stack of layers answers with an entry or Absent, and merges to one.   *)
LEMMA NewestType ==
    ASSUME NEW S \in Indices, NEW layers,
           \A i \in S : layers[i] \in Layer, NEW k \in Key
    PROVE  Newest(layers, S, k) \in Entry \cup {Absent}
BY NewestCases DEF Layer

LEMMA MergeType ==
    ASSUME NEW S \in Indices, NEW layers,
           \A i \in S : layers[i] \in Layer
    PROVE  Merge(layers, S) \in Layer
BY NewestType DEF Merge, Layer

(* Newest only looks at the layers of S.                                   *)
LEMMA NewestSame ==
    ASSUME NEW S \in Indices, NEW L1, NEW L2, NEW k,
           \A i \in S : L1[i][k] = L2[i][k]
    PROVE  Newest(L1, S, k) = Newest(L2, S, k)
<1>1. CASE \A i \in S : L1[i][k] = Absent
  BY <1>1, NewestAbsent
<1>2. CASE \E i \in S : L1[i][k] # Absent
  <2>1. PICK i \in S : /\ L1[i][k] # Absent
                       /\ \A j \in S : j > i => L1[j][k] = Absent
                       /\ Newest(L1, S, k) = L1[i][k]
    BY <1>2, NewestCases
  <2>2. L2[i][k] # Absent /\ \A j \in S : j > i => L2[j][k] = Absent
    BY <2>1
  <2>3. Newest(L2, S, k) = L2[i][k]
    BY <2>2, NewestIs
  <2> QED BY <2>1, <2>3
<1> QED BY <1>1, <1>2

(* A stack cut in two: the upper part hides the lower one.                 *)
LEMMA NewestSplit ==
    ASSUME NEW S \in Indices, NEW A, NEW B, S = A \cup B,
           \A a \in A, b \in B : a < b, NEW layers, NEW k
    PROVE  Newest(layers, S, k)
             = Over(Newest(layers, B, k), Newest(layers, A, k))
<1>0. A \in Indices /\ B \in Indices
  BY SubsetIndices
<1>1. CASE \E i \in B : layers[i][k] # Absent
  <2>1. PICK i \in B : /\ layers[i][k] # Absent
                       /\ \A j \in B : j > i => layers[j][k] = Absent
                       /\ Newest(layers, B, k) = layers[i][k]
    BY <1>0, <1>1, NewestCases
  <2>2. i \in S /\ \A j \in S : j > i => layers[j][k] = Absent
    <3> SUFFICES ASSUME NEW j \in S, j > i PROVE j \in B
      BY <2>1
    <3>1. i \in Int /\ j \in Int
      BY DEF Indices
    <3> QED BY <3>1
  <2>3. Newest(layers, S, k) = layers[i][k]
    BY <2>1, <2>2, NewestIs
  <2> QED BY <2>1, <2>3 DEF Over
<1>2. CASE \A i \in B : layers[i][k] = Absent
  <2>1. Newest(layers, B, k) = Absent
    BY <1>0, <1>2, NewestAbsent
  <2>2. CASE \A i \in A : layers[i][k] = Absent
    BY <1>0, <1>2, <2>1, <2>2, NewestAbsent DEF Over
  <2>3. CASE \E i \in A : layers[i][k] # Absent
    <3>1. PICK i \in A : /\ layers[i][k] # Absent
                         /\ \A j \in A : j > i => layers[j][k] = Absent
                         /\ Newest(layers, A, k) = layers[i][k]
      BY <1>0, <2>3, NewestCases
    <3>2. \A j \in S : j > i => layers[j][k] = Absent
      BY <1>2, <3>1
    <3>3. Newest(layers, S, k) = layers[i][k]
      BY <3>1, <3>2, NewestIs
    <3> QED BY <2>1, <3>1, <3>3 DEF Over
  <2> QED BY <2>2, <2>3
<1> QED BY <1>1, <1>2

(* Layers that say nothing of k may be left out.                           *)
LEMMA NewestWiden ==
    ASSUME NEW S \in Indices, NEW T \in SUBSET S, NEW layers, NEW k,
           \A i \in S \ T : layers[i][k] = Absent
    PROVE  Newest(layers, S, k) = Newest(layers, T, k)
<1>0. T \in Indices
  BY SubsetIndices
<1>1. CASE \A i \in T : layers[i][k] = Absent
  <2>1. \A i \in S : layers[i][k] = Absent
    BY <1>1
  <2> QED BY <1>0, <1>1, <2>1, NewestAbsent
<1>2. CASE \E i \in T : layers[i][k] # Absent
  <2>1. PICK i \in T : /\ layers[i][k] # Absent
                       /\ \A j \in T : j > i => layers[j][k] = Absent
                       /\ Newest(layers, T, k) = layers[i][k]
    BY <1>0, <1>2, NewestCases
  <2>2. i \in S /\ \A j \in S : j > i => layers[j][k] = Absent
    BY <2>1
  <2> QED BY <2>1, <2>2, NewestIs
<1> QED BY <1>1, <1>2

LEMMA NewestNone ==
    ASSUME NEW layers, NEW k
    PROVE  Newest(layers, {}, k) = Absent
BY DEF Newest, Holders

LEMMA NewestOne ==
    ASSUME NEW i \in Nat, NEW layers, NEW k
    PROVE  Newest(layers, {i}, k) = layers[i][k]
<1>1. {i} \in Indices
  BY FS_Singleton DEF Indices
<1>2. CASE layers[i][k] = Absent
  BY <1>1, <1>2, NewestAbsent
<1>3. CASE layers[i][k] # Absent
  <2>1. \A j \in {i} : j > i => layers[j][k] = Absent
    OBVIOUS
  <2> QED BY <1>1, <1>3, <2>1, NewestIs
<1> QED BY <1>2, <1>3

(* Renumbering a stack changes nothing.                                    *)
LEMMA NewestShift ==
    ASSUME NEW S \in Indices, NEW T \in Indices, NEW d \in Int,
           NEW L, NEW M, NEW k,
           \A i \in S : i + d \in T /\ M[i + d][k] = L[i][k],
           \A j \in T : j - d \in S
    PROVE  Newest(L, S, k) = Newest(M, T, k)
<1>0. S \subseteq Nat /\ T \subseteq Nat
  BY DEF Indices
<1>1. \A j \in T : M[j][k] = L[j - d][k]
  <2> SUFFICES ASSUME NEW j \in T PROVE M[j][k] = L[j - d][k]
    OBVIOUS
  <2>1. (j - d) + d = j
    BY <1>0
  <2> QED BY <2>1
<1>2. CASE \A i \in S : L[i][k] = Absent
  <2>1. \A j \in T : M[j][k] = Absent
    BY <1>1, <1>2
  <2> QED BY <1>2, <2>1, NewestAbsent
<1>3. CASE \E i \in S : L[i][k] # Absent
  <2>1. PICK i \in S : /\ L[i][k] # Absent
                       /\ \A j \in S : j > i => L[j][k] = Absent
                       /\ Newest(L, S, k) = L[i][k]
    BY <1>3, NewestCases
  <2>2. i + d \in T /\ M[i + d][k] = L[i][k]
    OBVIOUS
  <2>3. ASSUME NEW j \in T, j > i + d PROVE M[j][k] = Absent
    <3>1. j - d \in S
      OBVIOUS
    <3>2. j - d > i
      BY <1>0, <2>3
    <3> QED BY <1>1, <2>1, <3>1, <3>2
  <2>4. Newest(M, T, k) = M[i + d][k]
    BY <2>1, <2>2, <2>3, NewestIs
  <2> QED BY <2>1, <2>2, <2>4
<1> QED BY <1>2, <1>3

(* The top of a stack hides the rest.                                      *)
LEMMA NewestTop ==
    ASSUME NEW S \in Indices, NEW a \in S, \A i \in S : i <= a,
           NEW layers, NEW k
    PROVE  Newest(layers, S, k)
             = Over(layers[a][k], Newest(layers, S \ {a}, k))
<1>1. S \subseteq Nat
  BY DEF Indices
<1>2. \A x \in S \ {a}, y \in {a} : x < y
  BY <1>1
<1>3. S = (S \ {a}) \cup {a}
  OBVIOUS
<1>4. Newest(layers, S, k)
        = Over(Newest(layers, {a}, k), Newest(layers, S \ {a}, k))
  BY <1>2, <1>3, NewestSplit
<1>5. Newest(layers, {a}, k) = layers[a][k]
  BY <1>1, NewestOne
<1> QED BY <1>4, <1>5

(* Part of a stack that says nothing of k says nothing of k either.        *)
LEMMA NewestBelow ==
    ASSUME NEW S \in Indices, NEW T \in SUBSET S, NEW layers, NEW k,
           Newest(layers, S, k) = Absent
    PROVE  Newest(layers, T, k) = Absent
<1>1. T \in Indices
  BY SubsetIndices
<1>2. \A i \in T : layers[i][k] = Absent
  BY NewestCases
<1> QED BY <1>1, <1>2, NewestAbsent

(* Taking the lowest layer away changes a stack only where no other layer  *)
(* has an entry.                                                           *)
LEMMA NewestWithoutLowest ==
    ASSUME NEW S \in Indices, NEW s \in Nat, \A x \in S : s <= x,
           NEW L, NEW M, NEW k, \A x \in S \ {s} : M[x][k] = L[x][k]
    PROVE  /\ s \notin S => Newest(M, S, k) = Newest(L, S, k)
           /\ Newest(M, S \ {s}, k) \in {Newest(L, S, k), Absent}
<1> DEFINE A == S \cap {s}
           B == S \ {s}
<1>1. S \subseteq Nat /\ S = A \cup B
  BY DEF Indices
<1>2. ASSUME NEW a \in A, NEW b \in B PROVE a < b
  <2>1. a = s /\ b # s /\ s <= b /\ b \in Nat
    BY <1>1
  <2> QED BY <2>1
<1>3. B \in Indices /\ \A x \in B : M[x][k] = L[x][k]
  BY SubsetIndices
<1>4. s \notin S => B = S
  OBVIOUS
<1> HIDE DEF A, B
<1>5. Newest(M, B, k) = Newest(L, B, k)
  BY <1>3, NewestSame
<1>6. Newest(L, S, k) = Over(Newest(L, B, k), Newest(L, A, k))
  BY <1>1, <1>2, NewestSplit
<1>7. Newest(M, B, k) \in {Newest(L, S, k), Absent}
  BY <1>5, <1>6 DEF Over
<1> QED BY <1>4, <1>5, <1>7 DEF B

(* A list of layers and what is put after it.                              *)
LEMMA NewestPrefix ==
    ASSUME NEW T, NEW p \in Seq(T), NEW q \in Seq(T), NEW m \in 0..Len(p), NEW k
    PROVE  Newest(p \o q, 1..m, k) = Newest(p, 1..m, k)
<1>1. m \in Nat /\ 1..m \in Indices
  BY IntervalIndices
<1>2. ASSUME NEW i \in 1..m PROVE (p \o q)[i] = p[i]
  <2>1. Len(p) \in Nat /\ Len(q) \in Nat
    OBVIOUS
  <2>2. i \in 1..(Len(p) + Len(q)) /\ i <= Len(p)
    BY <1>1, <2>1
  <2>3. (p \o q)[i] = IF i <= Len(p) THEN p[i] ELSE q[i - Len(p)]
    BY <2>2, ConcatProperties
  <2> QED BY <2>2, <2>3
<1> DEFINE S == 1..m
           L == p \o q
<1>3. S \in Indices /\ \A i \in S : L[i][k] = p[i][k]
  BY <1>1, <1>2
<1> HIDE DEF S, L
<1>4. Newest(L, S, k) = Newest(p, S, k)
  BY <1>3, NewestSame
<1> QED BY <1>4 DEF S, L

LEMMA NewestConcat ==
    ASSUME NEW T, NEW p \in Seq(T), NEW q \in Seq(T), NEW m \in 0..Len(q), NEW k
    PROVE  Newest(p \o q, 1..(Len(p) + m), k)
             = Over(Newest(q, 1..m, k), Newest(p, 1..Len(p), k))
<1> DEFINE A == 1..Len(p)
           B == (Len(p) + 1)..(Len(p) + m)
<1>1. /\ Len(p) \in Nat /\ Len(q) \in Nat /\ m \in Nat
      /\ m <= Len(q) /\ Len(p) + m \in Nat
  OBVIOUS
<1>2. 1..(Len(p) + m) \in Indices /\ 1..m \in Indices
  BY <1>1, IntervalIndices
<1>3. 1..(Len(p) + m) = A \cup B /\ \A a \in A, b \in B : a < b
  <2>1. \A n, d \in Nat : 1..(n + d) = (1..n) \cup ((n + 1)..(n + d))
    OBVIOUS
  <2>2. \A n, d \in Nat : \A a \in 1..n, b \in (n + 1)..(n + d) : a < b
    OBVIOUS
  <2>3. 1..(Len(p) + m) = (1..Len(p)) \cup ((Len(p) + 1)..(Len(p) + m))
    BY <1>1, <2>1
  <2>4. \A a \in 1..Len(p), b \in (Len(p) + 1)..(Len(p) + m) : a < b
    BY <1>1, <2>2
  <2> QED BY <2>3, <2>4
<1>4. B \in Indices
  BY <1>2, <1>3, SubsetIndices
<1>5. Newest(p \o q, 1..(Len(p) + m), k)
        = Over(Newest(p \o q, B, k), Newest(p \o q, A, k))
  <2> DEFINE S == 1..(Len(p) + m)
             L == p \o q
  <2>1. S \in Indices /\ S = A \cup B /\ \A a \in A, b \in B : a < b
    BY <1>2, <1>3
  <2> HIDE DEF A, B, S, L
  <2>2. Newest(L, S, k) = Over(Newest(L, B, k), Newest(L, A, k))
    BY <2>1, NewestSplit
  <2> QED BY <2>2 DEF S, L
<1>6. Newest(p \o q, A, k) = Newest(p, A, k)
  BY <1>1, NewestPrefix
<1>7. Newest(q, 1..m, k) = Newest(p \o q, B, k)
  <2>1. ASSUME NEW i \in 1..m
        PROVE  i + Len(p) \in B /\ (p \o q)[i + Len(p)] = q[i]
    <3>1. /\ i + Len(p) \in 1..(Len(p) + Len(q)) /\ i + Len(p) \in B
          /\ ~(i + Len(p) <= Len(p)) /\ (i + Len(p)) - Len(p) = i
      BY <1>1
    <3>2. (p \o q)[i + Len(p)]
            = IF i + Len(p) <= Len(p) THEN p[i + Len(p)] ELSE q[(i + Len(p)) - Len(p)]
      BY <3>1, ConcatProperties
    <3> QED BY <3>1, <3>2
  <2>2. \A j \in B : j - Len(p) \in 1..m
    BY <1>1
  <2> DEFINE S == 1..m
             L == p \o q
             d == Len(p)
  <2>3. S \in Indices /\ B \in Indices /\ d \in Int
    BY <1>1, <1>2, <1>4
  <2>4. \A i \in S : i + d \in B /\ L[i + d][k] = q[i][k]
    BY <2>1
  <2>5. \A j \in B : j - d \in S
    BY <2>2
  <2> HIDE DEF B, S, L, d
  <2>6. Newest(q, S, k) = Newest(L, B, k)
    BY <2>3, <2>4, <2>5, NewestShift
  <2> QED BY <2>6 DEF S, L
<1> QED BY <1>5, <1>6, <1>7

(* Hiding is associative, and Absent hides nothing.                        *)
LEMMA OverAssociative ==
    ASSUME NEW a, NEW b, NEW c
    PROVE  /\ Over(Over(a, b), c) = Over(a, Over(b, c))
           /\ Over(a, Absent) = a
           /\ Over(Absent, a) = a
BY DEF Over

(* What a reader is told depends on the layer below only through its       *)
(* answer.                                                                 *)
LEMMA AnswerOver ==
    ASSUME NEW a, NEW b, NEW c, Answer(b) = Answer(c)
    PROVE  Answer(Over(a, b)) = Answer(Over(a, c))
BY DEF Over

LEMMA OverType ==
    ASSUME NEW a \in Entry \cup {Absent}, NEW b \in Entry \cup {Absent}
    PROVE  Over(a, b) \in Entry \cup {Absent}
BY DEF Over

LEMMA OverlayType ==
    ASSUME NEW below \in Layer, NEW above \in Layer
    PROVE  Overlay(below, above) \in Layer
BY DEF Overlay, Over, Layer

LEMMA AnswerType ==
    ASSUME NEW e \in Entry \cup {Absent}
    PROVE  Answer(e) \in Answers
BY DEF Answer, Answers, Entry

LEMMA RecordType ==
    ASSUME NEW k \in Key, NEW e \in Entry
    PROVE  Record(k, e) \in Layer
BY DEF Record, EmptyLayer, Layer

LEMMA EmptyLayerType == EmptyLayer \in Layer
BY DEF EmptyLayer, Layer
=============================================================================
