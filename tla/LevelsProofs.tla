---------------------------- MODULE LevelsProofs ----------------------------
(***************************************************************************)
(* Theorems of the table list: for any keys, thresholds, sizes, numbers of *)
(* workers, failures and damage, through compactions, crashes and repairs. *)
(*                                                                         *)
(* The invariant LevelsInv says of the list that its entries fit, of a     *)
(* compaction under way that its outputs may take the place of its inputs, *)
(* and of the damage that what is lost is known to be.  What a lookup      *)
(* finds is Newest of Layers, so that most of the argument is about how    *)
(* Newest behaves when a list is picked from, added to and cut.            *)
(***************************************************************************)
EXTENDS Repair, LayersTheorems

-----------------------------------------------------------------------------
(* Keys of tables and their ranges.                                        *)

Above(A, B) == \A a \in A, b \in B : a > b
Apart(A, B) == Above(A, B) \/ Above(B, A)

LEMMA LevelsTypes ==
    /\ Key \subseteq Nat \ {0} /\ Key \in Indices
    /\ {BaseSize, MaxInt, Workers, TaskSize, BlockSize} \subseteq Nat \ {0}
    /\ MaxTable \in Nat
    /\ Batches \subseteq Layer \ {EmptyLayer}
    /\ LogKey \subseteq Key
    /\ \A n \in Levelings : n \in Nat /\ n >= 2
BY LevelsAssumption DEF Indices

LEMMA KeysOfTypes ==
    ASSUME NEW layer
    PROVE  /\ KeysOf(layer) \in Indices /\ KeysOf(layer) \subseteq Key
           /\ IsFiniteSet(KeysOf(layer)) /\ Cardinality(KeysOf(layer)) \in Nat
<1>1. KeysOf(layer) \subseteq Key
  BY DEF KeysOf
<1>2. KeysOf(layer) \in Indices
  BY <1>1, LevelsTypes, SubsetIndices
<1> QED BY <1>1, <1>2, FS_CardinalityType DEF Indices

(* Comparing the smallest and the largest keys compares all of them.       *)
LEMMA RangesApart ==
    ASSUME NEW t, NEW u, KeysOf(files[t]) # {}, KeysOf(files[u]) # {}
    PROVE  RangesOverlap(MinKey(t), MaxKey(t), MinKey(u), MaxKey(u))
             <=> ~Apart(KeysOf(files[t]), KeysOf(files[u]))
<1> DEFINE A == KeysOf(files[t])
           B == KeysOf(files[u])
<1>1. A \in Indices /\ B \in Indices
  BY KeysOfTypes
<1>2. /\ Min(A) \in A /\ Max(A) \in A /\ \A a \in A : Min(A) <= a /\ a <= Max(A)
      /\ Min(B) \in B /\ Max(B) \in B /\ \A b \in B : Min(B) <= b /\ b <= Max(B)
  BY <1>1, MinIsLeast, MaxIsGreatest
<1>3. A \subseteq Nat /\ B \subseteq Nat
  BY <1>1 DEF Indices
<1> HIDE DEF A, B
<1>4. Min(A) > Max(B) => Above(A, B)
  <2> SUFFICES ASSUME Min(A) > Max(B), NEW a \in A, NEW b \in B PROVE a > b
    BY DEF Above
  <2>1. Min(A) <= a /\ b <= Max(B) /\ {a, b, Min(A), Max(B)} \subseteq Nat
    BY <1>2, <1>3
  <2> QED BY <2>1
<1>5. Min(B) > Max(A) => Above(B, A)
  <2> SUFFICES ASSUME Min(B) > Max(A), NEW a \in A, NEW b \in B PROVE b > a
    BY DEF Above
  <2>1. Min(B) <= b /\ a <= Max(A) /\ {a, b, Min(B), Max(A)} \subseteq Nat
    BY <1>2, <1>3
  <2> QED BY <2>1
<1>6. /\ Above(A, B) => Min(A) > Max(B)
      /\ Above(B, A) => Min(B) > Max(A)
  BY <1>2 DEF Above
<1>7. {Min(A), Max(A), Min(B), Max(B)} \subseteq Nat
  BY <1>2, <1>3
<1> QED BY <1>4, <1>5, <1>6, <1>7 DEF RangesOverlap, Apart, MinKey, MaxKey, A, B

-----------------------------------------------------------------------------
(* Planning.                                                               *)

LEMMA MinOfTwo ==
    ASSUME NEW a \in Nat, NEW b \in Nat
    PROVE  /\ Min({a, b}) \in Nat /\ Min({a, b}) <= a /\ Min({a, b}) <= b
           /\ Min({a, b}) \in {a, b}
<1>1. {a} \in Indices /\ {b} \in Indices /\ {a, b} = {a} \cup {b}
  BY FS_Singleton DEF Indices
<1>2. {a, b} \in Indices
  BY <1>1, FS_Union DEF Indices
<1> QED BY <1>2, MinIsLeast

LEMMA MaxOfTwo ==
    ASSUME NEW a \in Nat, NEW b \in Nat
    PROVE  /\ Max({a, b}) \in Nat /\ Max({a, b}) >= a /\ Max({a, b}) >= b
           /\ Max({a, b}) \in {a, b}
<1>1. {a} \in Indices /\ {b} \in Indices /\ {a, b} = {a} \cup {b}
  BY FS_Singleton DEF Indices
<1>2. {a, b} \in Indices
  BY <1>1, FS_Union DEF Indices
<1> QED BY <1>2, MaxIsGreatest

LEMMA WorkersNeeded ==
    ASSUME NEW inputs \in SUBSET (DOMAIN list), IsFiniteSet(inputs)
    PROVE  WorkerCount(inputs) \in Nat \ {0}
<1> DEFINE size == SumFunctionOnSet(Sizes, inputs)
<1>1. \A i \in inputs : Sizes[i] \in Nat
  BY KeysOfTypes DEF Sizes
<1>2. size \in Nat
  BY <1>1, SumType
<1> HIDE DEF size
<1>3. Workers \in Nat \ {0} /\ TaskSize \in Nat \ {0}
  BY LevelsTypes
<1>4. size + TaskSize - 1 \in Nat
  BY <1>2, <1>3
<1>5. (size + TaskSize - 1) \div TaskSize \in Nat
  BY <1>3, <1>4, Division
<1>6. Min({Workers, (size + TaskSize - 1) \div TaskSize}) \in Nat
  BY <1>3, <1>5, MinOfTwo
<1>7. Max({1, Min({Workers, (size + TaskSize - 1) \div TaskSize})}) \in Nat \ {0}
  BY <1>6, MaxOfTwo
<1> QED BY <1>7 DEF WorkerCount, size

(* A share of n things for the task-th of tasks tasks.                     *)
LEMMA ShareBelow ==
    ASSUME NEW n \in Nat \ {0}, NEW tasks \in Nat \ {0}, NEW task \in 0..(tasks - 1)
    PROVE  (task * n) \div tasks \in 0..(n - 1)
<1>1. task \in Nat /\ task < tasks /\ task * n \in Nat
  OBVIOUS
<1>2. task * n < tasks * n
  <2> DEFINE d == tasks - task
  <2>1. d \in Nat /\ d >= 1 /\ tasks = d + task
    BY <1>1
  <2> HIDE DEF d
  <2>2. d * n >= n /\ d * n \in Nat
    <3>1. d - 1 \in Nat /\ d = (d - 1) + 1
      BY <2>1
    <3>2. d * n = (d - 1) * n + n /\ (d - 1) * n \in Nat
      BY <3>1
    <3> QED BY <3>2
  <2>3. (d + task) * n = d * n + task * n
    BY <1>1, <2>1
  <2>4. tasks * n = d * n + task * n
    BY <2>1, <2>3
  <2> QED BY <1>1, <2>2, <2>4
<1> DEFINE p == task * n
           q == p \div tasks
<1>3. q \in Nat /\ p % tasks \in 0..(tasks - 1) /\ p = tasks * q + (p % tasks)
  <2>1. p \in Nat
    BY <1>1
  <2> HIDE DEF p
  <2>2. /\ p \div tasks \in Nat /\ p % tasks \in 0..(tasks - 1)
        /\ p = tasks * (p \div tasks) + (p % tasks)
    BY <2>1, Division
  <2> HIDE DEF q
  <2> QED BY <2>2 DEF q
<1>4. q < n
  <2> HIDE DEF p, q
  <2> SUFFICES ASSUME q >= n PROVE FALSE
    BY <1>3
  <2>1. tasks * q >= tasks * n
    <3> DEFINE d == q - n
    <3>1. d \in Nat /\ q = n + d
      BY <1>3
    <3> HIDE DEF d
    <3>2. tasks * q = tasks * n + tasks * d /\ tasks * d \in Nat
      BY <3>1
    <3> QED BY <3>2
  <2>2. p < tasks * n
    BY <1>2 DEF p
  <2>3. tasks * q \in Nat /\ tasks * n \in Nat /\ p \in Nat
    BY <1>1, <1>3 DEF p
  <2> QED BY <1>3, <2>1, <2>2, <2>3
<1> QED BY <1>3, <1>4 DEF q

LEMMA CutsAreKeys ==
    ASSUME NEW inputs \in SUBSET (DOMAIN list), IsFiniteSet(inputs)
    PROVE  Cuts(inputs) \subseteq Nat
<1> DEFINE starts == UNION {FirstKeys(list[i].id) : i \in inputs}
           tasks == Min({WorkerCount(inputs), Cardinality(starts)})
<1>1. starts \subseteq Key
  BY KeysOfTypes DEF FirstKeys
<1>2. starts \in Indices
  BY <1>1, LevelsTypes, SubsetIndices
<1>3. Cardinality(starts) \in Nat
  BY <1>2, FS_CardinalityType DEF Indices
<1> HIDE DEF starts
<1>4. ASSUME ~(Cardinality(starts) < 2), NEW task \in 1..(tasks - 1)
      PROVE  Nth(starts, (task * Cardinality(starts)) \div tasks) \in Nat
  <2>1. WorkerCount(inputs) \in Nat \ {0}
    BY WorkersNeeded
  <2>2. tasks \in Nat \ {0}
    BY <1>3, <1>4, <2>1, MinOfTwo
  <2> HIDE DEF tasks
  <2>3. task \in 0..(tasks - 1)
    BY <1>4, <2>2
  <2>4. (task * Cardinality(starts)) \div tasks \in 0..(Cardinality(starts) - 1)
    BY <1>3, <1>4, <2>2, <2>3, ShareBelow
  <2>5. Nth(starts, (task * Cardinality(starts)) \div tasks) \in starts
    BY <1>2, <2>4, NthOf
  <2> QED BY <1>2, <2>5 DEF Indices
<1>5. Cuts(inputs) = IF Cardinality(starts) < 2 THEN {}
                     ELSE {Nth(starts, (task * Cardinality(starts)) \div tasks) :
                              task \in 1..(tasks - 1)}
  BY DEF Cuts, starts
<1> HIDE DEF tasks
<1> QED BY <1>4, <1>5

-----------------------------------------------------------------------------
(* Splitting and merging.                                                  *)

LEMMA RangeGrows ==
    ASSUME NEW cuts \in SUBSET Nat, NEW k \in Nat, NEW l \in Nat, k <= l
    PROVE  RangeOf(cuts, k) \in 0..(k + 1) /\ RangeOf(cuts, k) <= RangeOf(cuts, l)
<1> DEFINE K == {c \in cuts : c <= k}
           L == {c \in cuts : c <= l}
<1>1. K \subseteq L /\ K \subseteq 0..k /\ L \subseteq 0..l
  <2>1. \A c \in cuts : c \in Nat
    OBVIOUS
  <2>2. \A c \in cuts : c <= k => c <= l /\ c \in 0..k
    BY <2>1
  <2>3. \A c \in cuts : c <= l => c \in 0..l
    BY <2>1
  <2> QED BY <2>2, <2>3
<1>2. IsFiniteSet(0..k) /\ Cardinality(0..k) = k + 1 /\ IsFiniteSet(0..l)
  BY FS_Interval
<1>3. IsFiniteSet(L) /\ Cardinality(K) <= Cardinality(L)
  BY <1>1, <1>2, FS_Subset
<1>4. Cardinality(K) \in Nat /\ Cardinality(K) <= k + 1
  BY <1>1, <1>2, FS_Subset, FS_CardinalityType
<1> QED BY <1>3, <1>4 DEF RangeOf

Ascending(outputs) ==
    \A i, j \in DOMAIN outputs :
        i < j => Above(KeysOf(outputs[j]), KeysOf(outputs[i]))

(* Every key goes to one output, whose other keys are of its range.        *)
LEMMA SplitOf ==
    ASSUME NEW layer \in Layer, NEW cuts \in SUBSET Nat
    PROVE  /\ Split(layer, cuts) \in Seq(Layer)
           /\ \A j \in DOMAIN Split(layer, cuts) : KeysOf(Split(layer, cuts)[j]) # {}
           /\ Ascending(Split(layer, cuts))
           /\ \A k \in Key :
                 Newest(Split(layer, cuts), DOMAIN Split(layer, cuts), k) = layer[k]
<1> DEFINE ranges == {RangeOf(cuts, k) : k \in KeysOf(layer)}
           n == Cardinality(ranges)
           part(j) == [k \in Key |-> IF RangeOf(cuts, k) = Nth(ranges, j - 1)
                                     THEN layer[k] ELSE Absent]
           outputs == [j \in 1..n |-> part(j)]
<1>1. Split(layer, cuts) = outputs
  BY DEF Split
<1>2. Key \subseteq Nat \ {0} /\ KeysOf(layer) \subseteq Key /\ Key \in Indices
  BY LevelsTypes, KeysOfTypes
<1>3. ranges \in Indices
  <2>1. CASE Key = {}
    <3>1. ranges = {}
      BY <1>2, <2>1
    <3> QED BY <3>1, FS_EmptySet DEF Indices
  <2>2. CASE Key # {}
    <3>1. Max(Key) \in Nat /\ \A k \in Key : k <= Max(Key)
      BY <1>2, <2>2, MaxIsGreatest
    <3>2. ASSUME NEW k \in Key PROVE RangeOf(cuts, k) \in 0..(Max(Key) + 1)
      <4>1. RangeOf(cuts, k) \in 0..(k + 1)
        BY <1>2, RangeGrows
      <4>2. k \in Nat /\ k <= Max(Key)
        BY <1>2, <3>1
      <4> QED BY <3>1, <4>1, <4>2
    <3>3. ranges \subseteq 0..(Max(Key) + 1)
      BY <1>2, <3>2
    <3>4. 0..(Max(Key) + 1) \in Indices
      BY <3>1, IntervalIndices
    <3> HIDE DEF ranges
    <3> QED BY <3>3, <3>4, SubsetIndices
  <2> QED BY <2>1, <2>2
<1>4. n \in Nat
  BY <1>3, FS_CardinalityType DEF Indices
<1>5. \A j \in 1..n : j - 1 \in 0..(n - 1) /\ Nth(ranges, j - 1) \in ranges
  <2> HIDE DEF ranges
  <2> QED BY <1>3, <1>4, NthOf
<1>6. \A j \in 1..n : part(j) \in Layer
  BY DEF Layer
<1>7. outputs \in Seq(Layer) /\ DOMAIN outputs = 1..n
  <2> HIDE DEF part, ranges, n
  <2> QED BY <1>4, <1>6
<1>8. \A j \in 1..n : \A k \in Key :
        outputs[j][k] = IF RangeOf(cuts, k) = Nth(ranges, j - 1) THEN layer[k] ELSE Absent
  OBVIOUS
<1> HIDE DEF outputs, part
<1>9. ASSUME NEW j \in 1..n PROVE KeysOf(outputs[j]) # {}
  <2>1. PICK k \in KeysOf(layer) : RangeOf(cuts, k) = Nth(ranges, j - 1)
    BY <1>5
  <2>2. k \in Key /\ layer[k] # Absent
    BY <1>2 DEF KeysOf
  <2>3. outputs[j][k] # Absent
    BY <1>8, <2>1, <2>2
  <2> QED BY <2>2, <2>3 DEF KeysOf
<1>10. ASSUME NEW i \in 1..n, NEW j \in 1..n, i < j,
              NEW a \in KeysOf(outputs[j]), NEW b \in KeysOf(outputs[i])
       PROVE  a > b
  <2>1. a \in Key /\ b \in Key /\ outputs[j][a] # Absent /\ outputs[i][b] # Absent
    BY DEF KeysOf
  <2>2. RangeOf(cuts, a) = Nth(ranges, j - 1) /\ RangeOf(cuts, b) = Nth(ranges, i - 1)
    BY <1>8, <2>1
  <2>3. Nth(ranges, i - 1) < Nth(ranges, j - 1)
    <3>1. i - 1 \in 0..(n - 1) /\ j - 1 \in 0..(n - 1) /\ i - 1 < j - 1
      BY <1>4, <1>5, <1>10
    <3> HIDE DEF ranges
    <3> QED BY <1>3, <3>1, NthAscends
  <2>4. a \in Nat /\ b \in Nat
    BY <1>2, <2>1
  <2>5. a <= b => RangeOf(cuts, a) <= RangeOf(cuts, b)
    BY <2>4, RangeGrows
  <2>6. RangeOf(cuts, a) \in Nat /\ RangeOf(cuts, b) \in Nat
    BY <2>4, RangeGrows
  <2> QED BY <2>2, <2>3, <2>4, <2>5, <2>6
<1>11. Ascending(outputs)
  BY <1>7, <1>10 DEF Ascending, Above
<1>12. 1..n \in Indices
  BY <1>4, IntervalIndices
<1>13. ASSUME NEW k \in Key PROVE Newest(outputs, 1..n, k) = layer[k]
  <2>1. CASE layer[k] = Absent
    <3>1. \A j \in 1..n : outputs[j][k] = Absent
      BY <1>8, <2>1
    <3> QED BY <1>12, <2>1, <3>1, NewestAbsent
  <2>2. CASE layer[k] # Absent
    <3>1. RangeOf(cuts, k) \in ranges
      BY <2>2 DEF KeysOf
    <3> DEFINE r == Rank(ranges, RangeOf(cuts, k))
    <3>2. r \in 0..(n - 1) /\ Nth(ranges, r) = RangeOf(cuts, k)
      <4> HIDE DEF ranges
      <4> QED BY <1>3, <3>1, NthCovers DEF n
    <3> HIDE DEF r
    <3>3. r + 1 \in 1..n /\ (r + 1) - 1 = r
      BY <1>4, <3>2
    <3>4. outputs[r + 1][k] = layer[k]
      BY <1>8, <3>2, <3>3
    <3>5. ASSUME NEW j \in 1..n, j > r + 1 PROVE outputs[j][k] = Absent
      <4>1. j - 1 \in 0..(n - 1) /\ r < j - 1
        BY <1>4, <1>5, <3>2, <3>5
      <4>2. Nth(ranges, r) < Nth(ranges, j - 1)
        <5> HIDE DEF ranges
        <5> QED BY <1>3, <3>2, <4>1, NthAscends DEF n
      <4>3. Nth(ranges, r) \in Nat /\ Nth(ranges, j - 1) \in Nat
        <5>1. Nth(ranges, j - 1) \in ranges /\ Nth(ranges, r) \in ranges
          BY <1>5, <3>1, <3>2
        <5> HIDE DEF ranges
        <5> QED BY <1>3, <5>1 DEF Indices
      <4>4. RangeOf(cuts, k) # Nth(ranges, j - 1)
        BY <3>2, <4>2, <4>3
      <4> QED BY <1>8, <4>4
    <3>6. PICK i \in 1..n : /\ outputs[i][k] = layer[k]
                            /\ \A j \in 1..n : j > i => outputs[j][k] = Absent
      BY <3>3, <3>4, <3>5
    <3>7. Newest(outputs, 1..n, k) = outputs[i][k]
      <4> DEFINE D == 1..n
      <4>1. /\ D \in Indices /\ i \in D /\ outputs[i][k] # Absent
            /\ \A j \in D : j > i => outputs[j][k] = Absent
        BY <1>12, <2>2, <3>6
      <4> HIDE DEF D
      <4>2. Newest(outputs, D, k) = outputs[i][k]
        BY <4>1, NewestIs
      <4> QED BY <4>2 DEF D
    <3> QED BY <3>6, <3>7
  <2> QED BY <2>1, <2>2
<1> QED BY <1>1, <1>7, <1>9, <1>11, <1>13

(* What a compaction makes of the newest entry e it finds for a key.       *)
Compacted(k, e, entry, bottom) ==
    \/ entry = e
    \/ bottom /\ entry = Absent /\ (Answer(e) = Absent \/ MayVanish(k))

LEMMA MergedOf ==
    ASSUME NEW inputs \in Indices, \A i \in inputs : Tables(list)[i] \in Layer,
           expired \subseteq LogKey, NEW bottom \in BOOLEAN
    PROVE  /\ Merged(inputs, bottom) \in Layer
           /\ \A k \in Key : Compacted(k, Newest(Tables(list), inputs, k),
                                       Merged(inputs, bottom)[k], bottom)
<1> DEFINE merge == Merge(Tables(list), inputs)
           kept == Kept(merge, bottom)
           logs == KeysOf(kept) \cap LogKey
           excess == Cardinality(KeysOf(kept)) - MaxSize
           old(k) == k \in logs /\ Cardinality({j \in logs : j < k}) < excess
<1>1. merge \in Layer
  BY MergeType
<1>2. \A k \in Key : merge[k] = Newest(Tables(list), inputs, k)
  BY DEF Merge
<1> HIDE DEF merge
<1>3. \A k \in Key : merge[k] \in Entry \cup {Absent}
  BY <1>1 DEF Layer
<1>4. kept \in Layer /\ \A k \in Key : Compacted(k, merge[k], kept[k], bottom)
  BY <1>3, LevelsTypes DEF Kept, Layer, Answer, Compacted, MayVanish, Entry
<1> HIDE DEF kept
<1>5. CASE bottom
  <2>1. Merged(inputs, bottom) = Retained(kept)
    BY <1>5 DEF Merged, kept, merge
  <2>2. CASE MaxSize = 0
    BY <1>2, <1>4, <2>1, <2>2 DEF Retained
  <2>3. CASE MaxSize # 0
    <3>1. MaxSize > 0
      BY <2>3, LevelsAssumption
    <3>2. Retained(kept) = [k \in Key |-> IF old(k) THEN Absent ELSE kept[k]]
      BY <2>3 DEF Retained
    <3>3. \A k \in Key : old(k) => MayVanish(k)
      BY <3>1 DEF MayVanish
    <3> HIDE DEF old
    <3>4. Retained(kept) \in Layer
      BY <1>4, <3>2 DEF Layer
    <3>5. \A k \in Key : Compacted(k, merge[k], Retained(kept)[k], bottom)
      BY <1>4, <1>5, <3>2, <3>3 DEF Compacted
    <3> QED BY <1>2, <2>1, <3>4, <3>5
  <2> QED BY <2>2, <2>3
<1>6. CASE ~bottom
  BY <1>2, <1>4, <1>6 DEF Merged, kept, merge
<1> QED BY <1>5, <1>6

-----------------------------------------------------------------------------
(* Lists.                                                                  *)

(* Every two elements of s, the earlier one first, are related.            *)
Pairs(s, R) == \A i, j \in DOMAIN s : i < j => <<s[i], s[j]>> \in R

Elements(s) == {s[i] : i \in DOMAIN s}

LEMMA PickPairs ==
    ASSUME NEW T, NEW s \in Seq(T), NEW I \in SUBSET (DOMAIN s), NEW R, Pairs(s, R)
    PROVE  Pairs(Pick(s, I), R) /\ Elements(Pick(s, I)) = {s[i] : i \in I}
<1> DEFINE p == Pick(s, I)
<1>1. /\ \A n \in DOMAIN p : Nth(I, n - 1) \in I /\ p[n] = s[Nth(I, n - 1)]
      /\ \A m, n \in DOMAIN p : m < n <=> Nth(I, m - 1) < Nth(I, n - 1)
      /\ \A i \in I : \E n \in DOMAIN p : Nth(I, n - 1) = i
  BY PickOf
<1> HIDE DEF p
<1>2. Pairs(p, R)
  BY <1>1 DEF Pairs
<1>3. Elements(p) = {s[i] : i \in I}
  BY <1>1 DEF Elements
<1> QED BY <1>2, <1>3 DEF p

LEMMA ConcatPairs ==
    ASSUME NEW T, NEW p \in Seq(T), NEW q \in Seq(T), NEW R, Pairs(p, R), Pairs(q, R),
           \A x \in Elements(p), y \in Elements(q) : <<x, y>> \in R
    PROVE  /\ p \o q \in Seq(T)
           /\ Pairs(p \o q, R)
           /\ Elements(p \o q) = Elements(p) \cup Elements(q)
<1>1. /\ Len(p) \in Nat /\ DOMAIN p = 1..Len(p)
      /\ Len(q) \in Nat /\ DOMAIN q = 1..Len(q)
  OBVIOUS
<1>2. p \o q \in Seq(T) /\ Len(p \o q) = Len(p) + Len(q)
  OBVIOUS
<1>3. DOMAIN (p \o q) = 1..(Len(p) + Len(q))
  BY <1>2
<1>4. \A i \in 1..Len(p) : i \in DOMAIN (p \o q) /\ (p \o q)[i] = p[i]
  BY <1>1, <1>2
<1>5. \A i \in 1..Len(q) : Len(p) + i \in DOMAIN (p \o q) /\ (p \o q)[Len(p) + i] = q[i]
  BY <1>1, <1>2
<1>6. \A i \in DOMAIN (p \o q) :
         i \notin 1..Len(p) => i - Len(p) \in 1..Len(q) /\ i = Len(p) + (i - Len(p))
  BY <1>1, <1>3
<1>7. Elements(p \o q) = Elements(p) \cup Elements(q)
  <2>1. \A i \in DOMAIN (p \o q) : (p \o q)[i] \in Elements(p) \cup Elements(q)
    BY <1>1, <1>4, <1>5, <1>6 DEF Elements
  <2>2. \A i \in DOMAIN p : p[i] \in Elements(p \o q)
    BY <1>1, <1>4 DEF Elements
  <2>3. \A i \in DOMAIN q : q[i] \in Elements(p \o q)
    BY <1>1, <1>5 DEF Elements
  <2> QED BY <2>1, <2>2, <2>3 DEF Elements
<1>8. Pairs(p \o q, R)
  <2> SUFFICES ASSUME NEW i \in DOMAIN (p \o q), NEW j \in DOMAIN (p \o q), i < j
               PROVE  <<(p \o q)[i], (p \o q)[j]>> \in R
    BY DEF Pairs
  <2>1. CASE i \in 1..Len(p) /\ j \in 1..Len(p)
    BY <1>1, <1>4, <2>1 DEF Pairs
  <2>2. CASE i \in 1..Len(p) /\ j \notin 1..Len(p)
    <3>1. (p \o q)[i] \in Elements(p)
      BY <1>1, <1>4, <2>2 DEF Elements
    <3>2. (p \o q)[j] \in Elements(q)
      BY <1>1, <1>5, <1>6, <2>2 DEF Elements
    <3> QED BY <3>1, <3>2
  <2>3. CASE i \notin 1..Len(p) /\ j \notin 1..Len(p)
    <3> DEFINE a == i - Len(p)
               b == j - Len(p)
    <3>1. a \in DOMAIN q /\ b \in DOMAIN q /\ a < b
      BY <1>1, <1>3, <1>6, <2>3
    <3>2. (p \o q)[i] = q[a] /\ (p \o q)[j] = q[b]
      BY <1>5, <1>6, <2>3
    <3> HIDE DEF a, b
    <3> QED BY <3>1, <3>2 DEF Pairs
  <2>4. CASE i \notin 1..Len(p) /\ j \in 1..Len(p)
    BY <1>1, <1>3, <2>4
  <2> QED BY <2>1, <2>2, <2>3, <2>4
<1> QED BY <1>2, <1>7, <1>8

(* What a list of tables holds if f is what is in the files.               *)
TablesIn(f, l) == [i \in DOMAIN l |-> f[l[i].id]]
Find(f, l, k) == Newest(TablesIn(f, l), DOMAIN l, k)

LEMMA FindConcat ==
    ASSUME NEW T, NEW p \in Seq(T), NEW q \in Seq(T), NEW f, NEW k
    PROVE  Find(f, p \o q, k) = Over(Find(f, q, k), Find(f, p, k))
<1> DEFINE U == {f[p[i].id] : i \in DOMAIN p} \cup {f[q[i].id] : i \in DOMAIN q}
<1>1. /\ Len(p) \in Nat /\ DOMAIN p = 1..Len(p)
      /\ Len(q) \in Nat /\ DOMAIN q = 1..Len(q)
      /\ DOMAIN (p \o q) = 1..(Len(p) + Len(q)) /\ Len(p \o q) = Len(p) + Len(q)
  OBVIOUS
<1>2. TablesIn(f, p) \in Seq(U) /\ TablesIn(f, q) \in Seq(U)
  BY <1>1 DEF TablesIn
<1>3. Len(TablesIn(f, p)) = Len(p) /\ Len(TablesIn(f, q)) = Len(q)
  BY <1>1 DEF TablesIn
<1> HIDE DEF U
<1>4. Newest(TablesIn(f, p) \o TablesIn(f, q), 1..(Len(p) + Len(q)), k)
        = Over(Newest(TablesIn(f, q), 1..Len(q), k), Newest(TablesIn(f, p), 1..Len(p), k))
  <2>1. Len(TablesIn(f, q)) \in 0..Len(TablesIn(f, q))
    BY <1>1, <1>3
  <2>2. Newest(TablesIn(f, p) \o TablesIn(f, q), 1..(Len(TablesIn(f, p)) + Len(TablesIn(f, q))), k)
          = Over(Newest(TablesIn(f, q), 1..Len(TablesIn(f, q)), k),
                 Newest(TablesIn(f, p), 1..Len(TablesIn(f, p)), k))
    BY <1>2, <2>1, NewestConcat
  <2> QED BY <1>3, <2>2
<1>5. ASSUME NEW i \in 1..(Len(p) + Len(q))
      PROVE  TablesIn(f, p \o q)[i] = (TablesIn(f, p) \o TablesIn(f, q))[i]
  <2>1. TablesIn(f, p \o q)[i] = f[(p \o q)[i].id]
    BY <1>1 DEF TablesIn
  <2>2. CASE i <= Len(p)
    <3>1. i \in 1..Len(p) /\ (p \o q)[i] = p[i]
      BY <1>1, <2>2
    <3>2. (TablesIn(f, p) \o TablesIn(f, q))[i] = TablesIn(f, p)[i]
      BY <1>1, <1>2, <1>3, <3>1
    <3> QED BY <1>1, <2>1, <3>1, <3>2 DEF TablesIn
  <2>3. CASE i > Len(p)
    <3>1. i - Len(p) \in 1..Len(q) /\ (p \o q)[i] = q[i - Len(p)]
      BY <1>1, <2>3
    <3>2. (TablesIn(f, p) \o TablesIn(f, q))[i] = TablesIn(f, q)[i - Len(p)]
      BY <1>1, <1>2, <1>3, <2>3
    <3> QED BY <1>1, <2>1, <3>1, <3>2 DEF TablesIn
  <2>4. i <= Len(p) \/ i > Len(p)
    BY <1>1
  <2> QED BY <2>2, <2>3, <2>4
<1>6. 1..(Len(p) + Len(q)) \in Indices
  BY <1>1, IntervalIndices
<1>7. Newest(TablesIn(f, p \o q), 1..(Len(p) + Len(q)), k)
        = Newest(TablesIn(f, p) \o TablesIn(f, q), 1..(Len(p) + Len(q)), k)
  <2> DEFINE D == 1..(Len(p) + Len(q))
             L1 == TablesIn(f, p \o q)
             L2 == TablesIn(f, p) \o TablesIn(f, q)
  <2>1. D \in Indices /\ \A i \in D : L1[i][k] = L2[i][k]
    BY <1>5, <1>6
  <2> HIDE DEF D, L1, L2
  <2>2. Newest(L1, D, k) = Newest(L2, D, k)
    BY <2>1, NewestSame
  <2> QED BY <2>2 DEF D, L1, L2
<1> QED BY <1>1, <1>4, <1>7 DEF Find

(* A lookup in what was picked from a list is one among the tables picked. *)
LEMMA FindPick ==
    ASSUME NEW T, NEW s \in Seq(T), NEW I \in SUBSET (DOMAIN s), NEW f, NEW k
    PROVE  Find(f, Pick(s, I), k) = Newest(TablesIn(f, s), I, k)
<1> DEFINE p == Pick(s, I)
           D == DOMAIN p
<1>1. /\ I \in Indices /\ p \in Seq(T)
      /\ \A n \in D : Nth(I, n - 1) \in I /\ p[n] = s[Nth(I, n - 1)]
      /\ \A m, n \in D : m < n <=> Nth(I, m - 1) < Nth(I, n - 1)
      /\ \A i \in I : \E n \in D : Nth(I, n - 1) = i
  BY PickOf
<1> HIDE DEF p
<1>2. D = 1..Len(p) /\ Len(p) \in Nat
  BY <1>1
<1>3. D \in Indices
  BY <1>2, IntervalIndices
<1> HIDE DEF D
<1>4. \A n \in D : TablesIn(f, p)[n] = TablesIn(f, s)[Nth(I, n - 1)]
  BY <1>1 DEF TablesIn, D
<1>5. CASE \A i \in I : TablesIn(f, s)[i][k] = Absent
  <2>1. \A n \in D : TablesIn(f, p)[n][k] = Absent
    BY <1>1, <1>4, <1>5
  <2> QED BY <1>1, <1>3, <1>5, <2>1, NewestAbsent DEF Find, p, D
<1>6. CASE \E i \in I : TablesIn(f, s)[i][k] # Absent
  <2>1. PICK i \in I : /\ TablesIn(f, s)[i][k] # Absent
                       /\ \A j \in I : j > i => TablesIn(f, s)[j][k] = Absent
                       /\ Newest(TablesIn(f, s), I, k) = TablesIn(f, s)[i][k]
    BY <1>1, <1>6, NewestCases
  <2>2. PICK n \in D : Nth(I, n - 1) = i
    BY <1>1
  <2>3. TablesIn(f, p)[n] = TablesIn(f, s)[i]
    BY <1>4, <2>2
  <2>4. ASSUME NEW m \in D, m > n PROVE TablesIn(f, p)[m][k] = Absent
    <3>1. n < m
      BY <1>2, <2>4 DEF D
    <3>2. Nth(I, n - 1) < Nth(I, m - 1)
      BY <1>1, <3>1
    <3>3. Nth(I, m - 1) \in I /\ Nth(I, m - 1) \in Nat /\ i \in Nat
      BY <1>1 DEF Indices
    <3>4. Nth(I, m - 1) > i
      BY <2>2, <3>2, <3>3
    <3> QED BY <1>4, <2>1, <3>3, <3>4
  <2>5. Newest(TablesIn(f, p), D, k) = TablesIn(f, p)[n][k]
    <3>1. TablesIn(f, p)[n][k] # Absent
      BY <2>1, <2>3
    <3> QED BY <1>3, <2>4, <3>1, NewestIs
  <2> QED BY <2>1, <2>3, <2>5 DEF Find, p, D
<1> QED BY <1>5, <1>6

-----------------------------------------------------------------------------
(* The invariant.                                                          *)

(* No start lowers MaxLevels below the levels in use.                      *)
SameLevels == \A m, n \in Levelings : m = n

(* The outputs of a failed compaction can be removed.                      *)
CleanupSucceeds == "cleanup" \notin Faults

TableEntry == [id : TableID, level : Nat]

LevelTypes ==
    /\ files \in [TableID -> Layer]
    /\ onDisk \in SUBSET TableID
    /\ saved.list \in Seq(TableEntry) /\ saved.next \in Nat \ {0}
    /\ maxLevels \in Levelings
    /\ nextID \in Nat \ {0}
    /\ expired \in SUBSET LogKey

(* The running store works on the list of the Manifest, and no file of     *)
(* that list waits to be removed.                                          *)
LevelControl ==
    /\ running \in BOOLEAN
    /\ at \in {"idle", "write", "cleanup", "repair"}
    /\ at \in {"write", "cleanup"} => running
    /\ at = "repair" => ~running
    /\ running => list = saved.list /\ saved.next <= nextID
    /\ at = "cleanup" => todo \cap IdsOf(saved.list) = {}
    /\ \A t \in onDisk : KeysOf(files[t]) # {}

(* The entries of a list may follow each other.                            *)
Fitting ==
    {p \in TableEntry \X TableEntry :
        /\ p[1].id # p[2].id
        /\ p[1].level >= p[2].level
        /\ p[1].level = p[2].level /\ p[1].level > 0
              => Apart(KeysOf(files[p[1].id]), KeysOf(files[p[2].id]))}

ListInv ==
    /\ Pairs(saved.list, Fitting)
    /\ \A i \in DOMAIN saved.list : KeysOf(files[saved.list[i].id]) # {}
    /\ \A i \in DOMAIN saved.list : saved.list[i].id < saved.next
    /\ SameLevels => \A i \in DOMAIN saved.list : saved.list[i].level < maxLevels

(* A file of the Manifest is there or damaged, and a damaged one is in the *)
(* Manifest or there; the running store neither reads nor removes it.      *)
DamageInv ==
    /\ damaged \in SUBSET (onDisk \cup IdsOf(saved.list))
    /\ IdsOf(saved.list) \subseteq onDisk \cup damaged
    /\ running => /\ ~unreadable
                  /\ damaged \cap IdsOf(saved.list) = {}
                  /\ \A t \in damaged : t < nextID
    /\ at = "cleanup" => damaged \cap todo = {}
    /\ at = "repair" => /\ ~unreadable
                        /\ IdsOf(saved.list) \subseteq onDisk \ damaged
                        /\ todo \subseteq damaged

(* What is lost is known to be.                                            *)
SpoiledInv ==
    /\ unreadable => spoiled = Key
    /\ \A t \in damaged \cap IdsOf(saved.list) : KeysOf(files[t]) \subseteq spoiled

InputKeys == UNION {KeysOf(files[list[i].id]) : i \in job.inputs}

(* The outputs can take the place of the inputs: what stays before them is *)
(* not above their level, what stays behind them is, and what stays on it  *)
(* is on one side of all the inputs.                                       *)
PlaceFree ==
    \A i \in DOMAIN list \ job.inputs :
        /\ i < OutputsAt => list[i].level >= job.target
        /\ i > OutputsAt => list[i].level < job.target
        /\ list[i].level > job.target => \A e \in job.inputs : i < e
        /\ list[i].level = job.target => Apart(KeysOf(files[list[i].id]), InputKeys)

(* The outputs say what the inputs say, except where nothing lies below.   *)
OutputsMerge ==
    \E bottom \in BOOLEAN :
        /\ \A k \in Key :
              Compacted(k, Newest(Tables(list), job.inputs, k),
                        Newest(job.outputs, DOMAIN job.outputs, k), bottom)
        /\ bottom /\ SameLevels =>
              \A i \in DOMAIN list \ job.inputs : list[i].level <= job.target

JobInv ==
    at = "write" =>
        /\ job.inputs \in SUBSET (DOMAIN list) /\ job.inputs # {}
        /\ job.target \in Nat \ {0}
        /\ SameLevels => job.target < maxLevels
        /\ job.outputs \in Seq(Layer)
        /\ nextID + Len(job.outputs) - 1 <= MaxTable
        /\ \A j \in DOMAIN job.outputs : KeysOf(job.outputs[j]) # {}
        /\ Ascending(job.outputs)
        /\ todo = {} \/ todo = DOMAIN job.outputs
        /\ WorkersDone => \A j \in DOMAIN job.outputs :
              OutputID(j) \in onDisk /\ files[OutputID(j)] = job.outputs[j]
        /\ PlaceFree
        /\ OutputsMerge

Told(k, answer) == answer = kv[k] \/ (answer = Absent /\ MayVanish(k))

AnswersInv ==
    SameLevels => \A k \in Key \ spoiled : Told(k, Answer(Lookup(saved.list, k)))

(* What is on disk has a number that is taken, by the list or by a         *)
(* compaction that is still writing.                                       *)
FreshInv ==
    CleanupSucceeds /\ running =>
        \A t \in onDisk :
            \/ t < nextID
            \/ at = "write" /\ \E j \in DOMAIN job.outputs : t = OutputID(j)

LevelsInv == /\ LevelTypes /\ LevelControl /\ ListInv /\ DamageInv /\ SpoiledInv
             /\ JobInv /\ AnswersInv /\ FreshInv

-----------------------------------------------------------------------------
LEMMA LevelsInvInit == RepairInit => LevelsInv
<1> SUFFICES ASSUME RepairInit PROVE LevelsInv
  OBVIOUS
<1> USE DEF RepairInit, Init
<1>1. EmptyLayer \in Layer
  BY DEF EmptyLayer, Layer
<1>2. LevelTypes
  <2>1. saved.list = <<>> /\ saved.next = 1
    OBVIOUS
  <2>2. <<>> \in Seq(TableEntry)
    OBVIOUS
  <2> QED BY <1>1, <2>1, <2>2 DEF LevelTypes
<1>3. saved.list = <<>> /\ DOMAIN saved.list = {} /\ IdsOf(saved.list) = {}
  BY DEF IdsOf
<1>4. LevelControl
  BY <1>3 DEF LevelControl
<1>5. ListInv
  BY <1>3 DEF ListInv, Pairs
<1>6. DamageInv /\ SpoiledInv /\ JobInv /\ FreshInv
  BY <1>3 DEF DamageInv, SpoiledInv, JobInv, FreshInv
<1>7. AnswersInv
  <2>1. DOMAIN Tables(saved.list) = {} /\ \A k : Lookup(saved.list, k) = Absent
    BY <1>3, NewestNone DEF Tables, Lookup
  <2>2. Answer(Absent) = Absent
    BY DEF Answer
  <2> QED BY <2>1, <2>2 DEF AnswersInv, Told
<1> QED BY <1>2, <1>4, <1>5, <1>6, <1>7 DEF LevelsInv

(* While the list and its files stay, so does what is said of them.        *)
LEMMA ListStays ==
    ASSUME LevelTypes, ListInv, saved' = saved,
           \A t \in IdsOf(saved.list) : files'[t] = files[t],
           maxLevels' \in Levelings, SameLevels => maxLevels' = maxLevels
    PROVE  /\ ListInv'
           /\ \A k : Lookup(saved.list, k)' = Lookup(saved.list, k)
           /\ Tables(saved.list)' = Tables(saved.list)
<1>1. \A i \in DOMAIN saved.list : /\ saved.list[i].id \in IdsOf(saved.list)
                                   /\ saved.list[i] \in TableEntry
  BY DEF IdsOf, LevelTypes
<1>2. \A i \in DOMAIN saved.list :
        KeysOf(files[saved.list[i].id])' = KeysOf(files[saved.list[i].id])
  BY <1>1 DEF KeysOf
<1>3. Pairs(saved.list, Fitting)'
  <2> SUFFICES ASSUME NEW i \in DOMAIN saved.list, NEW j \in DOMAIN saved.list, i < j
               PROVE  <<saved.list[i], saved.list[j]>> \in Fitting'
    BY DEF Pairs
  <2>1. <<saved.list[i], saved.list[j]>> \in Fitting
    BY DEF ListInv, Pairs
  <2> QED BY <1>1, <1>2, <2>1 DEF Fitting
<1>4. Tables(saved.list)' = Tables(saved.list)
  BY <1>1 DEF Tables
<1>5. \A k : Lookup(saved.list, k)' = Lookup(saved.list, k)
  BY <1>4 DEF Lookup
<1> QED BY <1>2, <1>3, <1>4, <1>5 DEF ListInv

LEMMA AnswersStay ==
    ASSUME AnswersInv, \A k : Lookup(saved.list, k)' = Lookup(saved.list, k),
           kv' = kv, spoiled \subseteq spoiled', expired \subseteq expired'
    PROVE  AnswersInv'
BY DEF AnswersInv, Told, MayVanish

(* Actions that leave the tables, the Manifest and the damage alone.       *)
LEMMA ExpireKeeps ==
    ASSUME LevelsInv, Expire, UNCHANGED damageVars
    PROVE  LevelsInv'
<1>1. /\ files' = files /\ onDisk' = onDisk /\ saved' = saved /\ running' = running
      /\ maxLevels' = maxLevels /\ list' = list /\ nextID' = nextID
      /\ at' = at /\ job' = job /\ todo' = todo /\ failed' = failed /\ kv' = kv
      /\ damaged' = damaged /\ unreadable' = unreadable /\ spoiled' = spoiled
      /\ expired' = expired \cup {Min(LogKey \ expired)} /\ LogKey \ expired # {}
  BY DEF Expire, fileVars, listVars, jobVars, damageVars
<1> USE DEF LevelsInv
<1>2. expired \subseteq expired' /\ expired' \subseteq LogKey
  <2>1. LogKey \ expired \in Indices
    BY LevelsTypes, SubsetIndices
  <2>2. Min(LogKey \ expired) \in LogKey
    BY <1>1, <2>1, MinIsLeast
  <2> QED BY <1>1, <2>2 DEF LevelTypes
<1>3. LevelTypes' /\ LevelControl' /\ DamageInv' /\ SpoiledInv' /\ FreshInv'
  <2>1. LevelTypes'
    BY <1>1, <1>2 DEF LevelTypes
  <2>2. LevelControl'
    BY <1>1 DEF LevelControl, KeysOf, IdsOf
  <2>3. DamageInv'
    BY <1>1 DEF DamageInv, IdsOf
  <2>4. SpoiledInv'
    BY <1>1 DEF SpoiledInv, IdsOf, KeysOf
  <2>5. FreshInv'
    BY <1>1 DEF FreshInv, OutputID
  <2> QED BY <2>1, <2>2, <2>3, <2>4, <2>5
<1>4. ListInv' /\ \A k : Lookup(saved.list, k)' = Lookup(saved.list, k)
  BY <1>1, ListStays DEF LevelTypes
<1>5. AnswersInv'
  BY <1>1, <1>2, <1>4, AnswersStay
<1>6. JobInv'
  <2>1. OutputsMerge => OutputsMerge'
    <3> SUFFICES ASSUME OutputsMerge PROVE OutputsMerge'
      OBVIOUS
    <3>1. PICK bottom \in BOOLEAN :
            /\ \A k \in Key :
                  Compacted(k, Newest(Tables(list), job.inputs, k),
                            Newest(job.outputs, DOMAIN job.outputs, k), bottom)
            /\ bottom /\ SameLevels =>
                  \A i \in DOMAIN list \ job.inputs : list[i].level <= job.target
      BY DEF OutputsMerge
    <3>2. list' = list /\ job' = job /\ Tables(list)' = Tables(list)
      BY <1>1 DEF Tables
    <3>3. \A k, e, entry : Compacted(k, e, entry, bottom) => Compacted(k, e, entry, bottom)'
      BY <1>2 DEF Compacted, MayVanish
    <3> QED BY <3>1, <3>2, <3>3 DEF OutputsMerge
  <2>2. PlaceFree' <=> PlaceFree
    BY <1>1 DEF PlaceFree, InputKeys, OutputsAt, KeysOf
  <2> QED BY <1>1, <2>1, <2>2 DEF JobInv, WorkersDone, OutputID, KeysOf, Ascending
<1> QED BY <1>3, <1>4, <1>5, <1>6

-----------------------------------------------------------------------------
(* The actions that change no list.                                        *)

LEMMA WriteKeeps ==
    ASSUME LevelsInv, WriteOutputs, running, UNCHANGED damageVars
    PROVE  LevelsInv'
<1> USE DEF LevelsInv
<1>1. /\ saved' = saved /\ running' = running /\ maxLevels' = maxLevels /\ list' = list
      /\ nextID' = nextID /\ at = "write" /\ at' = "write" /\ job' = job /\ todo' = {}
      /\ expired' = expired /\ kv' = kv
      /\ damaged' = damaged /\ unreadable' = unreadable /\ spoiled' = spoiled
  BY DEF WriteOutputs, listVars, damageVars
<1>2. PICK done \in SUBSET {j \in todo : OutputID(j) \notin onDisk} :
        /\ failed' = (done # todo)
        /\ files' = [t \in TableID |->
                       IF \E j \in done : t = OutputID(j)
                       THEN job.outputs[t - nextID + 1] ELSE files[t]]
        /\ onDisk' = onDisk \cup {OutputID(j) : j \in done}
  BY DEF WriteOutputs
<1>3. /\ job.outputs \in Seq(Layer) /\ nextID + Len(job.outputs) - 1 <= MaxTable
      /\ todo # {} /\ todo = DOMAIN job.outputs
      /\ \A j \in DOMAIN job.outputs : KeysOf(job.outputs[j]) # {}
  BY <1>1 DEF JobInv, WriteOutputs
<1>4. nextID \in Nat \ {0} /\ MaxTable \in Nat
  BY LevelsTypes DEF LevelTypes
<1>5. ASSUME NEW j \in DOMAIN job.outputs
      PROVE  /\ OutputID(j) \in TableID /\ OutputID(j) - nextID + 1 = j
             /\ OutputID(j) >= nextID
             /\ j \in Nat
  <2>1. Len(job.outputs) \in Nat /\ j \in 1..Len(job.outputs)
    BY <1>3
  <2> QED BY <1>3, <1>4, <2>1 DEF OutputID, TableID
<1>6. \A j \in done : /\ j \in DOMAIN job.outputs /\ OutputID(j) \notin onDisk
                      /\ files'[OutputID(j)] = job.outputs[j]
  BY <1>2, <1>3, <1>5
<1>7. \A t \in TableID : (\A j \in done : t # OutputID(j)) => files'[t] = files[t]
  BY <1>2
<1>8. \A t \in IdsOf(saved.list) : t \in TableID /\ t < nextID
  <2> SUFFICES ASSUME NEW i \in DOMAIN saved.list
               PROVE  saved.list[i].id \in TableID /\ saved.list[i].id < nextID
    BY DEF IdsOf
  <2>1. saved.list[i] \in TableEntry
    BY DEF LevelTypes
  <2>2. saved.list[i].id \in TableID /\ saved.list[i].id < saved.next
    BY <2>1 DEF TableEntry, ListInv
  <2>3. saved.next <= nextID /\ saved.next \in Nat
    BY DEF LevelControl, LevelTypes
  <2> QED BY <1>4, <2>2, <2>3 DEF TableID
<1>9. \A t \in IdsOf(saved.list) : files'[t] = files[t]
  <2> SUFFICES ASSUME NEW t \in IdsOf(saved.list) PROVE files'[t] = files[t]
    OBVIOUS
  <2>1. t \in TableID /\ t < nextID /\ t \in Nat
    BY <1>8 DEF TableID
  <2>2. \A j \in done : t # OutputID(j)
    BY <1>4, <1>5, <1>6, <2>1
  <2> QED BY <1>7, <2>1, <2>2
<1>10. LevelTypes'
  <2>1. \A t \in TableID : files'[t] \in Layer
    <3> SUFFICES ASSUME NEW t \in TableID PROVE files'[t] \in Layer
      OBVIOUS
    <3>1. CASE \E j \in done : t = OutputID(j)
      <4>1. PICK j \in done : t = OutputID(j)
        BY <3>1
      <4> QED BY <1>3, <1>6, <4>1
    <3>2. CASE \A j \in done : t # OutputID(j)
      BY <1>7, <3>2 DEF LevelTypes
    <3> QED BY <3>1, <3>2
  <2>2. files' \in [TableID -> Layer]
    <3>1. files' = [t \in TableID |-> files'[t]]
      BY <1>2
    <3> QED BY <2>1, <3>1
  <2>3. onDisk' \subseteq TableID
    <3>1. \A j \in done : OutputID(j) \in TableID
      BY <1>5, <1>6
    <3>2. onDisk \subseteq TableID
      BY DEF LevelTypes
    <3> QED BY <1>2, <3>1, <3>2
  <2> QED BY <1>1, <2>2, <2>3 DEF LevelTypes
<1>11. ListInv' /\ \A k : Lookup(saved.list, k)' = Lookup(saved.list, k)
  BY <1>1, <1>9, ListStays DEF LevelTypes
<1>12. LevelControl'
  <2>1. \A t \in onDisk' : KeysOf(files'[t]) # {}
    <3> SUFFICES ASSUME NEW t \in onDisk' PROVE KeysOf(files'[t]) # {}
      OBVIOUS
    <3>1. CASE \E j \in done : t = OutputID(j)
      <4>1. PICK j \in done : t = OutputID(j)
        BY <3>1
      <4> QED BY <1>3, <1>6, <4>1
    <3>2. CASE \A j \in done : t # OutputID(j)
      <4>1. t \in onDisk /\ t \in TableID
        BY <1>2, <3>2 DEF LevelTypes
      <4>2. files'[t] = files[t]
        BY <1>7, <3>2, <4>1
      <4> QED BY <4>1, <4>2 DEF LevelControl
    <3> QED BY <3>1, <3>2
  <2> QED BY <1>1, <2>1 DEF LevelControl, KeysOf
<1>13. DamageInv'
  <2>1. onDisk \subseteq onDisk'
    BY <1>2
  <2> QED BY <1>1, <2>1 DEF DamageInv, IdsOf
<1>14. SpoiledInv'
  BY <1>1, <1>9 DEF SpoiledInv, IdsOf, KeysOf
<1>15. AnswersInv'
  BY <1>1, <1>11, AnswersStay
<1>16. FreshInv'
  BY <1>1, <1>2, <1>6 DEF FreshInv, OutputID
<1>17. JobInv'
  <2>1. \A i \in DOMAIN list : files'[list[i].id] = files[list[i].id]
    BY <1>1, <1>9 DEF IdsOf, LevelControl
  <2>2. WorkersDone' => \A j \in DOMAIN job.outputs :
                           OutputID(j) \in onDisk' /\ files'[OutputID(j)] = job.outputs[j]
    <3> SUFFICES ASSUME WorkersDone', NEW j \in DOMAIN job.outputs
                 PROVE  OutputID(j) \in onDisk' /\ files'[OutputID(j)] = job.outputs[j]
      OBVIOUS
    <3>1. done = todo
      BY <1>2 DEF WorkersDone
    <3> QED BY <1>2, <1>3, <1>6, <3>1
  <2>3. PlaceFree' <=> PlaceFree
    <3>1. \A i \in DOMAIN list : KeysOf(files[list[i].id])' = KeysOf(files[list[i].id])
      BY <1>1, <2>1 DEF KeysOf
    <3>2. job.inputs \in SUBSET (DOMAIN list)
      BY <1>1 DEF JobInv
    <3>3. InputKeys' = InputKeys
      BY <1>1, <3>1, <3>2 DEF InputKeys
    <3> QED BY <1>1, <3>1, <3>3 DEF PlaceFree, OutputsAt
  <2>4. Tables(list)' = Tables(list)
    BY <1>1, <2>1 DEF Tables
  <2>5. OutputsMerge' <=> OutputsMerge
    BY <1>1, <2>4 DEF OutputsMerge, Compacted, MayVanish
  <2> QED BY <1>1, <2>2, <2>3, <2>5 DEF JobInv, OutputID, KeysOf, Ascending
<1> QED BY <1>10, <1>11, <1>12, <1>13, <1>14, <1>15, <1>16, <1>17

(* The tables of the Manifest have numbers that are taken.                 *)
LEMMA ListedBelow ==
    ASSUME LevelTypes, LevelControl, ListInv
    PROVE  \A t \in IdsOf(saved.list) :
              t \in TableID /\ t < saved.next /\ (running => t < nextID)
<1> SUFFICES ASSUME NEW i \in DOMAIN saved.list
             PROVE  /\ saved.list[i].id \in TableID /\ saved.list[i].id < saved.next
                    /\ running => saved.list[i].id < nextID
  BY DEF IdsOf
<1>1. saved.list[i] \in TableEntry
  BY DEF LevelTypes
<1>2. saved.list[i].id \in TableID /\ saved.list[i].id < saved.next
  BY <1>1 DEF TableEntry, ListInv
<1>3. running => saved.next <= nextID
  BY DEF LevelControl
<1>4. saved.list[i].id \in Nat /\ saved.next \in Nat /\ nextID \in Nat
  BY <1>2 DEF TableID, LevelTypes
<1> QED BY <1>2, <1>3, <1>4

(* Files nobody needs go.                                                  *)
LEMMA RemovalKeeps ==
    ASSUME LevelsInv, running, NEW gone, gone \cap (IdsOf(saved.list) \cup damaged) = {},
           onDisk' = onDisk \ gone,
           files' = [t \in TableID |-> IF t \in gone THEN EmptyLayer ELSE files[t]],
           saved' = saved, running' = running, maxLevels' = maxLevels, list' = list,
           nextID' = nextID, at' = "idle", expired' = expired, kv' = kv,
           damaged' = damaged, unreadable' = unreadable, spoiled' = spoiled
    PROVE  /\ LevelTypes' /\ LevelControl' /\ ListInv' /\ DamageInv' /\ SpoiledInv'
           /\ JobInv' /\ AnswersInv'
<1> USE DEF LevelsInv
<1>1. EmptyLayer \in Layer
  BY DEF EmptyLayer, Layer
<1>2. LevelTypes'
  <2>1. files' \in [TableID -> Layer]
    BY <1>1 DEF LevelTypes
  <2> QED BY <2>1 DEF LevelTypes
<1>3. \A t \in TableID \ gone : files'[t] = files[t]
  OBVIOUS
<1>4. \A t \in IdsOf(saved.list) : files'[t] = files[t]
  BY <1>3, ListedBelow
<1>5. ListInv' /\ \A k : Lookup(saved.list, k)' = Lookup(saved.list, k)
  BY <1>4, ListStays DEF LevelTypes
<1>6. LevelControl'
  <2>1. \A t \in onDisk' : t \in onDisk /\ files'[t] = files[t]
    BY <1>3 DEF LevelTypes
  <2>2. \A t \in onDisk' : KeysOf(files[t])' # {}
    BY <2>1 DEF LevelControl, KeysOf
  <2> QED BY <2>2 DEF LevelControl
<1>7. DamageInv'
  BY DEF DamageInv, IdsOf
<1>8. SpoiledInv'
  BY <1>4 DEF SpoiledInv, IdsOf, KeysOf
<1>9. AnswersInv'
  BY <1>5, AnswersStay
<1>10. JobInv'
  BY DEF JobInv
<1> QED BY <1>2, <1>5, <1>6, <1>7, <1>8, <1>9, <1>10

LEMMA AbortKeeps ==
    ASSUME LevelsInv, Abort, running, UNCHANGED damageVars
    PROVE  LevelsInv'
<1> USE DEF LevelsInv
<1>1. /\ saved' = saved /\ running' = running /\ maxLevels' = maxLevels /\ list' = list
      /\ nextID' = nextID /\ at = "write" /\ at' = "idle"
      /\ expired' = expired /\ kv' = kv
      /\ damaged' = damaged /\ unreadable' = unreadable /\ spoiled' = spoiled
  BY DEF Abort, listVars, damageVars
<1>2. PICK gone \in SUBSET Written :
        /\ gone = Written \/ "cleanup" \in Faults
        /\ onDisk' = onDisk \ gone
        /\ files' = [t \in TableID |-> IF t \in gone THEN EmptyLayer ELSE files[t]]
  BY DEF Abort
<1>3. \A j \in DOMAIN job.outputs : OutputID(j) \in Nat /\ OutputID(j) >= nextID
  <2>1. job.outputs \in Seq(Layer) /\ nextID \in Nat
    BY <1>1 DEF JobInv, LevelTypes
  <2>2. \A j \in DOMAIN job.outputs : j \in Nat /\ j >= 1
    BY <2>1
  <2> QED BY <2>1, <2>2 DEF OutputID
<1>4. \A t \in Written : t \in Nat /\ t >= nextID
  BY <1>3 DEF Written
<1>5. gone \cap (IdsOf(saved.list) \cup damaged) = {}
  <2>1. \A t \in IdsOf(saved.list) : t < nextID
    BY ListedBelow
  <2>2. \A t \in damaged : t < nextID
    BY DEF DamageInv
  <2>3. nextID \in Nat
    BY DEF LevelTypes
  <2> QED BY <1>4, <2>1, <2>2, <2>3
<1>6. /\ LevelTypes' /\ LevelControl' /\ ListInv' /\ DamageInv' /\ SpoiledInv'
      /\ JobInv' /\ AnswersInv'
  BY <1>1, <1>2, <1>5, RemovalKeeps
<1>7. FreshInv'
  <2> SUFFICES ASSUME CleanupSucceeds, NEW t \in onDisk' PROVE t < nextID
    BY <1>1 DEF FreshInv
  <2>1. gone = Written /\ t \in onDisk /\ t \notin Written
    BY <1>2 DEF CleanupSucceeds
  <2>2. \A j \in DOMAIN job.outputs : t # OutputID(j)
    BY <2>1 DEF Written
  <2> QED BY <2>1, <2>2 DEF FreshInv
<1> QED BY <1>6, <1>7

LEMMA RemoveInputsKeeps ==
    ASSUME LevelsInv, RemoveInputs, running, UNCHANGED damageVars
    PROVE  LevelsInv'
<1> USE DEF LevelsInv
<1>1. /\ saved' = saved /\ running' = running /\ maxLevels' = maxLevels /\ list' = list
      /\ nextID' = nextID /\ at = "cleanup" /\ at' = "idle"
      /\ expired' = expired /\ kv' = kv
      /\ damaged' = damaged /\ unreadable' = unreadable /\ spoiled' = spoiled
  BY DEF RemoveInputs, listVars, damageVars
<1>2. PICK gone \in SUBSET todo :
        /\ onDisk' = onDisk \ gone
        /\ files' = [t \in TableID |-> IF t \in gone THEN EmptyLayer ELSE files[t]]
  BY DEF RemoveInputs
<1>3. gone \cap (IdsOf(saved.list) \cup damaged) = {}
  BY <1>1 DEF LevelControl, DamageInv
<1>4. /\ LevelTypes' /\ LevelControl' /\ ListInv' /\ DamageInv' /\ SpoiledInv'
      /\ JobInv' /\ AnswersInv'
  BY <1>1, <1>2, <1>3, RemovalKeeps
<1>5. FreshInv'
  BY <1>1, <1>2 DEF FreshInv
<1> QED BY <1>4, <1>5

-----------------------------------------------------------------------------
(* The process ends, and files go bad.                                     *)

LEMMA CrashKeeps ==
    ASSUME LevelsInv, Crash, UNCHANGED damageVars
    PROVE  LevelsInv'
<1> USE DEF LevelsInv
<1>1. /\ files' = files /\ onDisk' = onDisk /\ saved' = saved /\ maxLevels' = maxLevels
      /\ running' = FALSE /\ nextID' = 1 /\ at' = "idle" /\ todo' = {}
      /\ expired' = expired /\ kv' = kv
      /\ damaged' = damaged /\ unreadable' = unreadable /\ spoiled' = spoiled
  BY DEF Crash, fileVars, damageVars
<1>2. LevelTypes'
  BY <1>1 DEF LevelTypes
<1>3. ListInv' /\ \A k : Lookup(saved.list, k)' = Lookup(saved.list, k)
  BY <1>1, ListStays DEF LevelTypes
<1>4. LevelControl'
  BY <1>1 DEF LevelControl, KeysOf
<1>5. DamageInv'
  BY <1>1 DEF DamageInv, IdsOf
<1>6. SpoiledInv'
  BY <1>1 DEF SpoiledInv, IdsOf, KeysOf
<1>7. AnswersInv'
  BY <1>1, <1>3, AnswersStay
<1>8. JobInv' /\ FreshInv'
  BY <1>1 DEF JobInv, FreshInv
<1> QED BY <1>2, <1>3, <1>4, <1>5, <1>6, <1>7, <1>8

LEMMA DamageKeeps ==
    ASSUME LevelsInv, NEW t \in TableID, Damage(t)
    PROVE  LevelsInv'
<1> USE DEF LevelsInv
<1>1. /\ files' = files /\ saved' = saved /\ maxLevels' = maxLevels
      /\ ~running /\ running' = running /\ list' = list /\ nextID' = nextID
      /\ at = "idle" /\ at' = "idle" /\ todo' = todo
      /\ expired' = expired /\ kv' = kv
      /\ damaged' = damaged \cup {t} /\ unreadable' = unreadable
      /\ spoiled' = spoiled \cup KeysOf(files[t])
      /\ onDisk' \in {onDisk, onDisk \ {t}}
      /\ t \in IdsOf(saved.list)
  BY DEF Damage, listVars, jobVars
<1>2. LevelTypes'
  BY <1>1 DEF LevelTypes
<1>3. ListInv' /\ \A k : Lookup(saved.list, k)' = Lookup(saved.list, k)
  BY <1>1, ListStays DEF LevelTypes
<1>4. LevelControl'
  BY <1>1 DEF LevelControl, KeysOf
<1>5. DamageInv'
  BY <1>1 DEF DamageInv, IdsOf
<1>6. SpoiledInv'
  <2>1. KeysOf(files[t]) \subseteq Key
    BY KeysOfTypes
  <2>2. unreadable' => spoiled' = Key
    BY <1>1, <2>1 DEF SpoiledInv
  <2>3. ASSUME NEW u \in damaged' \cap IdsOf(saved.list)
        PROVE  KeysOf(files[u]) \subseteq spoiled'
    BY <1>1 DEF SpoiledInv
  <2> QED BY <1>1, <2>2, <2>3 DEF SpoiledInv, IdsOf, KeysOf
<1>7. AnswersInv'
  BY <1>1, <1>3, AnswersStay
<1>8. JobInv' /\ FreshInv'
  BY <1>1 DEF JobInv, FreshInv
<1> QED BY <1>2, <1>3, <1>4, <1>5, <1>6, <1>7, <1>8

LEMMA LoseCurrentKeeps ==
    ASSUME LevelsInv, LoseCurrent
    PROVE  LevelsInv'
<1> USE DEF LevelsInv
<1>1. /\ files' = files /\ onDisk' = onDisk /\ saved' = saved /\ maxLevels' = maxLevels
      /\ ~running /\ running' = running /\ list' = list /\ nextID' = nextID
      /\ at = "idle" /\ at' = "idle" /\ todo' = todo
      /\ expired' = expired /\ kv' = kv
      /\ damaged' = damaged /\ spoiled' = Key
  BY DEF LoseCurrent, vars, fileVars, listVars, jobVars
<1>2. LevelTypes'
  BY <1>1 DEF LevelTypes
<1>3. ListInv' /\ \A k : Lookup(saved.list, k)' = Lookup(saved.list, k)
  BY <1>1, ListStays DEF LevelTypes
<1>4. LevelControl'
  BY <1>1 DEF LevelControl, KeysOf
<1>5. DamageInv'
  BY <1>1 DEF DamageInv, IdsOf
<1>6. SpoiledInv'
  <2>1. \A t : KeysOf(files[t])' \subseteq Key
    BY DEF KeysOf
  <2> QED BY <1>1, <2>1 DEF SpoiledInv
<1>7. AnswersInv'
  BY <1>1 DEF AnswersInv
<1>8. JobInv' /\ FreshInv'
  BY <1>1 DEF JobInv, FreshInv
<1> QED BY <1>2, <1>3, <1>4, <1>5, <1>6, <1>7, <1>8

LEMMA QuarantineKeeps ==
    ASSUME LevelsInv, Quarantine
    PROVE  LevelsInv'
<1> USE DEF LevelsInv
<1>1. PICK t \in todo :
        /\ saved' = saved /\ maxLevels' = maxLevels
        /\ running' = running /\ list' = list /\ nextID' = nextID
        /\ at = "repair" /\ at' = at /\ todo' = todo \ {t}
        /\ expired' = expired /\ kv' = kv
        /\ onDisk' = onDisk \ {t} /\ files' = [files EXCEPT ![t] = EmptyLayer]
        /\ damaged' = damaged \ {t} /\ unreadable' = unreadable /\ spoiled' = spoiled
  BY DEF Quarantine, listVars
<1>2. /\ ~running /\ ~unreadable /\ t \in damaged
      /\ IdsOf(saved.list) \subseteq onDisk \ damaged /\ todo \subseteq damaged
  BY <1>1 DEF DamageInv, LevelControl
<1>3. EmptyLayer \in Layer
  BY DEF EmptyLayer, Layer
<1>4. LevelTypes'
  BY <1>1, <1>3 DEF LevelTypes
<1>5. \A u \in TableID \ {t} : files'[u] = files[u]
  BY <1>1 DEF LevelTypes
<1>6. \A u \in IdsOf(saved.list) : u \in TableID /\ u # t /\ files'[u] = files[u]
  BY <1>2, <1>5, ListedBelow
<1>7. ListInv' /\ \A k : Lookup(saved.list, k)' = Lookup(saved.list, k)
  BY <1>1, <1>6, ListStays DEF LevelTypes
<1>8. LevelControl'
  <2>1. \A u \in onDisk' : u \in onDisk /\ files'[u] = files[u]
    BY <1>1, <1>5 DEF LevelTypes
  <2>2. \A u \in onDisk' : KeysOf(files[u])' # {}
    BY <2>1 DEF LevelControl, KeysOf
  <2> QED BY <1>1, <1>2, <2>2 DEF LevelControl
<1>9. DamageInv'
  <2>1. damaged' \subseteq onDisk' \cup IdsOf(saved.list)
    BY <1>1 DEF DamageInv
  <2>2. IdsOf(saved.list) \subseteq onDisk' \ damaged'
    BY <1>1, <1>2
  <2>3. todo' \subseteq damaged'
    BY <1>1, <1>2
  <2>4. IdsOf(saved.list)' = IdsOf(saved.list)
    BY <1>1 DEF IdsOf
  <2> QED BY <1>1, <1>2, <2>1, <2>2, <2>3, <2>4 DEF DamageInv
<1>10. SpoiledInv'
  BY <1>1, <1>2 DEF SpoiledInv, IdsOf
<1>11. AnswersInv'
  BY <1>1, <1>7, AnswersStay
<1>12. JobInv' /\ FreshInv'
  BY <1>1, <1>2 DEF JobInv, FreshInv
<1> QED BY <1>4, <1>7, <1>8, <1>9, <1>10, <1>11, <1>12

LEMMA EndRepairKeeps ==
    ASSUME LevelsInv, EndRepair
    PROVE  LevelsInv'
<1> USE DEF LevelsInv
<1>1. /\ files' = files /\ onDisk' = onDisk /\ saved' = saved /\ maxLevels' = maxLevels
      /\ at = "repair" /\ running' = running /\ list' = list /\ nextID' = nextID
      /\ at' = "idle" /\ todo' = {}
      /\ expired' = expired /\ kv' = kv
      /\ damaged' = damaged /\ unreadable' = unreadable /\ spoiled' = spoiled
  BY DEF EndRepair, fileVars, listVars, damageVars
<1>2. ~running
  BY <1>1 DEF LevelControl
<1>3. LevelTypes'
  BY <1>1 DEF LevelTypes
<1>4. ListInv' /\ \A k : Lookup(saved.list, k)' = Lookup(saved.list, k)
  BY <1>1, ListStays DEF LevelTypes
<1>5. LevelControl'
  BY <1>1, <1>2 DEF LevelControl, KeysOf
<1>6. DamageInv'
  BY <1>1, <1>2 DEF DamageInv, IdsOf
<1>7. SpoiledInv'
  BY <1>1 DEF SpoiledInv, IdsOf, KeysOf
<1>8. AnswersInv'
  BY <1>1, <1>4, AnswersStay
<1>9. JobInv' /\ FreshInv'
  BY <1>1, <1>2 DEF JobInv, FreshInv
<1> QED BY <1>3, <1>4, <1>5, <1>6, <1>7, <1>8, <1>9

LEMMA OpenKeeps ==
    ASSUME LevelsInv, OpenRepaired
    PROVE  LevelsInv'
<1> USE DEF LevelsInv
<1> DEFINE next == Max({saved.next, HighestTable + 1})
<1>1. /\ files' = files /\ onDisk' = onDisk /\ saved' = saved /\ maxLevels' \in Levelings
      /\ ~running /\ running' = TRUE /\ list' = saved.list /\ nextID' = next
      /\ at = "idle" /\ at' = "idle"
      /\ expired' = expired /\ kv' = kv
      /\ damaged' = damaged /\ unreadable' = unreadable /\ spoiled' = spoiled
      /\ ~unreadable /\ IdsOf(saved.list) \cap damaged = {}
  BY DEF OpenRepaired, Open, fileVars, jobVars, damageVars
<1>2. next \in Nat \ {0} /\ next >= saved.next /\ \A t \in onDisk : t < next
  <2>1. onDisk \cup {0} \subseteq 0..MaxTable
    BY LevelsTypes DEF LevelTypes, TableID
  <2>2. onDisk \cup {0} \in Indices
    BY <2>1, LevelsTypes, IntervalIndices, SubsetIndices
  <2>3. HighestTable \in Nat /\ \A t \in onDisk : t <= HighestTable
    BY <2>2, MaxIsGreatest DEF HighestTable
  <2>4. saved.next \in Nat \ {0} /\ HighestTable + 1 \in Nat
    BY <2>3 DEF LevelTypes
  <2>5. next \in Nat /\ next >= saved.next /\ next >= HighestTable + 1
    BY <2>4, MaxOfTwo
  <2>6. \A t \in onDisk : t \in Nat
    BY DEF LevelTypes, TableID
  <2> HIDE DEF next
  <2> QED BY <2>3, <2>4, <2>5, <2>6
<1> HIDE DEF next
<1>3. LevelTypes'
  BY <1>1, <1>2 DEF LevelTypes
<1>4. ListInv' /\ \A k : Lookup(saved.list, k)' = Lookup(saved.list, k)
  <2>1. SameLevels => maxLevels' = maxLevels
    BY <1>1 DEF SameLevels, LevelTypes
  <2> QED BY <1>1, <2>1, ListStays DEF LevelTypes
<1>5. LevelControl'
  BY <1>1, <1>2 DEF LevelControl, KeysOf
<1>6. DamageInv'
  <2>1. damaged \subseteq onDisk
    BY <1>1 DEF DamageInv
  <2> QED BY <1>1, <1>2, <2>1 DEF DamageInv, IdsOf
<1>7. SpoiledInv'
  BY <1>1 DEF SpoiledInv, IdsOf, KeysOf
<1>8. AnswersInv'
  BY <1>1, <1>4, AnswersStay
<1>9. JobInv' /\ FreshInv'
  BY <1>1, <1>2 DEF JobInv, FreshInv
<1> QED BY <1>3, <1>4, <1>5, <1>6, <1>7, <1>8, <1>9

-----------------------------------------------------------------------------
(* A flush.                                                                *)

LEMMA FindSame ==
    ASSUME NEW l, NEW f, NEW g, \A t \in IdsOf(l) : f[t] = g[t]
    PROVE  TablesIn(f, l) = TablesIn(g, l) /\ \A k : Find(f, l, k) = Find(g, l, k)
<1>1. \A i \in DOMAIN l : f[l[i].id] = g[l[i].id]
  BY DEF IdsOf
<1>2. TablesIn(f, l) = TablesIn(g, l)
  BY <1>1 DEF TablesIn
<1> QED BY <1>2 DEF Find

LEMMA FlushKeeps ==
    ASSUME LevelsInv, running, NEW data \in Batches, Flush(data), UNCHANGED damageVars
    PROVE  LevelsInv'
<1> USE DEF LevelsInv
<1> DEFINE e == [id |-> nextID, level |-> 0]
           one == <<e>>
           next == nextID + 1
<1>1. /\ running' = running /\ maxLevels' = maxLevels /\ expired' = expired
      /\ at = "idle" /\ at' = "idle" /\ job' = job /\ todo' = todo
      /\ nextID \in TableID \ onDisk
      /\ files' = [files EXCEPT ![nextID] = data]
      /\ onDisk' = onDisk \cup {nextID}
      /\ list' = Append(list, e) /\ nextID' = next
      /\ saved' = [list |-> list', next |-> next]
      /\ kv' = [k \in Key |-> IF data[k] = Absent THEN kv[k] ELSE Answer(data[k])]
      /\ damaged' = damaged /\ unreadable' = unreadable /\ spoiled' = spoiled
  BY DEF Flush, Flushed, jobVars, damageVars
<1>2. nextID \in Nat \ {0} /\ next \in Nat \ {0}
  BY DEF LevelTypes
<1>3. e \in TableEntry /\ e.id = nextID /\ e.level = 0
  BY <1>1 DEF TableEntry
<1>4. /\ list = saved.list /\ list \in Seq(TableEntry) /\ one \in Seq(TableEntry)
      /\ saved'.list = list \o one /\ saved'.next = next /\ list' = saved'.list
      /\ DOMAIN one = {1} /\ one[1] = e
  <2>1. list = saved.list /\ list \in Seq(TableEntry)
    BY DEF LevelControl, LevelTypes
  <2>2. saved'.list = list' /\ saved'.next = next
    BY <1>1
  <2> HIDE DEF e
  <2>3. one \in Seq(TableEntry) /\ DOMAIN one = {1} /\ one[1] = e
    BY <1>3
  <2>4. list' = list \o one
    BY <1>1, <1>3, <2>1
  <2> QED BY <2>1, <2>2, <2>3, <2>4
<1>5. data \in Layer /\ KeysOf(data) # {} /\ DOMAIN data = Key
  <2>1. data \in Layer /\ data # EmptyLayer
    BY LevelsTypes
  <2>2. \E k \in Key : data[k] # Absent
    BY <2>1 DEF Layer, EmptyLayer
  <2> QED BY <2>1, <2>2 DEF KeysOf, Layer
<1>6. \A i \in DOMAIN list : /\ list[i] \in TableEntry /\ list[i].id \in TableID
                             /\ list[i].id < nextID /\ list[i].id # nextID
                             /\ files'[list[i].id] = files[list[i].id]
  <2> SUFFICES ASSUME NEW i \in DOMAIN list
               PROVE  /\ list[i] \in TableEntry /\ list[i].id \in TableID
                      /\ list[i].id < nextID /\ list[i].id # nextID
                      /\ files'[list[i].id] = files[list[i].id]
    OBVIOUS
  <2>1. list[i] \in TableEntry /\ list[i].id \in IdsOf(saved.list)
    BY <1>4 DEF IdsOf
  <2>2. list[i].id \in TableID /\ list[i].id < nextID
    BY <2>1, ListedBelow
  <2>3. list[i].id # nextID
    BY <1>2, <2>2 DEF TableID
  <2> QED BY <1>1, <2>1, <2>2, <2>3 DEF LevelTypes
<1>7. files'[nextID] = data /\ \A t \in TableID : t # nextID => files'[t] = files[t]
  BY <1>1 DEF LevelTypes
<1> HIDE DEF e, one, next
<1>8. LevelTypes'
  <2>1. files' \in [TableID -> Layer]
    BY <1>1, <1>5 DEF LevelTypes
  <2>2. onDisk' \in SUBSET TableID
    BY <1>1 DEF LevelTypes
  <2>3. saved'.list \in Seq(TableEntry)
    BY <1>4
  <2> QED BY <1>1, <1>2, <1>4, <2>1, <2>2, <2>3 DEF LevelTypes
<1>9. DOMAIN one = {1} /\ one[1] = e
  BY <1>4
<1>10. Elements(list) = {list[i] : i \in DOMAIN list} /\ Elements(one) = {e}
  BY <1>9 DEF Elements
<1>11. /\ Pairs(saved'.list, Fitting')
       /\ Elements(saved'.list) = Elements(list) \cup {e}
  <2>1. Pairs(list, Fitting')
    <3> SUFFICES ASSUME NEW i \in DOMAIN list, NEW j \in DOMAIN list, i < j
                 PROVE  <<list[i], list[j]>> \in Fitting'
      BY DEF Pairs
    <3>1. <<list[i], list[j]>> \in Fitting
      BY <1>4 DEF ListInv, Pairs
    <3> QED BY <1>6, <3>1 DEF Fitting, KeysOf
  <2>2. Pairs(one, Fitting')
    BY <1>9 DEF Pairs
  <2>3. \A x \in Elements(list), y \in Elements(one) : <<x, y>> \in Fitting'
    <3> SUFFICES ASSUME NEW i \in DOMAIN list PROVE <<list[i], e>> \in Fitting'
      BY <1>10
    <3>1. list[i].level \in Nat /\ list[i] \in TableEntry
      BY <1>6 DEF TableEntry
    <3>2. list[i].level >= e.level /\ list[i].id # e.id
      BY <1>3, <1>6, <3>1
    <3> QED BY <1>3, <3>1, <3>2 DEF Fitting
  <2> QED BY <1>4, <1>10, <2>1, <2>2, <2>3, ConcatPairs
<1>12. \A i \in DOMAIN saved'.list : saved'.list[i] = e \/ \E j \in DOMAIN list : saved'.list[i] = list[j]
  BY <1>10, <1>11 DEF Elements
<1>13. ListInv'
  <2> SUFFICES ASSUME NEW i \in DOMAIN saved'.list
               PROVE  /\ KeysOf(files'[saved'.list[i].id]) # {}
                      /\ saved'.list[i].id < saved'.next
                      /\ SameLevels => saved'.list[i].level < maxLevels
    BY <1>1, <1>11 DEF ListInv, KeysOf
  <2>1. CASE saved'.list[i] = e
    <3>1. nextID < next
      BY <1>2 DEF next
    <3>2. 0 < maxLevels
      BY LevelsTypes DEF LevelTypes
    <3> QED BY <1>3, <1>4, <1>5, <1>7, <2>1, <3>1, <3>2
  <2>2. CASE \E j \in DOMAIN list : saved'.list[i] = list[j]
    <3>1. PICK j \in DOMAIN list : saved'.list[i] = list[j]
      BY <2>2
    <3>2. list[j].id < next
      BY <1>2, <1>6 DEF next, TableID
    <3>3. /\ KeysOf(files[list[j].id]) # {}
          /\ SameLevels => list[j].level < maxLevels
      BY <1>4 DEF ListInv
    <3> QED BY <1>4, <1>6, <3>1, <3>2, <3>3
  <2> QED BY <1>12, <2>1, <2>2
<1>14. IdsOf(saved'.list) \subseteq IdsOf(saved.list) \cup {nextID}
  BY <1>3, <1>4, <1>12 DEF IdsOf
<1>15. LevelControl'
  <2>1. \A t \in onDisk' : KeysOf(files'[t]) # {}
    BY <1>1, <1>5, <1>7 DEF LevelControl, LevelTypes
  <2>2. \A t \in onDisk' : KeysOf(files[t])' # {}
    BY <2>1 DEF KeysOf
  <2>3. saved'.next <= nextID'
    BY <1>1, <1>2, <1>4
  <2> QED BY <1>1, <1>4, <2>2, <2>3 DEF LevelControl
<1>16. DamageInv' /\ SpoiledInv'
  <2>1. /\ ~unreadable /\ damaged \cap IdsOf(saved.list) = {}
        /\ \A t \in damaged : t < nextID /\ t \in TableID
        /\ damaged \subseteq onDisk
    BY DEF DamageInv, LevelTypes
  <2>2. nextID \notin damaged /\ \A t \in damaged : t < next
    BY <1>2, <2>1 DEF next, TableID
  <2>3. damaged \cap IdsOf(saved'.list) = {}
    BY <1>14, <2>1, <2>2
  <2>4. IdsOf(saved.list)' = IdsOf(saved'.list)
    BY DEF IdsOf
  <2>5. DamageInv'
    <3>1. IdsOf(saved'.list) \subseteq onDisk' \cup damaged'
      BY <1>1, <1>14 DEF DamageInv
    <3> QED BY <1>1, <2>1, <2>2, <2>3, <2>4, <3>1 DEF DamageInv
  <2>6. SpoiledInv'
    BY <1>1, <2>1, <2>3, <2>4 DEF SpoiledInv
  <2> QED BY <2>5, <2>6
<1>17. \A k \in Key : Lookup(saved.list, k)' = Over(data[k], Lookup(saved.list, k))
  <2> TAKE k \in Key
  <2>1. Lookup(saved.list, k)' = Find(files', saved'.list, k)
    BY DEF Lookup, Tables, Find, TablesIn
  <2>2. Find(files', saved'.list, k) = Over(Find(files', one, k), Find(files', list, k))
    BY <1>4, FindConcat
  <2>3. Find(files', one, k) = data[k]
    <3>1. TablesIn(files', one) = [i \in {1} |-> data]
      BY <1>3, <1>7, <1>9 DEF TablesIn
    <3>2. Newest([i \in {1} |-> data], {1}, k) = [i \in {1} |-> data][1][k]
      BY NewestOne
    <3>3. [i \in {1} |-> data][1] = data
      OBVIOUS
    <3> QED BY <1>9, <3>1, <3>2, <3>3 DEF Find
  <2>4. Find(files', list, k) = Lookup(saved.list, k)
    <3>1. \A t \in IdsOf(list) : files'[t] = files[t]
      BY <1>6 DEF IdsOf
    <3>2. Find(files', list, k) = Find(files, list, k)
      BY <3>1, FindSame
    <3> QED BY <1>4, <3>2 DEF Lookup, Tables, Find, TablesIn
  <2> QED BY <2>1, <2>2, <2>3, <2>4
<1>18. AnswersInv'
  <2> SUFFICES ASSUME SameLevels, NEW k \in Key, k \notin spoiled
               PROVE  Told(k, Answer(Lookup(saved.list, k)))'
    BY <1>1 DEF AnswersInv
  <2>1. Told(k, Answer(Lookup(saved.list, k)))
    BY DEF AnswersInv
  <2>2. kv'[k] = IF data[k] = Absent THEN kv[k] ELSE Answer(data[k])
    BY <1>1
  <2>3. Answer(Lookup(saved.list, k))'
          = IF data[k] = Absent THEN Answer(Lookup(saved.list, k)) ELSE Answer(data[k])
    BY <1>17 DEF Over, Answer
  <2>4. MayVanish(k)' = MayVanish(k)
    BY <1>1 DEF MayVanish
  <2> QED BY <2>1, <2>2, <2>3, <2>4 DEF Told
<1>19. JobInv'
  BY <1>1 DEF JobInv
<1>20. FreshInv'
  <2> SUFFICES ASSUME CleanupSucceeds, NEW t \in onDisk' PROVE t < next
    BY <1>1 DEF FreshInv
  <2>1. t \in onDisk => t < nextID
    BY <1>1 DEF FreshInv
  <2>2. t \in TableID
    BY <1>8 DEF LevelTypes
  <2> QED BY <1>1, <1>2, <2>1, <2>2 DEF next, TableID
<1> QED BY <1>8, <1>13, <1>15, <1>16, <1>18, <1>19, <1>20

-----------------------------------------------------------------------------
(* A repair.                                                               *)

LEMMA ByNameOf ==
    ASSUME LevelTypes
    PROVE  /\ ByName \in Seq(TableEntry)
           /\ Pairs(ByName, Fitting)
           /\ \A i \in DOMAIN ByName : ByName[i].level = 0
<1> DEFINE n == Cardinality(onDisk)
           entry(m) == [id |-> Nth(onDisk, m - 1), level |-> 0]
<1>1. onDisk \in Indices
  <2>1. onDisk \subseteq 1..MaxTable
    BY DEF LevelTypes, TableID
  <2> QED BY <2>1, LevelsTypes, IntervalIndices, SubsetIndices
<1>2. n \in Nat
  BY <1>1, FS_CardinalityType DEF Indices
<1>3. ByName = [m \in 1..n |-> entry(m)]
  BY DEF ByName
<1>4. \A m \in 1..n : Nth(onDisk, m - 1) \in onDisk
  <2> SUFFICES ASSUME NEW m \in 1..n PROVE Nth(onDisk, m - 1) \in onDisk
    OBVIOUS
  <2>1. m - 1 \in 0..(n - 1)
    BY <1>2
  <2> QED BY <1>1, <2>1, NthOf
<1>5. \A m \in 1..n : entry(m) \in TableEntry
  BY <1>4 DEF LevelTypes, TableEntry
<1>6. \A i \in 1..n, j \in 1..n : i < j => Nth(onDisk, i - 1) # Nth(onDisk, j - 1)
  <2> SUFFICES ASSUME NEW i \in 1..n, NEW j \in 1..n, i < j
               PROVE  Nth(onDisk, i - 1) # Nth(onDisk, j - 1)
    OBVIOUS
  <2>1. i - 1 \in 0..(n - 1) /\ j - 1 \in 0..(n - 1) /\ i - 1 < j - 1
    BY <1>2
  <2>2. Nth(onDisk, i - 1) < Nth(onDisk, j - 1)
    BY <1>1, <2>1, NthAscends
  <2>3. Nth(onDisk, i - 1) \in Nat
    BY <1>1, <1>4 DEF Indices
  <2> QED BY <2>2, <2>3
<1> HIDE DEF n
<1>7. \A m \in 1..n : entry(m).id = Nth(onDisk, m - 1) /\ entry(m).level = 0
  OBVIOUS
<1> HIDE DEF entry
<1>8. ByName \in Seq(TableEntry) /\ DOMAIN ByName = 1..n /\ \A m \in 1..n : ByName[m] = entry(m)
  BY <1>2, <1>3, <1>5
<1>9. Pairs(ByName, Fitting)
  <2> SUFFICES ASSUME NEW i \in 1..n, NEW j \in 1..n, i < j
               PROVE  <<entry(i), entry(j)>> \in Fitting
    BY <1>8 DEF Pairs
  <2>1. entry(i) \in TableEntry /\ entry(j) \in TableEntry
    BY <1>5
  <2>2. entry(i).id # entry(j).id /\ entry(i).level = 0 /\ entry(j).level = 0
    BY <1>6, <1>7
  <2> QED BY <2>1, <2>2 DEF Fitting
<1> QED BY <1>7, <1>8, <1>9

LEMMA CandidatesOf ==
    ASSUME LevelTypes, ListInv
    PROVE  /\ Candidates \in Seq(TableEntry)
           /\ Pairs(Candidates, Fitting)
           /\ SameLevels => \A i \in DOMAIN Candidates : Candidates[i].level < maxLevels
<1>1. CASE unreadable
  <2>1. 0 < maxLevels
    BY LevelsTypes DEF LevelTypes
  <2> QED BY <1>1, <2>1, ByNameOf DEF Candidates
<1>2. CASE ~unreadable
  BY <1>2 DEF Candidates, ListInv, LevelTypes
<1> QED BY <1>1, <1>2

LEMMA RepairManifestKeeps ==
    ASSUME LevelsInv, RepairManifest
    PROVE  LevelsInv'
<1> USE DEF LevelsInv
<1> DEFINE good == {i \in DOMAIN Candidates : Healthy(Candidates[i])}
           next == NextAfter(RepairedList)
<1>1. /\ files' = files /\ onDisk' = onDisk /\ maxLevels' = maxLevels /\ ~running
      /\ running' = running /\ list' = list /\ nextID' = nextID /\ job' = job
      /\ at = "idle" /\ at' = "repair"
      /\ saved' = [list |-> RepairedList, next |-> next]
      /\ todo' = IdsOf(Candidates) \cap damaged \cap onDisk
      /\ expired' = expired /\ kv' = kv
      /\ damaged' = damaged \cap onDisk /\ unreadable' = FALSE /\ spoiled' = spoiled
  BY DEF RepairManifest, listVars
<1>2. saved'.list = RepairedList /\ saved'.next = next
  BY <1>1
<1>3. /\ RepairedList \in Seq(TableEntry)
      /\ Pairs(RepairedList, Fitting)
      /\ Elements(RepairedList) = {Candidates[i] : i \in good}
  <2>1. RepairedList = Pick(Candidates, good) /\ good \subseteq DOMAIN Candidates
    BY DEF RepairedList
  <2> HIDE DEF good
  <2> QED BY <2>1, CandidatesOf, PickOf, PickPairs
<1>4. ASSUME NEW i \in DOMAIN RepairedList
      PROVE  /\ RepairedList[i] \in TableEntry
             /\ RepairedList[i].id \in onDisk \ damaged
             /\ SameLevels => RepairedList[i].level < maxLevels
  <2>1. RepairedList[i] \in Elements(RepairedList)
    BY DEF Elements
  <2>2. PICK j \in good : RepairedList[i] = Candidates[j]
    BY <1>3, <2>1
  <2> QED BY <1>3, <2>2, CandidatesOf DEF Healthy
<1>5. IdsOf(RepairedList) \subseteq onDisk \ damaged
  BY <1>4 DEF IdsOf
<1>6. next \in Nat \ {0} /\ \A t \in IdsOf(RepairedList) : t < next
  <2> DEFINE ids == IdsOf(RepairedList) \cup {0}
  <2>1. ids \subseteq 0..MaxTable
    <3>1. IdsOf(RepairedList) \subseteq 1..MaxTable
      BY <1>5 DEF LevelTypes, TableID
    <3>2. 1..MaxTable \subseteq 0..MaxTable /\ 0 \in 0..MaxTable
      BY LevelsTypes
    <3> QED BY <3>1, <3>2
  <2>2. ids \in Indices
    BY <2>1, LevelsTypes, IntervalIndices, SubsetIndices
  <2>3. Max(ids) \in Nat /\ \A t \in ids : t <= Max(ids) /\ t \in Nat
    BY <2>2, MaxIsGreatest DEF Indices
  <2>4. next = Max(ids) + 1
    BY DEF NextAfter
  <2> HIDE DEF ids, next
  <2>5. \A t \in IdsOf(RepairedList) : t \in ids
    BY DEF ids
  <2> QED BY <2>3, <2>4, <2>5
<1> HIDE DEF next, good
<1>7. LevelTypes'
  BY <1>1, <1>2, <1>3, <1>6 DEF LevelTypes
<1>8. ListInv'
  <2>1. Fitting' = Fitting
    BY <1>1 DEF Fitting, KeysOf
  <2>2. Pairs(saved'.list, Fitting')
    BY <1>2, <1>3, <2>1
  <2>3. \A i \in DOMAIN RepairedList : KeysOf(files[RepairedList[i].id]) # {}
    BY <1>4 DEF LevelControl
  <2>4. \A i \in DOMAIN saved'.list : KeysOf(files'[saved'.list[i].id]) # {}
    BY <1>1, <1>2, <2>3
  <2>5. \A i \in DOMAIN saved'.list : saved'.list[i].id < saved'.next
    BY <1>2, <1>6 DEF IdsOf
  <2>6. SameLevels => \A i \in DOMAIN saved'.list : saved'.list[i].level < maxLevels'
    BY <1>1, <1>2, <1>4
  <2> QED BY <2>2, <2>4, <2>5, <2>6 DEF ListInv, Pairs, KeysOf
<1>9. LevelControl'
  BY <1>1 DEF LevelControl, KeysOf
<1>10. DamageInv' /\ SpoiledInv'
  <2>1. IdsOf(saved.list)' = IdsOf(RepairedList)
    BY <1>2 DEF IdsOf
  <2>2. IdsOf(RepairedList) \subseteq onDisk' \ damaged' /\ todo' \subseteq damaged'
    BY <1>1, <1>5
  <2> QED BY <1>1, <2>1, <2>2 DEF DamageInv, SpoiledInv
<1>11. AnswersInv'
  <2> SUFFICES ASSUME SameLevels, NEW k \in Key, k \notin spoiled
               PROVE  Told(k, Answer(Lookup(saved.list, k)))'
    BY <1>1 DEF AnswersInv
  <2>1. ~unreadable /\ Candidates = saved.list
    BY DEF SpoiledInv, Candidates
  <2>2. saved.list \in Seq(TableEntry) /\ DOMAIN saved.list \in Indices
    <3>1. saved.list \in Seq(TableEntry)
      BY DEF LevelTypes
    <3>2. DOMAIN saved.list = 1..Len(saved.list) /\ Len(saved.list) \in Nat
      BY <3>1
    <3> QED BY <3>1, <3>2, IntervalIndices
  <2>3. RepairedList = Pick(saved.list, good) /\ good \subseteq DOMAIN saved.list
    BY <2>1 DEF RepairedList, good
  <2>4. Find(files, RepairedList, k) = Newest(TablesIn(files, saved.list), good, k)
    BY <2>2, <2>3, FindPick
  <2>5. \A i \in DOMAIN saved.list \ good : TablesIn(files, saved.list)[i][k] = Absent
    <3> SUFFICES ASSUME NEW i \in DOMAIN saved.list, i \notin good
                 PROVE  files[saved.list[i].id][k] = Absent
      BY DEF TablesIn
    <3>1. saved.list[i].id \in damaged
      BY <2>1 DEF good, Healthy, DamageInv, IdsOf
    <3>2. KeysOf(files[saved.list[i].id]) \subseteq spoiled
      BY <3>1 DEF SpoiledInv, IdsOf
    <3> QED BY <3>2 DEF KeysOf
  <2>6. Newest(TablesIn(files, saved.list), good, k)
          = Newest(TablesIn(files, saved.list), DOMAIN saved.list, k)
    BY <2>2, <2>3, <2>5, NewestWiden
  <2>7. Lookup(saved.list, k)' = Lookup(saved.list, k)
    <3>1. Lookup(saved.list, k)' = Find(files, RepairedList, k)
      BY <1>1, <1>2 DEF Lookup, Tables, Find, TablesIn
    <3>2. Lookup(saved.list, k) = Find(files, saved.list, k)
      BY DEF Lookup, Tables, Find, TablesIn
    <3> QED BY <2>4, <2>6, <3>1, <3>2 DEF Find
  <2> QED BY <1>1, <2>7 DEF AnswersInv, Told, MayVanish
<1>12. JobInv' /\ FreshInv'
  BY <1>1 DEF JobInv, FreshInv
<1> QED BY <1>7, <1>8, <1>9, <1>10, <1>11, <1>12

-----------------------------------------------------------------------------
(* A compaction is planned.                                                *)

HeldBy(i) == KeysOf(files[list[i].id])

LEMMA RunningList ==
    ASSUME LevelTypes, LevelControl, ListInv, running
    PROVE  /\ list = saved.list /\ list \in Seq(TableEntry) /\ DOMAIN list \in Indices
           /\ \A i \in DOMAIN list :
                 /\ list[i] \in TableEntry /\ list[i].id \in TableID /\ list[i].level \in Nat
                 /\ i \in Nat
                 /\ HeldBy(i) # {} /\ HeldBy(i) \in Indices /\ HeldBy(i) \subseteq Key
                 /\ Tables(list)[i] \in Layer
                 /\ SameLevels => list[i].level < maxLevels
           /\ \A i, j \in DOMAIN list : i < j =>
                 /\ list[i].id # list[j].id
                 /\ list[i].level >= list[j].level
                 /\ list[i].level = list[j].level /\ list[i].level > 0
                       => Apart(HeldBy(i), HeldBy(j))
<1>1. list = saved.list /\ list \in Seq(TableEntry)
  BY DEF LevelControl, LevelTypes
<1>2. DOMAIN list = 1..Len(list) /\ Len(list) \in Nat
  BY <1>1
<1>3. DOMAIN list \in Indices
  BY <1>2, IntervalIndices
<1>4. \A i \in DOMAIN list : list[i] \in TableEntry /\ i \in Nat
  BY <1>1, <1>2
<1>5. ASSUME NEW i \in DOMAIN list
      PROVE  /\ list[i].id \in TableID /\ list[i].level \in Nat
             /\ Tables(list)[i] \in Layer
             /\ HeldBy(i) # {} /\ HeldBy(i) \in Indices /\ HeldBy(i) \subseteq Key
             /\ SameLevels => list[i].level < maxLevels
  <2>1. list[i].id \in TableID /\ list[i].level \in Nat
    BY <1>4 DEF TableEntry
  <2>2. Tables(list)[i] \in Layer
    BY <2>1 DEF Tables, LevelTypes
  <2>3. HeldBy(i) # {} /\ (SameLevels => list[i].level < maxLevels)
    BY <1>1 DEF ListInv, HeldBy
  <2>4. HeldBy(i) \in Indices /\ HeldBy(i) \subseteq Key
    BY KeysOfTypes DEF HeldBy
  <2> QED BY <2>1, <2>2, <2>3, <2>4
<1>6. ASSUME NEW i \in DOMAIN list, NEW j \in DOMAIN list, i < j
      PROVE  /\ list[i].id # list[j].id
             /\ list[i].level >= list[j].level
             /\ list[i].level = list[j].level /\ list[i].level > 0
                   => Apart(HeldBy(i), HeldBy(j))
  <2>1. <<list[i], list[j]>> \in Fitting
    BY <1>1, <1>6 DEF ListInv, Pairs
  <2> QED BY <2>1 DEF Fitting, HeldBy
<1> QED BY <1>1, <1>3, <1>4, <1>5, <1>6

(* PlaceFree of a compaction that is only planned.                         *)
Placed(inputs, target) ==
    \A i \in DOMAIN list \ inputs :
        /\ i < Max(inputs) => list[i].level >= target
        /\ i > Max(inputs) => list[i].level < target
        /\ list[i].level > target => \A e \in inputs : i < e
        /\ list[i].level = target => Apart(HeldBy(i), UNION {HeldBy(e) : e \in inputs})

LEMMA BeginKeeps ==
    ASSUME LevelsInv, running, UNCHANGED damageVars,
           NEW inputs \in SUBSET (DOMAIN list), NEW target \in Nat \ {0},
           NEW bottom \in BOOLEAN, NEW cuts \in SUBSET Nat, NEW full,
           Begin(inputs, target, bottom, cuts, full),
           SameLevels => target < maxLevels,
           Placed(inputs, target),
           bottom /\ SameLevels =>
              \A i \in DOMAIN list \ inputs : list[i].level <= target
    PROVE  LevelsInv'
<1> USE DEF LevelsInv
<1> DEFINE merged == Merged(inputs, bottom)
           outputs == Split(merged, cuts)
<1>1. /\ files' = files /\ onDisk' = onDisk /\ saved' = saved /\ running' = running
      /\ maxLevels' = maxLevels /\ list' = list /\ nextID' = nextID
      /\ failed' = failed /\ expired' = expired /\ kv' = kv
      /\ at = "idle" /\ at' = "write" /\ inputs # {}
      /\ job' = [inputs |-> inputs, target |-> target, outputs |-> outputs, full |-> full]
      /\ nextID + Len(job'.outputs) - 1 <= MaxTable
      /\ todo' = DOMAIN job'.outputs
      /\ damaged' = damaged /\ unreadable' = unreadable /\ spoiled' = spoiled
  BY DEF Begin, fileVars, listVars, damageVars
<1>2. job'.inputs = inputs /\ job'.target = target /\ job'.outputs = outputs
  BY <1>1
<1>3. inputs \in Indices /\ \A i \in inputs : Tables(list)[i] \in Layer
  BY RunningList, SubsetIndices
<1>4. /\ merged \in Layer
      /\ \A k \in Key : Compacted(k, Newest(Tables(list), inputs, k), merged[k], bottom)
  BY <1>3, MergedOf DEF LevelTypes
<1> HIDE DEF merged
<1>5. /\ outputs \in Seq(Layer) /\ Ascending(outputs)
      /\ \A j \in DOMAIN outputs : KeysOf(outputs[j]) # {}
      /\ \A k \in Key : Newest(outputs, DOMAIN outputs, k) = merged[k]
  BY <1>4, SplitOf
<1> HIDE DEF outputs
<1>6. LevelTypes' /\ LevelControl' /\ DamageInv' /\ SpoiledInv' /\ FreshInv'
  <2>1. LevelTypes'
    BY <1>1 DEF LevelTypes
  <2>2. LevelControl'
    BY <1>1 DEF LevelControl, KeysOf
  <2>3. DamageInv'
    BY <1>1 DEF DamageInv, IdsOf
  <2>4. SpoiledInv'
    BY <1>1 DEF SpoiledInv, IdsOf, KeysOf
  <2>5. FreshInv'
    BY <1>1 DEF FreshInv
  <2> QED BY <2>1, <2>2, <2>3, <2>4, <2>5
<1>7. ListInv' /\ \A k : Lookup(saved.list, k)' = Lookup(saved.list, k)
  BY <1>1, ListStays DEF LevelTypes
<1>8. AnswersInv'
  BY <1>1, <1>7, AnswersStay
<1>9. PlaceFree'
  <2>1. \A i : HeldBy(i) = KeysOf(files'[list'[i].id])
    BY <1>1 DEF HeldBy
  <2>2. InputKeys' = UNION {HeldBy(e) : e \in inputs}
    BY <1>1, <1>2 DEF InputKeys, HeldBy, KeysOf
  <2>3. OutputsAt' = Max(inputs)
    BY <1>2 DEF OutputsAt
  <2>4. \A i \in DOMAIN list' \ job'.inputs :
          /\ i < OutputsAt' => list'[i].level >= job'.target
          /\ i > OutputsAt' => list'[i].level < job'.target
          /\ list'[i].level > job'.target => \A e \in job'.inputs : i < e
          /\ list'[i].level = job'.target => Apart(KeysOf(files'[list'[i].id]), InputKeys')
    BY <1>1, <1>2, <2>1, <2>2, <2>3 DEF Placed
  <2> QED BY <2>4 DEF PlaceFree, KeysOf
<1>10. OutputsMerge'
  <2>1. Tables(list)' = Tables(list)
    BY <1>1 DEF Tables
  <2>2. \A k, e, entry : Compacted(k, e, entry, bottom)' <=> Compacted(k, e, entry, bottom)
    BY <1>1 DEF Compacted, MayVanish
  <2>3. \A k \in Key : Compacted(k, Newest(Tables(list), inputs, k),
                                 Newest(outputs, DOMAIN outputs, k), bottom)
    BY <1>4, <1>5
  <2>4. ASSUME NEW k \in Key
        PROVE  Compacted(k, Newest(Tables(list), job.inputs, k),
                         Newest(job.outputs, DOMAIN job.outputs, k), bottom)'
    <3>1. /\ Newest(Tables(list), job.inputs, k)' = Newest(Tables(list), inputs, k)
          /\ Newest(job.outputs, DOMAIN job.outputs, k)' = Newest(outputs, DOMAIN outputs, k)
      BY <1>2, <2>1
    <3> QED BY <2>2, <2>3, <3>1 DEF Compacted, MayVanish
  <2>5. bottom /\ SameLevels => \A i \in DOMAIN list' \ job'.inputs : list'[i].level <= job'.target
    BY <1>1, <1>2
  <2> QED BY <2>4, <2>5 DEF OutputsMerge
<1>11. JobInv'
  <2>1. WorkersDone' => DOMAIN outputs = {}
    BY <1>1, <1>2 DEF WorkersDone
  <2>2. job'.inputs \in SUBSET (DOMAIN list') /\ job'.inputs # {}
    BY <1>1, <1>2
  <2>3. job'.target \in Nat \ {0} /\ (SameLevels => job'.target < maxLevels')
    BY <1>1, <1>2
  <2>4. /\ job'.outputs \in Seq(Layer) /\ nextID' + Len(job'.outputs) - 1 <= MaxTable
        /\ \A j \in DOMAIN job'.outputs : KeysOf(job'.outputs[j]) # {}
        /\ todo' = DOMAIN job'.outputs
    BY <1>1, <1>2, <1>5
  <2>5. Ascending(job'.outputs)
    BY <1>2, <1>5
  <2> QED BY <1>2, <1>9, <1>10, <2>1, <2>2, <2>3, <2>4, <2>5 DEF JobInv, KeysOf, Ascending
<1> QED BY <1>6, <1>7, <1>8, <1>11

(* selectLevelCompaction chooses tables that their outputs can replace.    *)
LEMMA SelectLevelOf ==
    ASSUME LevelTypes, LevelControl, ListInv, running,
           NEW n \in Nat, AtLevel(n) # {}
    PROVE  /\ SelectLevel(n) \in SUBSET (DOMAIN list) /\ SelectLevel(n) # {}
           /\ Placed(SelectLevel(n), n + 1)
<1> DEFINE D == DOMAIN list
           sources == IF n = 0 THEN AtLevel(0) ELSE {Min(AtLevel(n))}
           min == Min({MinKey(list[i].id) : i \in sources})
           max == Max({MaxKey(list[i].id) : i \in sources})
           others == {i \in AtLevel(n + 1) :
                        RangesOverlap(min, max, MinKey(list[i].id), MaxKey(list[i].id))}
           inputs == sources \cup others
           inputKeys == UNION {HeldBy(e) : e \in inputs}
<1>1. SelectLevel(n) = inputs
  BY DEF SelectLevel
<1>2. /\ D \in Indices
      /\ \A i \in D : /\ list[i].level \in Nat /\ i \in Nat
                      /\ HeldBy(i) # {} /\ HeldBy(i) \in Indices /\ HeldBy(i) \subseteq Key
      /\ \A i, j \in D : i < j =>
           /\ list[i].level >= list[j].level
           /\ list[i].level = list[j].level /\ list[i].level > 0
                 => Apart(HeldBy(i), HeldBy(j))
  BY RunningList
<1>3. \A m : \A i \in AtLevel(m) : i \in D /\ list[i].level = m
  BY DEF AtLevel
<1>4. AtLevel(n) \in Indices
  <2>1. AtLevel(n) \subseteq D
    BY <1>3
  <2> QED BY <1>2, <2>1, SubsetIndices
<1>5. /\ sources # {} /\ \A i \in sources : i \in D /\ list[i].level = n
      /\ \A i \in AtLevel(n) : i \notin sources => n # 0 /\ \A j \in sources : j <= i
  <2>1. CASE n = 0
    BY <1>3, <2>1
  <2>2. CASE n # 0
    <3>1. Min(AtLevel(n)) \in AtLevel(n) /\ \A i \in AtLevel(n) : Min(AtLevel(n)) <= i
      BY <1>4, MinIsLeast
    <3> QED BY <1>3, <2>2, <3>1
  <2> QED BY <2>1, <2>2
<1>6. \A i \in others : i \in D /\ list[i].level = n + 1
  BY <1>3
<1>7. inputs \in SUBSET D /\ inputs # {} /\ inputs \in Indices
  <2>1. inputs \in SUBSET D /\ inputs # {}
    BY <1>5, <1>6
  <2> HIDE DEF inputs
  <2> QED BY <1>2, <2>1, SubsetIndices
<1>8. ASSUME NEW i \in D
      PROVE  /\ MinKey(list[i].id) \in HeldBy(i) /\ MaxKey(list[i].id) \in HeldBy(i)
             /\ \A k \in HeldBy(i) : /\ k \in Nat
                                     /\ MinKey(list[i].id) <= k /\ k <= MaxKey(list[i].id)
             /\ MinKey(list[i].id) \in Nat /\ MaxKey(list[i].id) \in Nat
  <2>1. HeldBy(i) \in Indices /\ HeldBy(i) # {}
    BY <1>2
  <2>2. MinKey(list[i].id) = Min(HeldBy(i)) /\ MaxKey(list[i].id) = Max(HeldBy(i))
    BY DEF MinKey, MaxKey, HeldBy
  <2> QED BY <2>1, <2>2, MinIsLeast, MaxIsGreatest DEF Indices
<1>9. /\ min \in Nat /\ max \in Nat
      /\ \A i \in sources : \A k \in HeldBy(i) : min <= k /\ k <= max
  <2> DEFINE mins == {MinKey(list[i].id) : i \in sources}
             maxs == {MaxKey(list[i].id) : i \in sources}
  <2>1. mins \subseteq Key /\ maxs \subseteq Key /\ mins # {} /\ maxs # {}
    BY <1>2, <1>5, <1>8
  <2>2. mins \in Indices /\ maxs \in Indices
    BY <2>1, LevelsTypes, SubsetIndices
  <2>3. \A i \in sources : MinKey(list[i].id) \in mins /\ MaxKey(list[i].id) \in maxs
    OBVIOUS
  <2> HIDE DEF mins, maxs, sources
  <2>4. /\ Min(mins) \in Nat /\ \A k \in mins : Min(mins) <= k
        /\ Max(maxs) \in Nat /\ \A k \in maxs : k <= Max(maxs)
    BY <2>1, <2>2, MinIsLeast, MaxIsGreatest DEF Indices
  <2>5. min = Min(mins) /\ max = Max(maxs)
    BY DEF mins, maxs
  <2> HIDE DEF min, max
  <2> SUFFICES ASSUME NEW i \in sources, NEW k \in HeldBy(i)
               PROVE  min <= k /\ k <= max
    BY <2>4, <2>5
  <2>6. i \in D
    BY <1>5
  <2>7. /\ k \in Nat /\ MinKey(list[i].id) \in Nat /\ MaxKey(list[i].id) \in Nat
        /\ MinKey(list[i].id) <= k /\ k <= MaxKey(list[i].id)
    BY <1>8, <2>6
  <2>8. min <= MinKey(list[i].id) /\ MaxKey(list[i].id) <= max
    BY <2>3, <2>4, <2>5
  <2> QED BY <2>4, <2>5, <2>7, <2>8
<1>10. \A i \in others : min <= MaxKey(list[i].id) /\ MinKey(list[i].id) <= max
  BY DEF RangesOverlap
<1>11. \A i \in AtLevel(n + 1) : i \notin others =>
          ~(min <= MaxKey(list[i].id)) \/ ~(MinKey(list[i].id) <= max)
  BY DEF RangesOverlap
<1>12. \A i \in AtLevel(n + 1) : i \in others \/ i \notin others
  OBVIOUS
<1>13. \A i \in inputs : i \in sources \/ i \in others
  OBVIOUS
<1>14. \A i \in D : i \notin inputs => i \notin sources /\ i \notin others
  OBVIOUS
<1>15. \A i \in sources : i \in inputs
  OBVIOUS
<1> HIDE DEF sources, min, max, others, inputs, D
(* The last input is a source.                                             *)
<1>16. PICK m \in sources : m = Max(inputs) /\ \A i \in inputs : i <= m
  <2>1. Max(inputs) \in inputs /\ \A i \in inputs : i <= Max(inputs)
    BY <1>7, MaxIsGreatest
  <2>2. CASE Max(inputs) \in sources
    BY <2>1, <2>2
  <2>3. CASE Max(inputs) \in others
    <3>1. PICK s \in sources : TRUE
      BY <1>5
    <3>2. /\ s \in D /\ Max(inputs) \in D /\ s <= Max(inputs)
          /\ list[s].level = n /\ list[Max(inputs)].level = n + 1
      BY <1>5, <1>6, <1>15, <2>1, <2>3, <3>1
    <3>3. s # Max(inputs)
      BY <3>2
    <3>4. s \in Nat /\ Max(inputs) \in Nat
      BY <1>2, <3>2
    <3>5. s < Max(inputs)
      BY <3>2, <3>3, <3>4
    <3>6. list[s].level >= list[Max(inputs)].level
      BY <1>2, <3>2, <3>5
    <3> QED BY <3>2, <3>6
  <2> QED BY <1>13, <2>1, <2>2, <2>3
<1>17. m \in D /\ m \in Nat /\ list[m].level = n
  BY <1>2, <1>5
<1>18. Placed(inputs, n + 1)
  <2> SUFFICES ASSUME NEW i \in D, i \notin inputs
               PROVE  /\ i < m => list[i].level >= n + 1
                      /\ i > m => list[i].level < n + 1
                      /\ list[i].level > n + 1 => \A e \in inputs : i < e
                      /\ list[i].level = n + 1 => Apart(HeldBy(i), inputKeys)
    BY <1>16 DEF Placed, D
  <2>1. i \in Nat /\ list[i].level \in Nat
    BY <1>2
  <2>2. ASSUME i < m PROVE list[i].level >= n + 1
    <3>1. list[i].level >= n
      BY <1>2, <1>17, <2>2
    <3>2. CASE list[i].level = n
      <4>1. i \in AtLevel(n)
        BY <3>2 DEF AtLevel, D
      <4>2. m <= i
        BY <1>5, <1>14, <4>1
      <4> QED BY <1>17, <2>1, <2>2, <4>2
    <3> QED BY <2>1, <3>1, <3>2
  <2>3. ASSUME i > m PROVE list[i].level < n + 1
    <3>1. m < i
      BY <1>17, <2>1, <2>3
    <3>2. n >= list[i].level
      BY <1>2, <1>17, <3>1
    <3> QED BY <2>1, <3>2
  <2>4. ASSUME list[i].level > n + 1, NEW e \in inputs PROVE i < e
    <3>1. e \in D /\ e \in Nat /\ list[e].level \in {n, n + 1}
      BY <1>2, <1>5, <1>6, <1>13
    <3>2. list[e].level < list[i].level
      BY <2>1, <2>4, <3>1
    <3>3. i # e
      BY <3>1, <3>2
    <3>4. CASE e < i
      <4>1. list[e].level >= list[i].level
        BY <1>2, <3>1, <3>4
      <4> QED BY <2>1, <3>1, <3>2, <4>1
    <3> QED BY <2>1, <3>1, <3>3, <3>4
  <2>5. ASSUME list[i].level = n + 1 PROVE Apart(HeldBy(i), inputKeys)
    <3>1. i \in AtLevel(n + 1) /\ i \notin others
      BY <1>14, <2>5 DEF AtLevel, D
    <3>2. /\ MinKey(list[i].id) \in Nat /\ MaxKey(list[i].id) \in Nat
          /\ MinKey(list[i].id) \in HeldBy(i) /\ MaxKey(list[i].id) \in HeldBy(i)
          /\ \A k \in HeldBy(i) : k \in Nat /\ MinKey(list[i].id) <= k /\ k <= MaxKey(list[i].id)
      BY <1>8
    <3>3. ASSUME NEW e \in others PROVE Apart(HeldBy(i), HeldBy(e))
      <4>1. e \in D /\ e \in Nat /\ list[e].level = n + 1 /\ e # i
        BY <1>2, <1>6, <3>1
      <4>2. list[i].level > 0 /\ list[i].level = list[e].level
        BY <2>5, <4>1
      <4>3. e < i \/ i < e
        BY <2>1, <4>1
      <4> QED BY <1>2, <4>1, <4>2, <4>3 DEF Apart
    <3>4. CASE ~(min <= MaxKey(list[i].id))
      <4>1. MaxKey(list[i].id) < min
        BY <1>9, <3>2, <3>4
      <4>2. ASSUME NEW e \in inputs, NEW a \in HeldBy(e), NEW b \in HeldBy(i) PROVE a > b
        <5>1. b \in Nat /\ b <= MaxKey(list[i].id)
          BY <3>2
        <5>2. CASE e \in sources
          <6>1. a \in Nat /\ min <= a
            BY <1>2, <1>5, <1>9, <5>2 DEF Indices
          <6> QED BY <1>9, <3>2, <4>1, <5>1, <6>1
        <5>3. CASE e \in others
          <6>1. /\ MaxKey(list[e].id) \in HeldBy(e) /\ MaxKey(list[e].id) \in Nat
                /\ min <= MaxKey(list[e].id)
            BY <1>6, <1>8, <1>10, <5>3
          <6>2. MaxKey(list[e].id) > MaxKey(list[i].id)
            BY <1>9, <3>2, <4>1, <6>1
          <6>3. ~Above(HeldBy(i), HeldBy(e))
            BY <3>2, <6>1, <6>2 DEF Above
          <6> QED BY <3>3, <5>3, <6>3 DEF Apart, Above
        <5> QED BY <1>13, <5>2, <5>3
      <4> QED BY <4>2 DEF Apart, Above
    <3>5. CASE ~(MinKey(list[i].id) <= max)
      <4>1. max < MinKey(list[i].id)
        BY <1>9, <3>2, <3>5
      <4>2. ASSUME NEW e \in inputs, NEW a \in HeldBy(e), NEW b \in HeldBy(i) PROVE b > a
        <5>1. b \in Nat /\ MinKey(list[i].id) <= b
          BY <3>2
        <5>2. CASE e \in sources
          <6>1. a \in Nat /\ a <= max
            BY <1>2, <1>5, <1>9, <5>2 DEF Indices
          <6> QED BY <1>9, <3>2, <4>1, <5>1, <6>1
        <5>3. CASE e \in others
          <6>1. /\ MinKey(list[e].id) \in HeldBy(e) /\ MinKey(list[e].id) \in Nat
                /\ MinKey(list[e].id) <= max
            BY <1>6, <1>8, <1>10, <5>3
          <6>2. MinKey(list[i].id) > MinKey(list[e].id)
            BY <1>9, <3>2, <4>1, <6>1
          <6>3. ~Above(HeldBy(e), HeldBy(i))
            BY <3>2, <6>1, <6>2 DEF Above
          <6> QED BY <3>3, <5>3, <6>3 DEF Apart, Above
        <5> QED BY <1>13, <5>2, <5>3
      <4> QED BY <4>2 DEF Apart, Above
    <3> QED BY <1>11, <3>1, <3>4, <3>5
  <2> QED BY <2>2, <2>3, <2>4, <2>5
<1> QED BY <1>1, <1>7, <1>18 DEF D

LEMMA CompactLevelKeeps ==
    ASSUME LevelsInv, running, UNCHANGED damageVars,
           NEW n \in Nat, CompactLevel(n)
    PROVE  LevelsInv'
<1> USE DEF LevelsInv
<1>1. /\ n \in 0..(maxLevels - 2) /\ AtLevel(n) # {}
      /\ Begin(SelectLevel(n), n + 1, Bottom(n), Cuts(SelectLevel(n)), FALSE)
  BY DEF CompactLevel
<1>2. maxLevels \in Nat /\ maxLevels >= 2
  BY LevelsTypes DEF LevelTypes
<1>3. PICK inputs \in SUBSET (DOMAIN list) :
        inputs = SelectLevel(n) /\ inputs # {} /\ Placed(inputs, n + 1)
  BY <1>1, SelectLevelOf
<1>4. inputs \in Indices
  BY RunningList, SubsetIndices
<1>5. PICK cuts \in SUBSET Nat : cuts = Cuts(inputs)
  BY <1>4, CutsAreKeys DEF Indices
<1>6. n + 1 \in Nat \ {0} /\ n + 1 < maxLevels
  BY <1>1, <1>2
<1>7. PICK bottom \in BOOLEAN : bottom = Bottom(n)
  BY DEF Bottom
<1>8. bottom /\ SameLevels => \A i \in DOMAIN list \ inputs : list[i].level <= n + 1
  <2> SUFFICES ASSUME bottom, SameLevels, NEW i \in DOMAIN list \ inputs
               PROVE  list[i].level <= n + 1
    OBVIOUS
  <2>1. n + 1 = maxLevels - 1
    BY <1>7 DEF Bottom
  <2>2. list[i].level \in Nat /\ list[i].level < maxLevels
    BY RunningList
  <2> QED BY <1>2, <2>1, <2>2
<1>9. Begin(inputs, n + 1, bottom, cuts, FALSE)
  BY <1>1, <1>3, <1>5, <1>7
<1> QED BY <1>3, <1>6, <1>8, <1>9, BeginKeeps

LEMMA CompactAllKeeps ==
    ASSUME LevelsInv, running, UNCHANGED damageVars, CompactAll
    PROVE  LevelsInv'
<1> USE DEF LevelsInv
<1>1. PICK inputs \in SUBSET (DOMAIN list) : inputs = DOMAIN list
  OBVIOUS
<1>2. Begin(inputs, 1, TRUE, {}, TRUE)
  BY <1>1 DEF CompactAll
<1>3. Placed(inputs, 1)
  BY <1>1 DEF Placed
<1>4. maxLevels \in Nat /\ 1 < maxLevels
  BY LevelsTypes DEF LevelTypes
<1>5. {} \in SUBSET Nat /\ 1 \in Nat \ {0} /\ TRUE \in BOOLEAN
  OBVIOUS
<1>6. \A i \in DOMAIN list \ inputs : list[i].level <= 1
  BY <1>1
<1> QED BY <1>2, <1>3, <1>4, <1>5, <1>6, BeginKeeps

-----------------------------------------------------------------------------
(* A compaction is published.                                              *)

Before == (1..OutputsAt) \ job.inputs
Behind == ((OutputsAt + 1)..Len(list)) \ job.inputs

LEMMA PlacesOf ==
    ASSUME LevelsInv, running, at = "write"
    PROVE  /\ job.inputs \in Indices /\ job.inputs \subseteq 1..OutputsAt
           /\ OutputsAt \in job.inputs /\ OutputsAt \in Nat
           /\ Before \in SUBSET (DOMAIN list) /\ Behind \in SUBSET (DOMAIN list)
           /\ DOMAIN list = (1..OutputsAt) \cup Behind
           /\ 1..OutputsAt = job.inputs \cup Before
           /\ 1..OutputsAt \in Indices
           /\ DOMAIN list \ job.inputs = Before \cup Behind
           /\ \A i \in Before : i \in DOMAIN list \ job.inputs /\ i < OutputsAt
           /\ \A i \in Behind : i \in DOMAIN list \ job.inputs /\ i > OutputsAt
<1> USE DEF LevelsInv
<1>1. job.inputs \in SUBSET (DOMAIN list) /\ job.inputs # {}
  BY DEF JobInv
<1>2. job.inputs \in Indices
  BY <1>1, RunningList, SubsetIndices
<1>3. /\ OutputsAt \in job.inputs /\ OutputsAt \in Nat
      /\ \A i \in job.inputs : i <= OutputsAt
  BY <1>1, <1>2, MaxIsGreatest DEF OutputsAt
<1>4. DOMAIN list = 1..Len(list) /\ Len(list) \in Nat
  <2>1. list \in Seq(TableEntry)
    BY RunningList
  <2> QED BY <2>1
<1>5. OutputsAt \in 1..Len(list)
  BY <1>1, <1>3, <1>4
<1>6. job.inputs \subseteq 1..OutputsAt
  <2> SUFFICES ASSUME NEW i \in job.inputs PROVE i \in 1..OutputsAt
    OBVIOUS
  <2>1. i \in 1..Len(list) /\ i <= OutputsAt
    BY <1>1, <1>3, <1>4
  <2> QED BY <1>3, <2>1
<1>7. \A i \in Before : i \in DOMAIN list \ job.inputs /\ i < OutputsAt
  <2> SUFFICES ASSUME NEW i \in Before PROVE i \in DOMAIN list \ job.inputs /\ i < OutputsAt
    OBVIOUS
  <2>1. i \in 1..OutputsAt /\ i \notin job.inputs
    BY DEF Before
  <2>2. i # OutputsAt
    BY <1>3, <2>1
  <2> QED BY <1>4, <1>5, <2>1, <2>2
<1>8. \A i \in Behind : i \in DOMAIN list \ job.inputs /\ i > OutputsAt
  <2> SUFFICES ASSUME NEW i \in Behind PROVE i \in DOMAIN list \ job.inputs /\ i > OutputsAt
    OBVIOUS
  <2>1. i \in (OutputsAt + 1)..Len(list) /\ i \notin job.inputs
    BY DEF Behind
  <2> QED BY <1>3, <1>4, <2>1
<1>9. \A i \in DOMAIN list : i \in 1..OutputsAt \/ i \in Behind
  <2> SUFFICES ASSUME NEW i \in DOMAIN list, i \notin 1..OutputsAt PROVE i \in Behind
    OBVIOUS
  <2>1. i \in 1..Len(list)
    BY <1>4
  <2>2. i \in (OutputsAt + 1)..Len(list)
    BY <1>3, <1>4, <2>1
  <2>3. i \notin job.inputs
    BY <1>6
  <2> QED BY <2>2, <2>3 DEF Behind
<1>10. 1..OutputsAt \subseteq DOMAIN list
  BY <1>4, <1>5
<1>11. 1..OutputsAt \in Indices
  BY <1>3, IntervalIndices
<1>12. \A i \in 1..OutputsAt : i \in job.inputs \/ i \in Before
  BY DEF Before
<1>13. Before \subseteq 1..OutputsAt
  BY DEF Before
<1> DEFINE upTo == 1..OutputsAt
<1> HIDE DEF upTo
<1>14. DOMAIN list = upTo \cup Behind
  BY <1>8, <1>9, <1>10 DEF upTo
<1>15. upTo = job.inputs \cup Before
  BY <1>6, <1>12, <1>13 DEF upTo
<1>16. DOMAIN list \ job.inputs = Before \cup Behind
  BY <1>7, <1>8, <1>14, <1>15
<1> QED BY <1>2, <1>3, <1>6, <1>7, <1>8, <1>11, <1>14, <1>15, <1>16 DEF upTo

(* The keys of an output are keys of the inputs.                           *)
LEMMA OutputsOf ==
    ASSUME LevelsInv, running, at = "write", WorkersDone
    PROVE  /\ Outputs \in Seq(TableEntry)
           /\ TablesIn(files, Outputs) = job.outputs
           /\ DOMAIN Outputs = DOMAIN job.outputs
           /\ Pairs(Outputs, Fitting)
           /\ \A j \in DOMAIN Outputs :
                 /\ Outputs[j] \in TableEntry
                 /\ Outputs[j].level = job.target /\ Outputs[j].id = OutputID(j)
                 /\ Outputs[j].id \in Nat
                 /\ nextID <= Outputs[j].id /\ Outputs[j].id < nextID + Len(job.outputs)
                 /\ Outputs[j].id \in onDisk
                 /\ KeysOf(files[Outputs[j].id]) # {}
                 /\ KeysOf(files[Outputs[j].id]) \subseteq InputKeys
<1> USE DEF LevelsInv
<1>1. /\ job.outputs \in Seq(Layer) /\ nextID + Len(job.outputs) - 1 <= MaxTable
      /\ \A j \in DOMAIN job.outputs :
            /\ KeysOf(job.outputs[j]) # {}
            /\ OutputID(j) \in onDisk /\ files[OutputID(j)] = job.outputs[j]
      /\ Ascending(job.outputs) /\ OutputsMerge /\ job.target \in Nat \ {0}
  BY DEF JobInv
<1>2. /\ DOMAIN job.outputs = 1..Len(job.outputs) /\ Len(job.outputs) \in Nat
      /\ nextID \in Nat \ {0} /\ MaxTable \in Nat
  BY <1>1, LevelsTypes DEF LevelTypes
<1>3. ASSUME NEW j \in DOMAIN job.outputs
      PROVE  /\ OutputID(j) \in TableID /\ OutputID(j) \in Nat /\ j \in Nat
             /\ nextID <= OutputID(j) /\ OutputID(j) < nextID + Len(job.outputs)
             /\ OutputID(j) = nextID + j - 1
  <2>1. j \in 1..Len(job.outputs)
    BY <1>2
  <2> QED BY <1>1, <1>2, <2>1 DEF OutputID, TableID
<1>4. /\ DOMAIN Outputs = 1..Len(job.outputs)
      /\ \A j \in DOMAIN Outputs : /\ Outputs[j] = [id |-> OutputID(j), level |-> job.target]
                                   /\ Outputs[j].id = OutputID(j)
                                   /\ Outputs[j].level = job.target
  BY <1>2 DEF Outputs
<1>5. \A j \in DOMAIN Outputs : Outputs[j] \in TableEntry
  <2> SUFFICES ASSUME NEW j \in DOMAIN Outputs PROVE Outputs[j] \in TableEntry
    OBVIOUS
  <2>1. OutputID(j) \in TableID /\ job.target \in Nat
    BY <1>1, <1>2, <1>3, <1>4
  <2>2. [id |-> OutputID(j), level |-> job.target] \in TableEntry
    BY <2>1 DEF TableEntry
  <2> QED BY <1>4, <2>2
<1>6. Outputs \in Seq(TableEntry)
  <2>1. Outputs = [j \in 1..Len(job.outputs) |-> Outputs[j]]
    BY <1>2 DEF Outputs
  <2> QED BY <1>2, <1>4, <1>5, <2>1
<1>7. TablesIn(files, Outputs) = job.outputs
  <2>1. TablesIn(files, Outputs) = [j \in DOMAIN job.outputs |-> job.outputs[j]]
    BY <1>1, <1>2, <1>4 DEF TablesIn
  <2>2. job.outputs = [j \in DOMAIN job.outputs |-> job.outputs[j]]
    BY <1>1
  <2> QED BY <2>1, <2>2
<1>8. Pairs(Outputs, Fitting)
  <2> SUFFICES ASSUME NEW i \in DOMAIN Outputs, NEW j \in DOMAIN Outputs, i < j
               PROVE  <<Outputs[i], Outputs[j]>> \in Fitting
    BY DEF Pairs
  <2>1. i \in DOMAIN job.outputs /\ j \in DOMAIN job.outputs
    BY <1>2, <1>4
  <2>2. Outputs[i] \in TableEntry /\ Outputs[j] \in TableEntry
    BY <1>5
  <2>3. Outputs[i].id # Outputs[j].id
    <3>1. OutputID(i) = nextID + i - 1 /\ OutputID(j) = nextID + j - 1 /\ i \in Nat /\ j \in Nat
      BY <1>3, <2>1
    <3>2. OutputID(i) # OutputID(j)
      BY <1>2, <3>1
    <3> QED BY <1>4, <3>2
  <2>4. Outputs[i].level = Outputs[j].level /\ Outputs[i].level \in Nat
    BY <1>1, <1>4
  <2>5. Above(KeysOf(job.outputs[j]), KeysOf(job.outputs[i]))
    BY <1>1, <2>1 DEF Ascending
  <2>6. Apart(KeysOf(files[Outputs[i].id]), KeysOf(files[Outputs[j].id]))
    BY <1>1, <1>4, <2>1, <2>5 DEF Apart
  <2> QED BY <2>2, <2>3, <2>4, <2>6 DEF Fitting
<1>9. ASSUME NEW j \in DOMAIN job.outputs, NEW k \in KeysOf(job.outputs[j])
      PROVE  k \in InputKeys
  <2>1. k \in Key /\ job.outputs[j][k] # Absent
    BY DEF KeysOf
  <2>2. PICK bottom \in BOOLEAN :
          Compacted(k, Newest(Tables(list), job.inputs, k),
                    Newest(job.outputs, DOMAIN job.outputs, k), bottom)
    BY <1>1, <2>1 DEF OutputsMerge
  <2>3. DOMAIN job.outputs \in Indices
    BY <1>2, IntervalIndices
  <2>4. Newest(job.outputs, DOMAIN job.outputs, k) # Absent
    BY <2>1, <2>3, NewestCases
  <2>5. Newest(Tables(list), job.inputs, k) # Absent
    BY <2>2, <2>4 DEF Compacted
  <2>6. PICK i \in job.inputs : Tables(list)[i][k] # Absent
    BY <2>5, PlacesOf, NewestAbsent
  <2>7. i \in DOMAIN list
    BY DEF JobInv
  <2>8. k \in KeysOf(files[list[i].id])
    BY <2>1, <2>6, <2>7 DEF Tables, KeysOf
  <2> QED BY <2>8 DEF InputKeys
<1>10. ASSUME NEW j \in DOMAIN Outputs
       PROVE  /\ Outputs[j].level = job.target /\ Outputs[j].id = OutputID(j)
              /\ Outputs[j].id \in Nat
              /\ nextID <= Outputs[j].id /\ Outputs[j].id < nextID + Len(job.outputs)
              /\ Outputs[j].id \in onDisk
              /\ KeysOf(files[Outputs[j].id]) # {}
              /\ KeysOf(files[Outputs[j].id]) \subseteq InputKeys
  <2>1. j \in DOMAIN job.outputs /\ Outputs[j].id = OutputID(j) /\ Outputs[j].level = job.target
    BY <1>2, <1>4
  <2>2. files[Outputs[j].id] = job.outputs[j] /\ OutputID(j) \in onDisk /\ KeysOf(job.outputs[j]) # {}
    BY <1>1, <2>1
  <2>3. KeysOf(files[Outputs[j].id]) \subseteq InputKeys
    BY <1>9, <2>1, <2>2
  <2> QED BY <1>3, <2>1, <2>2, <2>3
<1> QED BY <1>2, <1>4, <1>5, <1>6, <1>7, <1>8, <1>10

LEMMA NewListOf ==
    ASSUME LevelsInv, running, at = "write", WorkersDone
    PROVE  /\ NewList \in Seq(TableEntry)
           /\ Pairs(NewList, Fitting)
           /\ Elements(NewList) = {list[i] : i \in DOMAIN list \ job.inputs} \cup Elements(Outputs)
           /\ \A k : Find(files, NewList, k)
                       = Over(Newest(Tables(list), Behind, k),
                              Over(Newest(job.outputs, DOMAIN job.outputs, k),
                                   Newest(Tables(list), Before, k)))
<1> USE DEF LevelsInv
<1> DEFINE first == Pick(list, Before)
           last == Pick(list, Behind)
           front == first \o Outputs
<1>1. list \in Seq(TableEntry) /\ Pairs(list, Fitting)
  BY RunningList DEF ListInv
<1>2. /\ first \in Seq(TableEntry) /\ Pairs(first, Fitting)
      /\ Elements(first) = {list[i] : i \in Before}
  BY <1>1, PlacesOf, PickOf, PickPairs
<1>3. /\ last \in Seq(TableEntry) /\ Pairs(last, Fitting)
      /\ Elements(last) = {list[i] : i \in Behind}
  BY <1>1, PlacesOf, PickOf, PickPairs
<1>4. \A k : /\ Find(files, first, k) = Newest(Tables(list), Before, k)
             /\ Find(files, last, k) = Newest(Tables(list), Behind, k)
  <2>1. Tables(list) = TablesIn(files, list)
    BY DEF Tables, TablesIn
  <2> QED BY <1>1, <2>1, PlacesOf, FindPick
<1>5. NewList = front \o last
  BY DEF NewList, Before, Behind
<1> HIDE DEF first, last
<1>6. ASSUME NEW x \in Elements(first), NEW y \in Elements(Outputs)
      PROVE  <<x, y>> \in Fitting
  <2>1. PICK i \in Before : x = list[i]
    BY <1>2
  <2>2. PICK j \in DOMAIN Outputs : y = Outputs[j]
    BY DEF Elements
  <2>3. i \in DOMAIN list \ job.inputs /\ i < OutputsAt
    BY PlacesOf
  <2>4. x \in TableEntry /\ y \in TableEntry /\ x.level \in Nat
    <3>1. x \in TableEntry /\ x.level \in Nat
      BY <2>1, <2>3, RunningList
    <3>2. y \in TableEntry
      BY <2>2, OutputsOf
    <3> QED BY <3>1, <3>2
  <2>5. /\ x.level >= job.target
        /\ x.level = job.target => Apart(KeysOf(files[x.id]), InputKeys)
    BY <2>1, <2>3 DEF JobInv, PlaceFree
  <2>6. y.level = job.target /\ KeysOf(files[y.id]) \subseteq InputKeys /\ nextID <= y.id /\ y.id \in Nat
    BY <2>2, OutputsOf
  <2>7. x.id < nextID /\ x.id \in TableID
    BY <2>1, <2>3, RunningList, ListedBelow DEF IdsOf
  <2>8. x.id # y.id
    BY <2>6, <2>7 DEF TableID, LevelTypes
  <2>9. x.level = job.target => Apart(KeysOf(files[x.id]), KeysOf(files[y.id]))
    BY <2>5, <2>6 DEF Apart, Above
  <2> QED BY <2>4, <2>5, <2>6, <2>8, <2>9 DEF Fitting
<1>7. /\ front \in Seq(TableEntry) /\ Pairs(front, Fitting)
      /\ Elements(front) = Elements(first) \cup Elements(Outputs)
  BY <1>2, <1>6, OutputsOf, ConcatPairs
<1>8. ASSUME NEW x \in Elements(front), NEW y \in Elements(last)
      PROVE  <<x, y>> \in Fitting
  <2>1. PICK h \in Behind : y = list[h]
    BY <1>3
  <2>2. h \in DOMAIN list \ job.inputs /\ h > OutputsAt
    BY PlacesOf
  <2>3. CASE x \in Elements(first)
    <3>1. PICK i \in Before : x = list[i]
      BY <1>2, <2>3
    <3>2. i \in DOMAIN list /\ i < OutputsAt /\ i \in Nat /\ h \in Nat /\ OutputsAt \in Nat
      BY <2>2, PlacesOf, RunningList
    <3>3. i < h
      BY <2>2, <3>2
    <3> QED BY <1>1, <2>1, <2>2, <3>1, <3>2, <3>3 DEF Pairs
  <2>4. CASE x \in Elements(Outputs)
    <3>1. PICK j \in DOMAIN Outputs : x = Outputs[j]
      BY <2>4 DEF Elements
    <3>2. x \in TableEntry /\ y \in TableEntry /\ y.level \in Nat
      <4>1. y \in TableEntry /\ y.level \in Nat
        BY <2>1, <2>2, RunningList
      <4>2. x \in TableEntry
        BY <3>1, OutputsOf
      <4> QED BY <4>1, <4>2
    <3>3. x.level = job.target /\ nextID <= x.id /\ x.id \in Nat
      BY <3>1, OutputsOf
    <3>4. y.level < job.target /\ job.target \in Nat
      BY <2>1, <2>2 DEF JobInv, PlaceFree
    <3>5. y.id < nextID /\ y.id \in TableID
      BY <2>1, <2>2, RunningList, ListedBelow DEF IdsOf
    <3>6. x.id # y.id
      BY <3>3, <3>5 DEF TableID, LevelTypes
    <3> QED BY <3>2, <3>3, <3>4, <3>6 DEF Fitting
  <2> QED BY <1>7, <2>3, <2>4
<1>9. /\ NewList \in Seq(TableEntry) /\ Pairs(NewList, Fitting)
      /\ Elements(NewList) = Elements(front) \cup Elements(last)
  <2> HIDE DEF front
  <2>1. /\ front \in Seq(TableEntry) /\ last \in Seq(TableEntry)
        /\ Pairs(front, Fitting) /\ Pairs(last, Fitting)
        /\ \A x \in Elements(front), y \in Elements(last) : <<x, y>> \in Fitting
    BY <1>3, <1>7, <1>8
  <2>2. /\ front \o last \in Seq(TableEntry) /\ Pairs(front \o last, Fitting)
        /\ Elements(front \o last) = Elements(front) \cup Elements(last)
    BY <2>1, ConcatPairs
  <2> QED BY <1>5, <2>2
<1>10. Elements(NewList) = {list[i] : i \in DOMAIN list \ job.inputs} \cup Elements(Outputs)
  <2>1. Elements(NewList) = {list[i] : i \in Before} \cup {list[i] : i \in Behind} \cup Elements(Outputs)
    BY <1>2, <1>3, <1>7, <1>9
  <2>2. DOMAIN list \ job.inputs = Before \cup Behind
    BY PlacesOf
  <2> QED BY <2>1, <2>2
<1>11. ASSUME NEW k
       PROVE  Find(files, NewList, k)
                = Over(Newest(Tables(list), Behind, k),
                       Over(Newest(job.outputs, DOMAIN job.outputs, k),
                            Newest(Tables(list), Before, k)))
  <2>1. Find(files, front, k) = Over(Find(files, Outputs, k), Find(files, first, k))
    BY <1>2, OutputsOf, FindConcat
  <2>2. Find(files, NewList, k) = Over(Find(files, last, k), Find(files, front, k))
    <3> HIDE DEF front
    <3> QED BY <1>3, <1>5, <1>7, FindConcat
  <2>3. Find(files, Outputs, k) = Newest(job.outputs, DOMAIN job.outputs, k)
    BY OutputsOf DEF Find
  <2> QED BY <1>4, <2>1, <2>2, <2>3
<1> QED BY <1>9, <1>10, <1>11

(* What lookups found before: what is behind the inputs hides them, and    *)
(* they hide what stays before them.                                       *)
LEMMA OldLookup ==
    ASSUME LevelsInv, running, at = "write", NEW k \in Key
    PROVE  Lookup(list, k) = Over(Newest(Tables(list), Behind, k),
                                  Over(Newest(Tables(list), job.inputs, k),
                                       Newest(Tables(list), Before, k)))
<1> USE DEF LevelsInv
<1> DEFINE T == Tables(list)
           upTo == 1..OutputsAt
           above == {i \in Before : T[i][k] # Absent}
           both == above \cup job.inputs
<1>1. /\ DOMAIN list \in Indices /\ job.inputs \in Indices /\ upTo \in Indices
      /\ DOMAIN list = upTo \cup Behind /\ upTo = job.inputs \cup Before
      /\ Before \in SUBSET (DOMAIN list)
      /\ job.inputs \subseteq DOMAIN list
      /\ \A i \in Before : i \in DOMAIN list \ job.inputs /\ i < OutputsAt
  BY PlacesOf, RunningList
<1>2. \A a \in upTo, b \in Behind : a < b
  <2> SUFFICES ASSUME NEW a \in upTo, NEW b \in Behind PROVE a < b
    OBVIOUS
  <2>1. b > OutputsAt /\ b \in DOMAIN list /\ OutputsAt \in Nat
    BY PlacesOf
  <2>2. b \in Nat
    BY <2>1, RunningList
  <2> QED BY <2>1, <2>2
<1> HIDE DEF T, upTo
<1>3. Lookup(list, k) = Over(Newest(T, Behind, k), Newest(T, upTo, k))
  <2>1. Lookup(list, k) = Newest(T, DOMAIN list, k)
    BY DEF Lookup, T
  <2>2. PICK D \in Indices : D = DOMAIN list /\ D = upTo \cup Behind
    BY <1>1
  <2>3. Newest(T, D, k) = Over(Newest(T, Behind, k), Newest(T, upTo, k))
    BY <1>2, <2>2, NewestSplit
  <2> QED BY <2>1, <2>2, <2>3
<1>4. Before \in Indices
  BY <1>1, SubsetIndices
<1>5. \A i \in DOMAIN list : T[i][k] # Absent <=> k \in KeysOf(files[list[i].id])
  BY DEF T, Tables, KeysOf
<1>6. ASSUME k \notin InputKeys
      PROVE  Newest(T, upTo, k) = Over(Newest(T, job.inputs, k), Newest(T, Before, k))
  <2>1. \A i \in job.inputs : T[i][k] = Absent
    BY <1>1, <1>5, <1>6 DEF InputKeys
  <2>2. Newest(T, job.inputs, k) = Absent
    BY <1>1, <2>1, NewestAbsent
  <2>3. Newest(T, upTo, k) = Newest(T, Before, k)
    <3>1. Before \in SUBSET upTo /\ \A i \in upTo \ Before : T[i][k] = Absent
      BY <1>1, <2>1
    <3> QED BY <1>1, <3>1, NewestWiden
  <2> QED BY <2>2, <2>3 DEF Over
<1>7. ASSUME k \in InputKeys
      PROVE  Newest(T, upTo, k) = Over(Newest(T, job.inputs, k), Newest(T, Before, k))
  <2>1. ASSUME NEW i \in above, NEW e \in job.inputs PROVE i < e
    <3>1. i \in DOMAIN list \ job.inputs /\ i < OutputsAt /\ k \in KeysOf(files[list[i].id])
      BY <1>1, <1>5
    <3>2. ~Apart(KeysOf(files[list[i].id]), InputKeys)
      <4>1. k \in Nat
        BY LevelsTypes
      <4> QED BY <1>7, <3>1, <4>1 DEF Apart, Above
    <3>3. list[i].level >= job.target /\ list[i].level # job.target
      BY <3>1, <3>2 DEF JobInv, PlaceFree
    <3>4. list[i].level \in Nat /\ job.target \in Nat
      BY <3>1, RunningList DEF JobInv
    <3>5. list[i].level > job.target
      BY <3>3, <3>4
    <3> QED BY <3>1, <3>5 DEF JobInv, PlaceFree
  <2>2. both \in SUBSET upTo /\ \A i \in upTo \ both : T[i][k] = Absent
    BY <1>1
  <2>3. both \in Indices /\ above \in SUBSET Before
    BY <1>1, <2>2, SubsetIndices
  <2>4. Newest(T, upTo, k) = Newest(T, both, k)
    BY <1>1, <2>2, NewestWiden
  <2>5. Newest(T, both, k) = Over(Newest(T, job.inputs, k), Newest(T, above, k))
    <3> HIDE DEF above
    <3> QED BY <2>1, <2>3, NewestSplit
  <2>6. Newest(T, Before, k) = Newest(T, above, k)
    <3>1. \A i \in Before \ above : T[i][k] = Absent
      OBVIOUS
    <3> QED BY <1>4, <2>3, <3>1, NewestWiden
  <2> QED BY <2>4, <2>5, <2>6
<1> QED BY <1>3, <1>6, <1>7 DEF T

(* The outputs in the place of the inputs change no answer, but for a log  *)
(* that retention may remove.                                              *)
LEMMA AnswersKept ==
    ASSUME LevelsInv, running, at = "write", WorkersDone, SameLevels, NEW k \in Key,
           Told(k, Answer(Lookup(list, k)))
    PROVE  Told(k, Answer(Find(files, NewList, k)))
<1> USE DEF LevelsInv
<1> DEFINE T == Tables(list)
           behind == Newest(T, Behind, k)
           merged == Newest(T, job.inputs, k)
           written == Newest(job.outputs, DOMAIN job.outputs, k)
           before == Newest(T, Before, k)
<1>1. Lookup(list, k) = Over(behind, Over(merged, before))
  BY OldLookup
<1>2. Find(files, NewList, k) = Over(behind, Over(written, before))
  BY NewListOf
<1>3. PICK bottom \in BOOLEAN :
        /\ Compacted(k, merged, written, bottom)
        /\ bottom => \A i \in DOMAIN list \ job.inputs : list[i].level <= job.target
  BY DEF JobInv, OutputsMerge
<1>4. CASE written = merged
  BY <1>1, <1>2, <1>4
<1>5. CASE written # merged
  <2>1. /\ bottom /\ written = Absent /\ merged # Absent
        /\ Answer(merged) = Absent \/ MayVanish(k)
    BY <1>3, <1>5 DEF Compacted
  <2>2. before = Absent
    <3>1. k \in InputKeys
      <4>1. job.inputs \in Indices
        BY PlacesOf
      <4> HIDE DEF T
      <4>2. PICK e \in job.inputs : T[e][k] # Absent
        BY <2>1, <4>1, NewestAbsent
      <4>3. k \in KeysOf(files[list[e].id])
        BY <4>2 DEF T, Tables, KeysOf, JobInv
      <4> QED BY <4>3 DEF InputKeys
    <3>2. ASSUME NEW i \in Before PROVE T[i][k] = Absent
      <4>1. i \in DOMAIN list \ job.inputs /\ i < OutputsAt
        BY PlacesOf
      <4>2. list[i].level <= job.target /\ list[i].level >= job.target
        BY <1>3, <2>1, <4>1 DEF JobInv, PlaceFree
      <4>3. list[i].level \in Nat /\ job.target \in Nat
        BY <4>1, RunningList DEF JobInv
      <4>4. Apart(KeysOf(files[list[i].id]), InputKeys)
        BY <4>1, <4>2, <4>3 DEF JobInv, PlaceFree
      <4>5. k \in Nat
        BY LevelsTypes
      <4>6. k \notin KeysOf(files[list[i].id])
        BY <3>1, <4>4, <4>5 DEF Apart, Above
      <4> QED BY <4>1, <4>6 DEF Tables, KeysOf
    <3>3. Before \in Indices
      BY PlacesOf, RunningList, SubsetIndices
    <3> HIDE DEF T
    <3> QED BY <3>2, <3>3, NewestAbsent
  <2> HIDE DEF behind, merged, written, before
  <2>3. CASE behind = Absent
    <3>1. Lookup(list, k) = merged /\ Find(files, NewList, k) = Absent
      BY <1>1, <1>2, <2>1, <2>2, <2>3 DEF Over
    <3>2. Answer(Absent) = Absent
      BY DEF Answer
    <3> QED BY <2>1, <3>1, <3>2 DEF Told
  <2>4. CASE behind # Absent
    BY <1>1, <1>2, <2>4 DEF Over
  <2> QED BY <2>3, <2>4
<1> QED BY <1>4, <1>5

LEMMA PublishKeeps ==
    ASSUME LevelsInv, Publish, running, UNCHANGED damageVars
    PROVE  LevelsInv'
<1> USE DEF LevelsInv
<1> DEFINE next == nextID + Len(job.outputs)
<1>1. /\ files' = files /\ onDisk' = onDisk /\ running' = running /\ maxLevels' = maxLevels
      /\ expired' = expired /\ kv' = kv /\ at = "write" /\ at' = "cleanup" /\ WorkersDone
      /\ list' = NewList /\ nextID' = next
      /\ saved' = [list |-> NewList, next |-> next]
      /\ todo' = {list[i].id : i \in job.inputs}
      /\ damaged' = damaged /\ unreadable' = unreadable /\ spoiled' = spoiled
  BY DEF Publish, damageVars
<1>2. saved'.list = NewList /\ saved'.next = next
  BY <1>1
<1>3. list = saved.list
  BY RunningList
<1>4. next \in Nat \ {0} /\ nextID <= next /\ nextID \in Nat /\ Len(job.outputs) \in Nat
  <2>1. job.outputs \in Seq(Layer)
    BY <1>1 DEF JobInv
  <2>2. Len(job.outputs) \in Nat /\ nextID \in Nat \ {0}
    BY <2>1 DEF LevelTypes
  <2> QED BY <2>2
<1> HIDE DEF next
<1>5. ASSUME NEW i \in DOMAIN NewList
      PROVE  \/ \E j \in DOMAIN list \ job.inputs : NewList[i] = list[j]
             \/ \E j \in DOMAIN Outputs : NewList[i] = Outputs[j]
  <2>1. NewList[i] \in Elements(NewList)
    BY DEF Elements
  <2> QED BY <1>1, <2>1, NewListOf DEF Elements
<1>6. ASSUME NEW j \in DOMAIN list
      PROVE  /\ list[j].id < nextID /\ list[j].id \in Nat
             /\ KeysOf(files[list[j].id]) # {}
             /\ list[j].id \in onDisk \ damaged
             /\ SameLevels => list[j].level < maxLevels
  <2>1. list[j].id \in IdsOf(saved.list)
    BY <1>3 DEF IdsOf
  <2>2. list[j].id < nextID /\ list[j].id \in Nat
    BY <2>1, ListedBelow DEF TableID
  <2>3. list[j].id \in onDisk \ damaged
    BY <2>1 DEF DamageInv
  <2> QED BY <2>2, <2>3, <1>3 DEF ListInv
<1>7. ASSUME NEW j \in DOMAIN Outputs
      PROVE  /\ Outputs[j].id \in Nat /\ nextID <= Outputs[j].id /\ Outputs[j].id < next
             /\ KeysOf(files[Outputs[j].id]) # {}
             /\ Outputs[j].id \in onDisk \ damaged
             /\ SameLevels => Outputs[j].level < maxLevels
  <2>1. /\ Outputs[j].id \in Nat /\ nextID <= Outputs[j].id /\ Outputs[j].id < next
        /\ KeysOf(files[Outputs[j].id]) # {} /\ Outputs[j].id \in onDisk
        /\ Outputs[j].level = job.target
    BY <1>1, OutputsOf DEF next
  <2>2. SameLevels => job.target < maxLevels
    BY <1>1 DEF JobInv
  <2>3. Outputs[j].id \notin damaged
    BY <1>4, <2>1 DEF DamageInv
  <2> QED BY <2>1, <2>2, <2>3
<1>8. ASSUME NEW i \in DOMAIN NewList
      PROVE  /\ NewList[i].id < next /\ NewList[i].id \in onDisk \ damaged
             /\ KeysOf(files[NewList[i].id]) # {}
             /\ SameLevels => NewList[i].level < maxLevels
             /\ NewList[i].id \notin {list[j].id : j \in job.inputs}
  <2>1. CASE \E j \in DOMAIN list \ job.inputs : NewList[i] = list[j]
    <3>1. PICK j \in DOMAIN list \ job.inputs : NewList[i] = list[j]
      BY <2>1
    <3>2. ASSUME NEW e \in job.inputs PROVE list[j].id # list[e].id
      <4>1. e \in DOMAIN list /\ e # j
        BY <1>1, <3>1 DEF JobInv
      <4>2. e \in Nat /\ j \in Nat
        BY <3>1, <4>1, RunningList
      <4>3. e < j \/ j < e
        BY <4>1, <4>2
      <4> QED BY <3>1, <4>1, <4>3, RunningList
    <3>3. list[j].id < next
      BY <1>4, <1>6
    <3> QED BY <1>6, <3>1, <3>2, <3>3
  <2>2. CASE \E j \in DOMAIN Outputs : NewList[i] = Outputs[j]
    <3>1. PICK j \in DOMAIN Outputs : NewList[i] = Outputs[j]
      BY <2>2
    <3>2. ASSUME NEW e \in job.inputs PROVE Outputs[j].id # list[e].id
      <4>1. e \in DOMAIN list
        BY <1>1 DEF JobInv
      <4> QED BY <1>4, <1>6, <1>7, <4>1
    <3> QED BY <1>7, <3>1, <3>2
  <2> QED BY <1>5, <2>1, <2>2
<1>9. LevelTypes'
  BY <1>1, <1>2, <1>4, NewListOf DEF LevelTypes
<1>10. ListInv'
  <2>1. Fitting' = Fitting
    BY <1>1 DEF Fitting, KeysOf
  <2>2. Pairs(saved'.list, Fitting')
    BY <1>1, <1>2, <2>1, NewListOf
  <2> QED BY <1>1, <1>2, <1>8, <2>2 DEF ListInv, Pairs, KeysOf
<1>11. IdsOf(saved.list)' = IdsOf(NewList) /\ \A t \in IdsOf(NewList) :
          t < next /\ t \in onDisk \ damaged /\ t \notin todo'
  BY <1>1, <1>2, <1>8 DEF IdsOf
<1>12. LevelControl'
  <2>1. todo' \cap IdsOf(NewList) = {}
    BY <1>11
  <2>2. next <= next
    BY <1>4
  <2>3. \A t \in onDisk' : KeysOf(files[t])' # {}
    BY <1>1 DEF LevelControl, KeysOf
  <2> QED BY <1>1, <1>2, <1>11, <2>1, <2>2, <2>3 DEF LevelControl
<1>13. DamageInv' /\ SpoiledInv'
  <2>1. damaged \subseteq onDisk /\ ~unreadable /\ \A t \in damaged : t < nextID
    BY DEF DamageInv
  <2>2. \A t \in damaged : t < next
    <3>1. \A t \in damaged : t \in Nat
      BY <2>1 DEF LevelTypes, TableID
    <3> QED BY <1>4, <2>1, <3>1
  <2>3. damaged \cap todo' = {}
    <3>1. job.inputs \subseteq DOMAIN list
      BY <1>1 DEF JobInv
    <3> QED BY <1>1, <1>6, <3>1
  <2>4. DamageInv'
    BY <1>1, <1>11, <2>1, <2>2, <2>3 DEF DamageInv
  <2>5. SpoiledInv'
    BY <1>1, <1>11, <2>1 DEF SpoiledInv
  <2> QED BY <2>4, <2>5
<1>14. AnswersInv'
  <2> SUFFICES ASSUME SameLevels, NEW k \in Key, k \notin spoiled
               PROVE  Told(k, Answer(Lookup(saved.list, k)))'
    BY <1>1 DEF AnswersInv
  <2>1. Told(k, Answer(Lookup(list, k)))
    BY <1>3 DEF AnswersInv
  <2>2. Told(k, Answer(Find(files, NewList, k)))
    BY <1>1, <2>1, AnswersKept
  <2>3. Lookup(saved.list, k)' = Find(files, NewList, k)
    BY <1>1, <1>2 DEF Lookup, Tables, Find, TablesIn
  <2> QED BY <1>1, <2>2, <2>3 DEF Told, MayVanish, Answer
<1>15. JobInv'
  BY <1>1 DEF JobInv
<1>16. FreshInv'
  <2> SUFFICES ASSUME CleanupSucceeds, NEW t \in onDisk PROVE t < next
    BY <1>1 DEF FreshInv
  <2>1. t \in Nat
    BY DEF LevelTypes, TableID
  <2>2. CASE t < nextID
    BY <1>4, <2>1, <2>2
  <2>3. CASE \E j \in DOMAIN job.outputs : t = OutputID(j)
    BY <1>1, <1>7, <2>3, OutputsOf
  <2> QED BY <2>2, <2>3 DEF FreshInv
<1> QED BY <1>9, <1>10, <1>12, <1>13, <1>14, <1>15, <1>16

-----------------------------------------------------------------------------
(* Every step, and what follows.                                           *)

(* A step of somebody else.                                                *)
LEMMA StayKeeps ==
    ASSUME LevelsInv, UNCHANGED repairVars
    PROVE  LevelsInv'
<1> USE DEF LevelsInv
<1>1. /\ files' = files /\ onDisk' = onDisk /\ saved' = saved /\ running' = running
      /\ maxLevels' = maxLevels /\ list' = list /\ nextID' = nextID
      /\ at' = at /\ job' = job /\ todo' = todo /\ failed' = failed
      /\ expired' = expired /\ kv' = kv
      /\ damaged' = damaged /\ unreadable' = unreadable /\ spoiled' = spoiled
  BY DEF repairVars, vars, fileVars, listVars, jobVars, damageVars
<1>2. ListInv' /\ \A k : Lookup(saved.list, k)' = Lookup(saved.list, k)
  BY <1>1, ListStays DEF LevelTypes
<1>3. AnswersInv'
  BY <1>1, <1>2, AnswersStay
<1>4. LevelTypes' /\ LevelControl' /\ DamageInv' /\ SpoiledInv' /\ FreshInv'
  <2>1. LevelTypes'
    BY <1>1 DEF LevelTypes
  <2>2. LevelControl'
    BY <1>1 DEF LevelControl, KeysOf, IdsOf
  <2>3. DamageInv'
    BY <1>1 DEF DamageInv, IdsOf
  <2>4. SpoiledInv'
    BY <1>1 DEF SpoiledInv, IdsOf, KeysOf
  <2>5. FreshInv'
    BY <1>1 DEF FreshInv, OutputID
  <2> QED BY <2>1, <2>2, <2>3, <2>4, <2>5
<1>5. JobInv'
  <2>1. Tables(list)' = Tables(list)
    BY <1>1 DEF Tables
  <2>2. OutputsMerge' <=> OutputsMerge
    BY <1>1, <2>1 DEF OutputsMerge, Compacted, MayVanish
  <2>3. PlaceFree' <=> PlaceFree
    BY <1>1 DEF PlaceFree, InputKeys, OutputsAt, KeysOf
  <2> QED BY <1>1, <2>2, <2>3 DEF JobInv, WorkersDone, OutputID, KeysOf, Ascending
<1> QED BY <1>2, <1>3, <1>4, <1>5

LEMMA LevelsInvStep == LevelsInv /\ [RepairNext]_repairVars => LevelsInv'
<1> SUFFICES ASSUME LevelsInv, [RepairNext]_repairVars PROVE LevelsInv'
  OBVIOUS
<1>1. CASE UNCHANGED repairVars
  BY <1>1, StayKeeps
<1>2. CASE running /\ Next /\ UNCHANGED damageVars
  <2>1. ASSUME NEW data \in Batches, Flush(data) PROVE LevelsInv'
    BY <1>2, <2>1, FlushKeeps
  <2>2. CASE Expire
    BY <1>2, <2>2, ExpireKeeps
  <2>3. ASSUME NEW n \in 0..(maxLevels - 2), CompactLevel(n) PROVE LevelsInv'
    <3>1. n \in Nat
      OBVIOUS
    <3> QED BY <1>2, <2>3, <3>1, CompactLevelKeeps
  <2>4. CASE CompactNextLevel
    <3>1. PICK n : n = Min(Overfull) /\ CompactLevel(n)
      BY <2>4 DEF CompactNextLevel
    <3>2. n \in Nat
      <4>1. n \in 0..(maxLevels - 2)
        BY <3>1 DEF CompactLevel
      <4> QED BY <4>1
    <3> QED BY <1>2, <3>1, <3>2, CompactLevelKeeps
  <2>5. CASE CompactAll
    BY <1>2, <2>5, CompactAllKeeps
  <2>6. CASE WriteOutputs
    BY <1>2, <2>6, WriteKeeps
  <2>7. CASE Publish
    BY <1>2, <2>7, PublishKeeps
  <2>8. CASE Abort
    BY <1>2, <2>8, AbortKeeps
  <2>9. CASE RemoveInputs
    BY <1>2, <2>9, RemoveInputsKeeps
  <2>10. CASE Crash
    BY <1>2, <2>10, CrashKeeps
  <2>11. CASE Open
    BY <1>2, <2>11 DEF Open
  <2> QED BY <1>2, <2>1, <2>2, <2>3, <2>4, <2>5, <2>6, <2>7, <2>8, <2>9, <2>10, <2>11 DEF Next
<1>3. ASSUME NEW t \in TableID, Damage(t) PROVE LevelsInv'
  BY <1>3, DamageKeeps
<1>4. CASE LoseCurrent
  BY <1>4, LoseCurrentKeeps
<1>5. CASE RepairManifest
  BY <1>5, RepairManifestKeeps
<1>6. CASE Quarantine
  BY <1>6, QuarantineKeeps
<1>7. CASE EndRepair
  BY <1>7, EndRepairKeeps
<1>8. CASE OpenRepaired
  BY <1>8, OpenKeeps
<1> QED BY <1>1, <1>2, <1>3, <1>4, <1>5, <1>6, <1>7, <1>8 DEF RepairNext

LEMMA LevelsInvariant == RepairSpec => []LevelsInv
<1>1. RepairInit => LevelsInv
  BY LevelsInvInit
<1>2. LevelsInv /\ [RepairNext]_repairVars => LevelsInv'
  BY LevelsInvStep
<1> QED BY <1>1, <1>2, PTL DEF RepairSpec

LEMMA CurrentIsSaved ==
    ASSUME LevelsInv
    PROVE  Current = saved.list
BY DEF LevelsInv, LevelControl, Current

(* Below level 0 no two tables of a level overlap, and deeper levels come  *)
(* first, after any flushes, compactions of any levels with any split,     *)
(* failures, crashes and repairs (selectLevelCompaction,                   *)
(* newCompactedList).                                                      *)
THEOREM LevelsStayDisjoint == RepairSpec => []LevelsDisjoint
<1>1. LevelsInv => LevelsDisjoint
  <2> SUFFICES ASSUME LevelsInv, NEW i \in DOMAIN saved.list, NEW j \in DOMAIN saved.list, i < j
               PROVE  /\ saved.list[i].level >= saved.list[j].level
                      /\ saved.list[i].level = saved.list[j].level /\ saved.list[i].level > 0 =>
                           ~RangesOverlap(MinKey(saved.list[i].id), MaxKey(saved.list[i].id),
                                          MinKey(saved.list[j].id), MaxKey(saved.list[j].id))
    BY CurrentIsSaved DEF LevelsDisjoint
  <2>1. <<saved.list[i], saved.list[j]>> \in Fitting
    BY DEF LevelsInv, ListInv, Pairs
  <2>2. KeysOf(files[saved.list[i].id]) # {} /\ KeysOf(files[saved.list[j].id]) # {}
    BY DEF LevelsInv, ListInv
  <2> QED BY <2>1, <2>2, RangesApart DEF Fitting
<1> QED BY <1>1, LevelsInvariant, PTL

(* A lookup finds the newest flushed value, or nothing where that was      *)
(* deleted or retention may have removed it, for every key that no damaged *)
(* file said something of.  MaxLevels must be the same at every start:     *)
(* with another one the last level is not the deepest in use, and the run  *)
(* levels_reopened shows a deleted value come back.                        *)
THEOREM OnlySpoiledKeysEverSuffer ==
    ASSUME SameLevels
    PROVE  RepairSpec => []OnlySpoiledKeysSuffer
<1>1. LevelsInv => OnlySpoiledKeysSuffer
  <2> SUFFICES ASSUME LevelsInv, NEW k \in Key \ spoiled
               PROVE  LET answer == Answer(Lookup(saved.list, k))
                      IN answer = kv[k] \/ (answer = Absent /\ MayVanish(k))
    BY CurrentIsSaved DEF OnlySpoiledKeysSuffer, AnswersHold
  <2>1. Told(k, Answer(Lookup(saved.list, k)))
    BY DEF LevelsInv, AnswersInv
  <2> QED BY <2>1 DEF Told
<1> QED BY <1>1, LevelsInvariant, PTL

(* The running store works on the list of the Manifest and hands out IDs   *)
(* above every file on disk, if the outputs of a failed compaction can be  *)
(* removed; cleanupCompactionOutputs ignores the error when they cannot,   *)
(* and leaves a file in the way of the next flush.                         *)
THEOREM IDsStayFresh ==
    ASSUME CleanupSucceeds
    PROVE  RepairSpec => []IDsFresh
<1>1. LevelsInv => IDsFresh
  BY DEF LevelsInv, LevelControl, FreshInv, IDsFresh
<1> QED BY <1>1, LevelsInvariant, PTL

(* Once RepairDirectory has saved its Manifest, every table it lists is    *)
(* there and healthy, whichever files it has moved when it stops.          *)
THEOREM RepairedManifestOpens == RepairSpec => []RepairedOpens
<1>1. LevelsInv => RepairedOpens
  BY DEF LevelsInv, DamageInv, RepairedOpens
<1> QED BY <1>1, LevelsInvariant, PTL

(* A repair that can read the Manifest publishes no table that was not     *)
(* published (repair.go, RepairDirectory).                                 *)
THEOREM OrphansAlwaysStayOut == RepairSpec => OrphansStayOut
<1> DEFINE Step == saved' # saved /\ at' = "repair" /\ ~unreadable
                     => IdsOf(saved'.list) \subseteq IdsOf(saved.list)
<1>1. LevelsInv /\ [RepairNext]_repairVars => [Step]_repairVars
  <2> SUFFICES ASSUME LevelsInv, RepairNext, saved' # saved, at' = "repair", ~unreadable
               PROVE  IdsOf(saved'.list) \subseteq IdsOf(saved.list)
    OBVIOUS
  <2>1. RepairManifest
    <3>1. ASSUME Next, running PROVE FALSE
      <4>1. at # "repair"
        BY <3>1 DEF LevelsInv, LevelControl
      <4>2. \A d : ~Flush(d) /\ \A n : ~CompactLevel(n)
        BY <4>1 DEF Flush, CompactLevel, Begin, jobVars
      <4>3. ~CompactNextLevel /\ ~CompactAll
        BY <4>2 DEF CompactNextLevel, CompactAll, Begin
      <4>4. ~Expire /\ ~WriteOutputs /\ ~Publish /\ ~Abort /\ ~RemoveInputs /\ ~Crash /\ ~Open
        BY <4>1 DEF Expire, WriteOutputs, Publish, Abort, RemoveInputs, Crash, Open, jobVars
      <4> QED BY <3>1, <4>2, <4>3, <4>4 DEF Next
    <3>2. \A t : ~Damage(t)
      BY DEF Damage
    <3>3. ~LoseCurrent /\ ~Quarantine /\ ~EndRepair /\ ~OpenRepaired
      BY DEF LoseCurrent, Quarantine, EndRepair, OpenRepaired, Open, vars, fileVars
    <3> QED BY <3>1, <3>2, <3>3 DEF RepairNext
  <2>2. saved'.list = RepairedList /\ Candidates = saved.list
    BY <2>1 DEF RepairManifest, Candidates
  <2>3. saved.list \in Seq(TableEntry)
    BY DEF LevelsInv, LevelTypes
  <2> DEFINE good == {i \in DOMAIN saved.list : Healthy(saved.list[i])}
  <2>4. RepairedList = Pick(saved.list, good) /\ good \subseteq DOMAIN saved.list
    BY <2>2 DEF RepairedList
  <2> HIDE DEF good
  <2>5. \A n \in DOMAIN Pick(saved.list, good) :
          Nth(good, n - 1) \in good /\ Pick(saved.list, good)[n] = saved.list[Nth(good, n - 1)]
    BY <2>3, <2>4, PickOf
  <2> QED BY <2>2, <2>4, <2>5 DEF IdsOf
<1>2. RepairSpec => [][Step]_repairVars
  BY <1>1, LevelsInvariant, PTL DEF RepairSpec
<1> QED BY <1>2 DEF OrphansStayOut

(* Without damage nothing is spoiled, and no lookup finds an old value or  *)
(* misses one, if MaxLevels is the same at every start.                    *)
THEOREM NoOldValueWithoutDamage ==
    ASSUME SameLevels, MayGoBad = {}
    PROVE  RepairSpec => []NoOldValue
<1>1. RepairInit => spoiled = {}
  BY DEF RepairInit
<1>2. spoiled = {} /\ [RepairNext]_repairVars => (spoiled = {})'
  BY DEF RepairNext, repairVars, damageVars, Damage, LoseCurrent, RepairManifest,
         Quarantine, EndRepair, OpenRepaired
<1>3. spoiled = {} /\ OnlySpoiledKeysSuffer => NoOldValue
  BY DEF OnlySpoiledKeysSuffer, NoOldValue
<1> QED BY <1>1, <1>2, <1>3, OnlySpoiledKeysEverSuffer, PTL DEF RepairSpec

-----------------------------------------------------------------------------
(* Compactions come to an end.                                             *)

(* A compaction of a level takes tables down by one, and others with them  *)
(* that are there already.                                                 *)
JobSinks ==
    at = "write" /\ ~job.full =>
        /\ job.target < maxLevels
        /\ \A i \in job.inputs : list[i].level <= job.target
        /\ \E i \in job.inputs : list[i].level = job.target - 1

LEMMA SelectedLevels ==
    ASSUME LevelTypes, LevelControl, ListInv, running, NEW n \in Nat, AtLevel(n) # {}
    PROVE  /\ \A i \in SelectLevel(n) : list[i].level <= n + 1
           /\ \E i \in SelectLevel(n) : list[i].level = n
<1> DEFINE sources == IF n = 0 THEN AtLevel(0) ELSE {Min(AtLevel(n))}
<1>1. \A m : \A i \in AtLevel(m) : i \in DOMAIN list /\ list[i].level = m
  BY DEF AtLevel
<1>2. AtLevel(n) \in Indices
  <2>1. AtLevel(n) \subseteq DOMAIN list
    BY <1>1
  <2> QED BY <2>1, RunningList, SubsetIndices
<1>3. sources # {} /\ \A i \in sources : list[i].level = n
  <2>1. Min(AtLevel(n)) \in AtLevel(n)
    BY <1>2, MinIsLeast
  <2> QED BY <1>1, <2>1
<1>4. \A i \in SelectLevel(n) : i \in sources \/ i \in AtLevel(n + 1)
  BY DEF SelectLevel
<1>5. sources \subseteq SelectLevel(n)
  BY DEF SelectLevel
<1> HIDE DEF sources
<1> QED BY <1>1, <1>3, <1>4, <1>5

LEMMA JobSinksStep ==
    ASSUME LevelsInv, JobSinks, [RepairNext]_repairVars
    PROVE  JobSinks'
<1>1. CASE UNCHANGED <<at, job, list, maxLevels>>
  <2>1. at' = at /\ job' = job /\ list' = list /\ maxLevels' = maxLevels
    BY <1>1
  <2> QED BY <2>1, Zenon DEF JobSinks
<1>2. CASE at' # "write"
  BY <1>2 DEF JobSinks
<1>3. ASSUME running, NEW n \in Nat, CompactLevel(n) PROVE JobSinks'
  <2>1. /\ n \in 0..(maxLevels - 2) /\ AtLevel(n) # {}
        /\ job'.inputs = SelectLevel(n) /\ job'.target = n + 1
        /\ list' = list /\ maxLevels' = maxLevels
    BY <1>3 DEF CompactLevel, Begin, listVars
  <2>2. maxLevels \in Nat /\ n + 1 < maxLevels
    BY <2>1, LevelsTypes DEF LevelsInv, LevelTypes
  <2>3. (n + 1) - 1 = n
    OBVIOUS
  <2>4. /\ \A i \in SelectLevel(n) : list[i].level <= n + 1
        /\ \E i \in SelectLevel(n) : list[i].level = n
    BY <1>3, <2>1, SelectedLevels DEF LevelsInv
  <2> QED BY <2>1, <2>2, <2>3, <2>4 DEF JobSinks
<1>4. CASE CompactAll
  BY <1>4 DEF CompactAll, Begin, JobSinks
<1>5. CASE running /\ Next
  <2>1. ASSUME NEW data \in Batches, Flush(data) PROVE JobSinks'
    BY <1>2, <2>1 DEF Flush, jobVars
  <2>2. CASE Expire
    BY <1>1, <2>2 DEF Expire, jobVars, listVars
  <2>3. ASSUME NEW n \in 0..(maxLevels - 2), CompactLevel(n) PROVE JobSinks'
    <3>1. n \in Nat
      OBVIOUS
    <3> QED BY <1>3, <1>5, <2>3, <3>1
  <2>4. CASE CompactNextLevel
    <3>1. PICK n : n = Min(Overfull) /\ CompactLevel(n)
      BY <2>4 DEF CompactNextLevel
    <3>2. n \in Nat
      <4>1. n \in 0..(maxLevels - 2)
        BY <3>1 DEF CompactLevel
      <4> QED BY <4>1
    <3> QED BY <1>3, <1>5, <3>1, <3>2
  <2>5. CASE WriteOutputs
    BY <1>1, <2>5 DEF WriteOutputs, listVars
  <2>6. CASE Publish \/ Abort \/ RemoveInputs \/ Crash
    BY <1>2, <2>6 DEF Publish, Abort, RemoveInputs, Crash
  <2>7. CASE Open
    BY <1>2, <2>7 DEF Open, jobVars
  <2> QED BY <1>4, <1>5, <2>1, <2>2, <2>3, <2>4, <2>5, <2>6, <2>7 DEF Next
<1>6. CASE \E t \in TableID : Damage(t)
  BY <1>2, <1>6 DEF Damage, jobVars
<1>7. CASE LoseCurrent
  BY <1>2, <1>7 DEF LoseCurrent, vars, jobVars
<1>8. CASE RepairManifest \/ Quarantine \/ EndRepair
  BY <1>2, <1>8 DEF RepairManifest, Quarantine, EndRepair
<1>9. CASE OpenRepaired
  BY <1>2, <1>9 DEF OpenRepaired, Open, jobVars
<1>10. CASE UNCHANGED repairVars
  BY <1>1, <1>10 DEF repairVars, vars, jobVars, listVars
<1> QED BY <1>5, <1>6, <1>7, <1>8, <1>9, <1>10 DEF RepairNext

(* The outputs are one level below a part of the inputs, hold no key that  *)
(* these do not hold, and no key twice.                                    *)
LEMMA PublishSinks ==
    ASSUME LevelsInv, JobSinks, running, Publish, ~job.full
    PROVE  Potential' < Potential
<1> DEFINE stay == DOMAIN list \ job.inputs
           Places == TableID \X Key \X (0 .. maxLevels - 1)
           Listed(p, l) == \E i \in DOMAIN l : /\ l[i].id = p[1]
                                               /\ l[i].level <= p[3]
                                               /\ p[2] \in KeysOf(files[p[1]])
           Old == {p \in Places : Listed(p, list)}
           New == {p \in Places : Listed(p, NewList)}
           Stays(p) == \E i \in stay : list[i].id = p[1]
           Home(k) == CHOOSE i \in job.inputs : k \in HeldBy(i)
           h == [p \in New |-> IF Stays(p) THEN p ELSE <<list[Home(p[2])].id, p[2], p[3]>>]
<1>1. /\ at = "write" /\ WorkersDone /\ list' = NewList
      /\ files' = files /\ maxLevels' = maxLevels
  BY DEF Publish
<1>2. Sinking = Old /\ Sinking' = New
  BY <1>1 DEF Sinking
<1>3. /\ job.inputs \in SUBSET (DOMAIN list) /\ job.target \in Nat \ {0}
      /\ job.target < maxLevels /\ maxLevels \in Nat
      /\ \A i \in job.inputs : list[i].level <= job.target
  BY <1>1, LevelsTypes DEF JobSinks, LevelsInv, JobInv, LevelTypes
<1>4. PICK s \in job.inputs : list[s].level = job.target - 1
  BY <1>1 DEF JobSinks
<1>5. /\ \A i \in DOMAIN list : /\ list[i].id \in TableID /\ list[i].level \in Nat /\ i \in Nat
                                /\ HeldBy(i) # {} /\ HeldBy(i) \subseteq Key
                                /\ list[i].id < nextID
      /\ \A i, j \in DOMAIN list : list[i].id = list[j].id => i = j
  <2>1. /\ \A i \in DOMAIN list : /\ list[i].id \in TableID /\ list[i].level \in Nat /\ i \in Nat
                                  /\ HeldBy(i) # {} /\ HeldBy(i) \subseteq Key
        /\ \A i, j \in DOMAIN list : i < j => list[i].id # list[j].id
    BY RunningList DEF LevelsInv
  <2>2. \A i, j \in DOMAIN list : list[i].id = list[j].id => i = j
    <3> SUFFICES ASSUME NEW i \in DOMAIN list, NEW j \in DOMAIN list, list[i].id = list[j].id
                 PROVE  i = j
      OBVIOUS
    <3>1. i \in Nat /\ j \in Nat /\ ~(i < j) /\ ~(j < i)
      BY <2>1
    <3> QED BY <3>1
  <2>3. \A i \in DOMAIN list : list[i].id < nextID
    <3> SUFFICES ASSUME NEW i \in DOMAIN list PROVE list[i].id < nextID
      OBVIOUS
    <3>1. list = saved.list
      BY RunningList DEF LevelsInv
    <3>2. list[i].id \in IdsOf(saved.list)
      BY <3>1 DEF IdsOf
    <3> QED BY <3>2, ListedBelow DEF LevelsInv
  <2> QED BY <2>1, <2>2, <2>3
<1>6. \A j \in DOMAIN Outputs :
         /\ Outputs[j].level = job.target /\ Outputs[j].id \in Nat /\ nextID <= Outputs[j].id
         /\ KeysOf(files[Outputs[j].id]) \subseteq InputKeys
  BY <1>1, OutputsOf
<1>7. ASSUME NEW p \in New
      PROVE  \/ \E i \in stay : list[i].id = p[1] /\ list[i].level <= p[3] /\ p[2] \in HeldBy(i)
             \/ \E j \in DOMAIN Outputs : /\ Outputs[j].id = p[1] /\ job.target <= p[3]
                                          /\ p[2] \in KeysOf(files[Outputs[j].id])
  <2>1. PICK n \in DOMAIN NewList : /\ NewList[n].id = p[1] /\ NewList[n].level <= p[3]
                                    /\ p[2] \in KeysOf(files[p[1]])
    OBVIOUS
  <2>2. NewList[n] \in {list[i] : i \in stay} \cup Elements(Outputs)
    BY <1>1, NewListOf DEF Elements
  <2>3. CASE NewList[n] \in Elements(Outputs)
    BY <1>6, <2>1, <2>3 DEF Elements
  <2>4. CASE NewList[n] \in {list[i] : i \in stay}
    BY <2>1, <2>4 DEF HeldBy
  <2> QED BY <2>2, <2>3, <2>4
<1>8. \A p \in Places : p = <<p[1], p[2], p[3]>> /\ p[1] \in TableID /\ p[2] \in Key
                        /\ p[3] \in 0 .. maxLevels - 1
  <2> DEFINE levels == 0 .. maxLevels - 1
  <2> HIDE DEF levels
  <2>1. \A p \in TableID \X Key \X levels : p = <<p[1], p[2], p[3]>> /\ p[1] \in TableID
                        /\ p[2] \in Key /\ p[3] \in levels
    BY TriplesAre
  <2> QED BY <2>1 DEF levels
<1>9. ASSUME NEW p \in New, Stays(p)
      PROVE  p \in Old /\ \A e \in job.inputs : list[e].id # p[1]
  <2>1. PICK i \in stay : list[i].id = p[1]
    BY <1>9
  <2>2. ~ \E j \in DOMAIN Outputs : Outputs[j].id = p[1]
    <3> SUFFICES ASSUME NEW j \in DOMAIN Outputs, Outputs[j].id = p[1] PROVE FALSE
      OBVIOUS
    <3>1. nextID \in Nat /\ list[i].id \in Nat /\ list[i].id < nextID /\ nextID <= list[i].id
      BY <1>5, <1>6, <2>1 DEF LevelsInv, LevelTypes, TableID
    <3> QED BY <3>1
  <2>3. PICK m \in stay : list[m].id = p[1] /\ list[m].level <= p[3] /\ p[2] \in HeldBy(m)
    BY <1>7, <2>2
  <2>4. p \in Old
    BY <2>3 DEF HeldBy
  <2>5. \A e \in job.inputs : list[e].id # p[1]
    BY <1>3, <1>5, <2>1
  <2> QED BY <2>4, <2>5
<1>10. ASSUME NEW p \in New, ~Stays(p)
       PROVE  /\ Home(p[2]) \in job.inputs /\ p[2] \in HeldBy(Home(p[2]))
              /\ job.target <= p[3]
              /\ \E j \in DOMAIN Outputs : /\ Outputs[j].id = p[1]
                                           /\ p[2] \in KeysOf(files[Outputs[j].id])
  <2>1. PICK j \in DOMAIN Outputs : /\ Outputs[j].id = p[1] /\ job.target <= p[3]
                                    /\ p[2] \in KeysOf(files[Outputs[j].id])
    BY <1>7, <1>10
  <2>2. \E i \in job.inputs : p[2] \in HeldBy(i)
    BY <1>6, <2>1 DEF InputKeys, HeldBy
  <2> QED BY <2>1, <2>2
<1> DEFINE x(k) == <<list[s].id, k, job.target - 1>>
<1>11. PICK k0 \in Key : k0 \in HeldBy(s)
  BY <1>3, <1>5
<1>12. x(k0) \in Old
  <2>1. s \in DOMAIN list /\ job.target - 1 \in 0 .. maxLevels - 1 /\ list[s].id \in TableID
    BY <1>3, <1>5
  <2>2. x(k0) \in Places /\ x(k0)[1] = list[s].id /\ x(k0)[2] = k0 /\ x(k0)[3] = job.target - 1
    BY <2>1
  <2>3. list[s].level <= job.target - 1
    BY <1>4, <1>5, <2>1
  <2> QED BY <1>11, <2>1, <2>2, <2>3 DEF HeldBy
<1> DEFINE Rest == Old \ {x(k0)}
<1>13. ASSUME NEW p \in New PROVE h[p] \in Rest
  <2>1. CASE Stays(p)
    <3>1. p \in Old /\ p[1] # list[s].id /\ h[p] = p
      BY <1>9, <2>1
    <3>2. x(k0)[1] = list[s].id
      OBVIOUS
    <3> QED BY <3>1, <3>2
  <2>2. CASE ~Stays(p)
    <3> DEFINE i == Home(p[2])
    <3>1. i \in job.inputs /\ p[2] \in HeldBy(i) /\ job.target <= p[3]
      BY <1>10, <2>2
    <3>2. h[p] = <<list[i].id, p[2], p[3]>>
      BY <2>2
    <3> HIDE DEF i, h
    <3>3. i \in DOMAIN list /\ list[i].id \in TableID /\ list[i].level \in Nat
          /\ list[i].level <= job.target
      BY <1>3, <1>5, <3>1
    <3>4. p[2] \in Key /\ p[3] \in 0 .. maxLevels - 1
      BY <1>8
    <3>5. list[i].level <= p[3]
      BY <1>3, <3>1, <3>3, <3>4
    <3>6. /\ h[p] \in Places
          /\ h[p][1] = list[i].id /\ h[p][2] = p[2] /\ h[p][3] = p[3]
      BY <3>2, <3>3, <3>4
    <3>7. h[p] \in Old
      BY <3>1, <3>3, <3>5, <3>6 DEF HeldBy
    <3>8. x(k0)[3] = job.target - 1 /\ p[3] # job.target - 1
      BY <1>3, <3>1, <3>4
    <3> QED BY <3>6, <3>7, <3>8
  <2> QED BY <2>1, <2>2
<1>14. ASSUME NEW p \in New, NEW q \in New, h[p] = h[q] PROVE p = q
  <2>1. p = <<p[1], p[2], p[3]>> /\ q = <<q[1], q[2], q[3]>>
    BY <1>8
  <2>2. CASE Stays(p) /\ Stays(q)
    BY <1>14, <2>2
  <2>3. ASSUME NEW u \in New, NEW v \in New, Stays(u), ~Stays(v) PROVE h[u] # h[v]
    <3>1. h[u] = u /\ h[v] = <<list[Home(v[2])].id, v[2], v[3]>>
      BY <2>3
    <3>2. u[1] # list[Home(v[2])].id
      BY <1>9, <1>10, <2>3
    <3> QED BY <3>1, <3>2
  <2>4. CASE ~Stays(p) /\ ~Stays(q)
    <3>1. p[2] = q[2] /\ p[3] = q[3]
      <4>1. h[p] = <<list[Home(p[2])].id, p[2], p[3]>> /\ h[q] = <<list[Home(q[2])].id, q[2], q[3]>>
        BY <2>4
      <4> DEFINE a == list[Home(p[2])].id
                 b == list[Home(q[2])].id
      <4>2. <<a, p[2], p[3]>> = <<b, q[2], q[3]>>
        BY <1>14, <4>1
      <4> HIDE DEF h, Home, a, b
      <4> QED BY <4>2
    <3>2. PICK i \in DOMAIN Outputs : /\ Outputs[i].id = p[1]
                                      /\ p[2] \in KeysOf(files[Outputs[i].id])
      BY <1>10, <2>4
    <3>3. PICK j \in DOMAIN Outputs : /\ Outputs[j].id = q[1]
                                      /\ q[2] \in KeysOf(files[Outputs[j].id])
      BY <1>10, <2>4
    <3>4. ASSUME NEW m \in DOMAIN Outputs, NEW n \in DOMAIN Outputs, m < n,
                 p[2] \in KeysOf(files[Outputs[m].id]), p[2] \in KeysOf(files[Outputs[n].id])
          PROVE  FALSE
      <4>1. <<Outputs[m], Outputs[n]>> \in Fitting
        BY <1>1, <3>4, OutputsOf DEF Pairs
      <4>2. Outputs[m].level = job.target /\ Outputs[n].level = job.target
        BY <1>6
      <4>3. Apart(KeysOf(files[Outputs[m].id]), KeysOf(files[Outputs[n].id]))
        BY <1>3, <4>1, <4>2 DEF Fitting
      <4>4. p[2] \in Nat
        BY <1>8, LevelsTypes
      <4> QED BY <3>4, <4>3, <4>4 DEF Apart, Above
    <3>5. i \in Nat /\ j \in Nat
      <4>1. Outputs \in Seq(TableEntry)
        BY <1>1, OutputsOf
      <4> QED BY <4>1
    <3>6. ~(i < j) /\ ~(j < i)
      BY <3>1, <3>2, <3>3, <3>4
    <3>7. i = j
      BY <3>5, <3>6
    <3> QED BY <2>1, <3>1, <3>2, <3>3, <3>7
  <2> QED BY <1>14, <2>2, <2>3, <2>4
<1>15. IsFiniteSet(Old)
  <2>1. IsFiniteSet(TableID) /\ IsFiniteSet(Key) /\ IsFiniteSet(0 .. maxLevels - 1)
    <3>1. 1 \in Int /\ 0 \in Int /\ MaxTable \in Int /\ maxLevels - 1 \in Int
      BY <1>3, LevelsTypes
    <3>2. IsFiniteSet(1 .. MaxTable) /\ IsFiniteSet(0 .. maxLevels - 1)
      BY <3>1, FS_Interval
    <3>3. IsFiniteSet(Key)
      BY LevelsTypes DEF Indices
    <3> QED BY <3>2, <3>3 DEF TableID
  <2>2. IsFiniteSet(Places)
    <3> DEFINE levels == 0 .. maxLevels - 1
    <3> HIDE DEF levels
    <3>1. IsFiniteSet(TableID \X Key \X levels)
      BY <2>1, FiniteTriples DEF levels
    <3> QED BY <3>1 DEF levels
  <2>3. Old \subseteq Places
    OBVIOUS
  <2> HIDE DEF Places, Old
  <2> QED BY <2>2, <2>3, FS_Subset
<1>16. IsFiniteSet(Rest) /\ Cardinality(Rest) = Cardinality(Old) - 1 /\ Cardinality(Old) \in Nat
  <2> HIDE DEF Old
  <2> QED BY <1>12, <1>15, FS_RemoveElement, FS_CardinalityType
<1>17. h \in Injection(New, Rest)
  <2>1. h \in [New -> Rest]
    <3>1. h = [p \in New |-> h[p]]
      OBVIOUS
    <3> HIDE DEF h, New, Rest
    <3> QED BY <1>13, <3>1
  <2> HIDE DEF h, New, Rest
  <2> QED BY <1>14, <2>1 DEF Injection, IsInjective
<1>18. Cardinality(New) <= Cardinality(Rest) /\ IsFiniteSet(New)
  <2> HIDE DEF h, New, Rest
  <2> QED BY <1>16, <1>17, FS_Injection
<1> HIDE DEF New, Old, Rest
<1>19. Cardinality(New) \in Nat /\ Cardinality(Rest) \in Nat
  BY <1>16, <1>18, FS_CardinalityType
<1> QED BY <1>2, <1>16, <1>18, <1>19 DEF Potential

(* Each level compaction leaves less to sink than it found, so that the    *)
(* chain of compactions the maintenance goroutine runs through between two *)
(* flushes is finite (CompactNextLevel and compactOutputs): the outputs,   *)
(* cut anywhere and replacing any inputs, hold nothing twice and sit one   *)
(* level below a table that is gone.                                       *)
THEOREM CompactionsAlwaysSink == RepairSpec => CompactionsSink
<1> DEFINE Step == at = "write" /\ at' = "cleanup" /\ ~job.full => Potential' < Potential
<1>1. RepairInit => JobSinks
  BY DEF RepairInit, Init, JobSinks
<1>2. RepairSpec => []JobSinks
  <2>1. LevelsInv /\ JobSinks /\ [RepairNext]_repairVars => JobSinks'
    BY JobSinksStep
  <2> QED BY <1>1, <2>1, LevelsInvariant, PTL DEF RepairSpec
<1>3. LevelsInv /\ JobSinks /\ [RepairNext]_repairVars => [Step]_vars
  <2> SUFFICES ASSUME LevelsInv, JobSinks, [RepairNext]_repairVars,
                      at = "write", at' = "cleanup", ~job.full
               PROVE  Potential' < Potential
    OBVIOUS
  <2>1. running /\ Publish
    <3>1. at # "idle" /\ at # "repair" /\ at' # at /\ at' # "idle" /\ at' # "repair"
          /\ at # "cleanup" /\ at' # "write"
      OBVIOUS
    <3>2. RepairNext
      BY <3>1 DEF repairVars, vars, jobVars
    <3>3. \A t : ~Damage(t)
      BY <3>1 DEF Damage
    <3>4. ~LoseCurrent /\ ~RepairManifest /\ ~Quarantine /\ ~EndRepair /\ ~OpenRepaired
      BY <3>1 DEF LoseCurrent, RepairManifest, Quarantine, EndRepair, OpenRepaired, Open
    <3>5. running /\ Next
      BY <3>2, <3>3, <3>4 DEF RepairNext
    <3>6. \A d : ~Flush(d) /\ \A n : ~CompactLevel(n)
      BY <3>1 DEF Flush, CompactLevel, Begin
    <3>7. ~CompactNextLevel /\ ~CompactAll
      BY <3>1, <3>6 DEF CompactNextLevel, CompactAll, Begin
    <3>8. ~Expire /\ ~WriteOutputs /\ ~Abort /\ ~RemoveInputs /\ ~Crash /\ ~Open
      BY <3>1 DEF Expire, WriteOutputs, Abort, RemoveInputs, Crash, Open, jobVars
    <3> QED BY <3>5, <3>6, <3>7, <3>8 DEF Next
  <2> QED BY <2>1, PublishSinks
<1> QED BY <1>2, <1>3, LevelsInvariant, PTL DEF RepairSpec, CompactionsSink
=============================================================================
