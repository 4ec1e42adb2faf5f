---------------------------- MODULE FormatProofs ----------------------------
(***************************************************************************)
(* Theorems of the formats.  Keys and values of logs: for any times,       *)
(* labels of any bytes, numbers and base, what was accepted comes back.    *)
(* Tables: for any records, blocks, restart points and damage, lookup,     *)
(* scan and iterator give the records that were written.  The lemmas say   *)
(* what sorting, joining, escaping, cutting and the loops over texts and   *)
(* blocks do, for texts and tables of any length.                          *)
(***************************************************************************)
EXTENDS LogCodec, TableFormat, NaturalSets, SequenceTheorems

-----------------------------------------------------------------------------
(* Sorting.  An order is the set of its pairs here.                        *)

TotalOn(S, R) ==
    /\ \A x \in S : <<x, x>> \notin R
    /\ \A x, y, z \in S : <<x, y>> \in R /\ <<y, z>> \in R => <<x, z>> \in R
    /\ \A x, y \in S : x = y \/ <<x, y>> \in R \/ <<y, x>> \in R

Place(S, R, x) == Cardinality({y \in S : <<y, x>> \in R})

LEMMA PlaceType ==
    ASSUME NEW S, IsFiniteSet(S), NEW R, TotalOn(S, R), NEW x \in S
    PROVE  Place(S, R, x) \in 0..(Cardinality(S) - 1)
<1> DEFINE T == {y \in S : <<y, x>> \in R}
<1>1. T \in SUBSET S /\ T # S
  BY DEF TotalOn
<1>2. IsFiniteSet(T) /\ Cardinality(T) <= Cardinality(S) /\ Cardinality(S) # Cardinality(T)
  <2> HIDE DEF T
  <2> QED BY <1>1, FS_Subset
<1>3. Cardinality(T) \in Nat /\ Cardinality(S) \in Nat
  BY <1>2, FS_CardinalityType
<1>4. Place(S, R, x) = Cardinality(T)
  BY DEF Place
<1> HIDE DEF T
<1> QED BY <1>2, <1>3, <1>4

LEMMA PlaceGrows ==
    ASSUME NEW S, IsFiniteSet(S), NEW R, TotalOn(S, R), NEW x \in S, NEW y \in S, <<x, y>> \in R
    PROVE  Place(S, R, x) < Place(S, R, y)
<1> DEFINE T == {z \in S : <<z, x>> \in R}
           U == {z \in S : <<z, y>> \in R}
<1>1. T \in SUBSET U /\ x \in U /\ x \notin T /\ U \in SUBSET S
  BY DEF TotalOn
<1>2. Place(S, R, x) = Cardinality(T) /\ Place(S, R, y) = Cardinality(U)
  BY DEF Place
<1> HIDE DEF T, U
<1>3. IsFiniteSet(U)
  BY <1>1, FS_Subset
<1>4. IsFiniteSet(T) /\ Cardinality(T) <= Cardinality(U) /\ Cardinality(T) # Cardinality(U)
  BY <1>1, <1>3, FS_Subset
<1>5. Cardinality(T) \in Nat /\ Cardinality(U) \in Nat
  BY <1>3, <1>4, FS_CardinalityType
<1> QED BY <1>2, <1>4, <1>5

(* Every place is taken, because no two elements have the same.            *)
LEMMA PlaceTaken ==
    ASSUME NEW S, IsFiniteSet(S), NEW R, TotalOn(S, R), NEW n \in 0..(Cardinality(S) - 1)
    PROVE  \E x \in S : Place(S, R, x) = n
<1> DEFINE T == 0..(Cardinality(S) - 1)
           f == [x \in S |-> Place(S, R, x)]
<1>1. Cardinality(S) \in Nat
  BY FS_CardinalityType
<1>2. IsFiniteSet(T) /\ Cardinality(T) = Cardinality(S)
  BY <1>1, FS_Interval
<1>3. f \in [S -> T]
  BY PlaceType
<1>4. \A x, y \in S : f[x] = f[y] => x = y
  <2> SUFFICES ASSUME NEW x \in S, NEW y \in S, x # y PROVE f[x] # f[y]
    OBVIOUS
  <2>1. f[x] \in T /\ f[y] \in T
    BY <1>3
  <2>2. f[x] < f[y] \/ f[y] < f[x]
    <3>1. <<x, y>> \in R \/ <<y, x>> \in R
      BY DEF TotalOn
    <3> QED BY <3>1, PlaceGrows
  <2> HIDE DEF f
  <2> QED BY <1>1, <2>1, <2>2
<1> HIDE DEF f
<1>5. f \in Injection(S, T)
  BY <1>3, <1>4, Zenon DEF Injection, IsInjective
<1>6. f \in Surjection(S, T)
  <2> HIDE DEF T
  <2> QED BY <1>2, <1>5, FS_Injection
<1>7. \E x \in S : f[x] = n
  BY <1>6, Zenon DEF Surjection
<1> QED BY <1>7 DEF f

(* What sorting a finite set gives.                                        *)
ListOf(S, R, s) ==
    /\ s \in [1..Cardinality(S) -> S]
    /\ \A x \in S : \E n \in 1..Cardinality(S) : s[n] = x
    /\ \A m, n \in 1..Cardinality(S) : m < n => <<s[m], s[n]>> \in R

LEMMA ListedIs ==
    ASSUME NEW S, IsFiniteSet(S), NEW R, TotalOn(S, R)
    PROVE  ListOf(S, R, [n \in 1..Cardinality(S) |-> CHOOSE x \in S : Place(S, R, x) = n - 1])
<1> DEFINE N    == Cardinality(S)
           s == [n \in 1..N |-> CHOOSE x \in S : Place(S, R, x) = n - 1]
<1>1. N \in Nat
  BY FS_CardinalityType
<1>2. \A n \in 1..N : s[n] \in S /\ Place(S, R, s[n]) = n - 1
  <2> SUFFICES ASSUME NEW n \in 1..N PROVE s[n] \in S /\ Place(S, R, s[n]) = n - 1
    OBVIOUS
  <2>1. n - 1 \in 0..(N - 1)
    BY <1>1
  <2>2. \E x \in S : Place(S, R, x) = n - 1
    BY <2>1, PlaceTaken
  <2> QED BY <2>2
<1>3. s \in [1..N -> S]
  BY <1>2
<1>4. \A m, n \in 1..N : m < n => <<s[m], s[n]>> \in R
  <2> SUFFICES ASSUME NEW m \in 1..N, NEW n \in 1..N, m < n, <<s[m], s[n]>> \notin R PROVE FALSE
    OBVIOUS
  <2> HIDE DEF s
  <2>1. s[m] = s[n] \/ <<s[n], s[m]>> \in R
    BY <1>2 DEF TotalOn
  <2>2. ~(Place(S, R, s[n]) < Place(S, R, s[m]))
    BY <1>1, <1>2
  <2>3. s[m] = s[n]
    BY <1>2, <2>1, <2>2, PlaceGrows
  <2> QED BY <1>1, <1>2, <2>3
<1>5. \A x \in S : \E n \in 1..N : s[n] = x
  <2> SUFFICES ASSUME NEW x \in S PROVE \E n \in 1..N : s[n] = x
    OBVIOUS
  <2> DEFINE n == Place(S, R, x) + 1
  <2>1. Place(S, R, x) \in 0..(N - 1)
    BY PlaceType
  <2>2. n \in 1..N /\ n - 1 = Place(S, R, x)
    BY <1>1, <2>1
  <2> HIDE DEF s, n
  <2>3. s[n] \in S /\ Place(S, R, s[n]) = Place(S, R, x)
    BY <1>2, <2>2
  <2>4. s[n] = x
    <3>1. s[n] = x \/ <<s[n], x>> \in R \/ <<x, s[n]>> \in R
      BY <2>3 DEF TotalOn
    <3>2. Place(S, R, x) \in Nat
      BY <2>1
    <3>3. ~(Place(S, R, x) < Place(S, R, s[n])) /\ ~(Place(S, R, s[n]) < Place(S, R, x))
      BY <2>3, <3>2
    <3> QED BY <2>3, <3>1, <3>3, PlaceGrows
  <2> QED BY <2>2, <2>4
<1> HIDE DEF s
<1>6. ListOf(S, R, s)
  BY <1>3, <1>4, <1>5 DEF ListOf
<1> QED BY <1>6 DEF s

-----------------------------------------------------------------------------
(* Bytes: the order of strings.                                            *)

LEMMA SharedIs ==
    ASSUME NEW a \in Seq(Nat), NEW b \in Seq(Nat)
    PROVE  /\ SharedLen(a, b) \in 0 .. Len(a) /\ SharedLen(a, b) <= Len(b)
           /\ \A i \in 1 .. SharedLen(a, b) : a[i] = b[i]
           /\ SharedLen(a, b) < Len(a) /\ SharedLen(a, b) < Len(b) =>
                 a[SharedLen(a, b) + 1] # b[SharedLen(a, b) + 1]
<1> DEFINE m == Min({Len(a), Len(b)})
           N == {n \in 0 .. m : \A i \in 1 .. n : a[i] = b[i]}
           k == SharedLen(a, b)
<1>1. Len(a) \in Nat /\ Len(b) \in Nat
  OBVIOUS
<1>2. m \in Nat /\ m <= Len(a) /\ m <= Len(b) /\ (m = Len(a) \/ m = Len(b))
  <2>1. {Len(a), Len(b)} \in SUBSET Nat /\ {Len(a), Len(b)} # {}
    BY <1>1
  <2>2. m \in {Len(a), Len(b)} /\ \A y \in {Len(a), Len(b)} : m <= y
    BY <2>1, LeastOfNaturals
  <2> QED BY <1>1, <2>2
<1>3. k = Max(N)
  BY DEF SharedLen
<1>4. N \in Indices /\ 0 \in N
  <2>1. 0..m \in Indices /\ N \in SUBSET (0..m)
    BY <1>2, IntervalIndices
  <2>2. 0 \in N
    BY <1>2
  <2> HIDE DEF N
  <2> QED BY <2>1, <2>2, SubsetIndices
<1>5. k \in N /\ \A y \in N : y <= k
  <2> HIDE DEF N
  <2> QED BY <1>3, <1>4, MaxIsGreatest
<1>6. k \in 0 .. m /\ \A i \in 1 .. k : a[i] = b[i]
  BY <1>5
<1>7. k < Len(a) /\ k < Len(b) => a[k + 1] # b[k + 1]
  <2> SUFFICES ASSUME k < Len(a), k < Len(b), a[k + 1] = b[k + 1] PROVE FALSE
    OBVIOUS
  <2>1. k + 1 \in 0 .. m
    BY <1>1, <1>2, <1>6
  <2>2. \A i \in 1 .. k + 1 : a[i] = b[i]
    BY <1>2, <1>6
  <2>3. k + 1 \in N
    BY <2>1, <2>2
  <2> HIDE DEF k, m, N
  <2>4. k + 1 <= k /\ k \in Nat
    BY <1>2, <1>5, <1>6, <2>3
  <2> QED BY <2>4
<1> HIDE DEF m, k, N
<1>8. k \in 0 .. Len(a) /\ k <= Len(b)
  BY <1>1, <1>2, <1>6
<1> QED BY <1>6, <1>7, <1>8 DEF k

(* a comes before b because of what follows their first n bytes.           *)
ParentAt(a, b, n) ==
    /\ n \in 0 .. Len(a) /\ n < Len(b)
    /\ \A i \in 1 .. n : a[i] = b[i]
    /\ n < Len(a) => a[n + 1] < b[n + 1]

LEMMA PrecedesIs ==
    ASSUME NEW a \in Seq(Nat), NEW b \in Seq(Nat)
    PROVE  Precedes(a, b) <=> \E n \in Nat : ParentAt(a, b, n)
<1> DEFINE k == SharedLen(a, b)
<1>1. Len(a) \in Nat /\ Len(b) \in Nat
  OBVIOUS
<1>2. /\ k \in 0 .. Len(a) /\ k <= Len(b)
      /\ \A i \in 1 .. k : a[i] = b[i]
      /\ k < Len(a) /\ k < Len(b) => a[k + 1] # b[k + 1]
  BY SharedIs
<1>3. Precedes(a, b) <=> k < Len(b) /\ (k = Len(a) \/ (k < Len(a) /\ a[k + 1] < b[k + 1]))
  BY DEF Precedes
<1> HIDE DEF k
<1>4. ASSUME Precedes(a, b) PROVE \E n \in Nat : ParentAt(a, b, n)
  <2>1. ParentAt(a, b, k)
    BY <1>1, <1>2, <1>3, <1>4 DEF ParentAt
  <2> QED BY <1>1, <1>2, <2>1
<1>5. ASSUME NEW n \in Nat, ParentAt(a, b, n) PROVE Precedes(a, b)
  <2>1. /\ n <= Len(a) /\ n < Len(b)
        /\ \A i \in 1 .. n : a[i] = b[i]
        /\ n < Len(a) => a[n + 1] < b[n + 1]
    BY <1>1, <1>5 DEF ParentAt
  <2>2. n = k
    <3>1. CASE n < k
      <4>1. n + 1 \in 1 .. k /\ n < Len(a)
        BY <1>1, <1>2, <3>1
      <4>2. a[n + 1] = b[n + 1] /\ a[n + 1] < b[n + 1] /\ a[n + 1] \in Nat
        BY <1>2, <2>1, <4>1
      <4> QED BY <4>2
    <3>2. CASE k < n
      <4>1. k + 1 \in 1 .. n /\ k < Len(a) /\ k < Len(b)
        BY <1>1, <1>2, <2>1, <3>2
      <4> QED BY <1>2, <2>1, <4>1
    <3> QED BY <1>1, <1>2, <3>1, <3>2
  <2> QED BY <1>1, <1>3, <2>1, <2>2
<1> QED BY <1>4, <1>5

LEMMA PrecedesNone ==
    ASSUME NEW a \in Seq(Nat)
    PROVE  ~Precedes(a, a)
<1> SUFFICES ASSUME NEW n \in Nat, ParentAt(a, a, n) PROVE FALSE
  BY PrecedesIs
<1>1. Len(a) \in Nat /\ n < Len(a) /\ a[n + 1] < a[n + 1]
  BY DEF ParentAt
<1>2. a[n + 1] \in Nat
  BY <1>1
<1> QED BY <1>1, <1>2

LEMMA PrecedesFollows ==
    ASSUME NEW a \in Seq(Nat), NEW b \in Seq(Nat), NEW c \in Seq(Nat),
           Precedes(a, b), Precedes(b, c)
    PROVE  Precedes(a, c)
<1>1. Len(a) \in Nat /\ Len(b) \in Nat /\ Len(c) \in Nat
  OBVIOUS
<1>2. PICK m \in Nat : ParentAt(a, b, m)
  BY PrecedesIs
<1>3. PICK n \in Nat : ParentAt(b, c, n)
  BY PrecedesIs
<1>4. /\ m <= Len(a) /\ m < Len(b) /\ \A i \in 1 .. m : a[i] = b[i]
      /\ m < Len(a) => a[m + 1] < b[m + 1]
  BY <1>1, <1>2 DEF ParentAt
<1>5. /\ n <= Len(b) /\ n < Len(c) /\ \A i \in 1 .. n : b[i] = c[i]
      /\ n < Len(b) => b[n + 1] < c[n + 1]
  BY <1>1, <1>3 DEF ParentAt
<1>6. CASE m <= n
  <2>1. \A i \in 1 .. m : a[i] = c[i]
    BY <1>4, <1>5, <1>6
  <2>2. m < Len(a) => a[m + 1] < c[m + 1]
    <3> SUFFICES ASSUME m < Len(a) PROVE a[m + 1] < c[m + 1]
      OBVIOUS
    <3>1. m + 1 \in 1 .. Len(a) /\ m + 1 \in 1 .. Len(b) /\ m + 1 \in 1 .. Len(c)
      BY <1>1, <1>4, <1>5, <1>6
    <3>2. a[m + 1] \in Nat /\ b[m + 1] \in Nat /\ c[m + 1] \in Nat
      BY <3>1
    <3>3. b[m + 1] <= c[m + 1]
      <4>1. CASE m < n
        <5>1. m + 1 \in 1 .. n
          BY <4>1
        <5> QED BY <1>5, <3>2, <5>1
      <4>2. CASE m = n
        BY <1>4, <1>5, <3>2, <4>2
      <4> QED BY <1>6, <4>1, <4>2
    <3> QED BY <1>4, <3>2, <3>3
  <2>3. ParentAt(a, c, m)
    BY <1>1, <1>4, <1>5, <1>6, <2>1, <2>2 DEF ParentAt
  <2> QED BY <2>3, PrecedesIs
<1>7. CASE n < m
  <2>1. \A i \in 1 .. n : a[i] = c[i]
    BY <1>4, <1>5, <1>7
  <2>2. n + 1 \in 1 .. m /\ n < Len(a) /\ n < Len(b)
    BY <1>1, <1>4, <1>7
  <2>3. a[n + 1] = b[n + 1] /\ b[n + 1] < c[n + 1]
    BY <1>4, <1>5, <2>2
  <2>4. ParentAt(a, c, n)
    BY <1>1, <1>5, <2>1, <2>2, <2>3 DEF ParentAt
  <2> QED BY <2>4, PrecedesIs
<1> QED BY <1>6, <1>7

LEMMA PrecedesEither ==
    ASSUME NEW a \in Seq(Nat), NEW b \in Seq(Nat)
    PROVE  a = b \/ Precedes(a, b) \/ Precedes(b, a)
<1> DEFINE k == SharedLen(a, b)
<1>1. Len(a) \in Nat /\ Len(b) \in Nat
  OBVIOUS
<1>2. /\ k \in 0 .. Len(a) /\ k <= Len(b)
      /\ \A i \in 1 .. k : a[i] = b[i]
      /\ k < Len(a) /\ k < Len(b) => a[k + 1] # b[k + 1]
  BY SharedIs
<1> HIDE DEF k
<1>3. CASE k = Len(a) /\ k = Len(b)
  <2>1. Len(a) = Len(b) /\ \A i \in 1 .. Len(a) : a[i] = b[i]
    BY <1>2, <1>3
  <2> QED BY <2>1, SeqEqual
<1>4. CASE k = Len(a) /\ k < Len(b)
  <2>1. ParentAt(a, b, k)
    BY <1>1, <1>2, <1>4 DEF ParentAt
  <2> QED BY <1>2, <2>1, PrecedesIs
<1>5. CASE k < Len(a) /\ k = Len(b)
  <2>1. ParentAt(b, a, k)
    BY <1>1, <1>2, <1>5 DEF ParentAt
  <2> QED BY <1>2, <2>1, PrecedesIs
<1>6. CASE k < Len(a) /\ k < Len(b)
  <2>1. a[k + 1] \in Nat /\ b[k + 1] \in Nat
    BY <1>1, <1>2, <1>6
  <2>2. CASE a[k + 1] < b[k + 1]
    <3>1. ParentAt(a, b, k)
      BY <1>1, <1>2, <1>6, <2>2 DEF ParentAt
    <3> QED BY <1>2, <3>1, PrecedesIs
  <2>3. CASE b[k + 1] < a[k + 1]
    <3>1. ParentAt(b, a, k)
      BY <1>1, <1>2, <1>6, <2>3 DEF ParentAt
    <3> QED BY <1>2, <3>1, PrecedesIs
  <2> QED BY <1>2, <1>6, <2>1, <2>2, <2>3
<1> QED BY <1>1, <1>2, <1>3, <1>4, <1>5, <1>6

ByBytes(S) == {p \in S \X S : Precedes(p[1], p[2])}

LEMMA BytesInOrder ==
    ASSUME NEW S \in SUBSET Seq(Nat)
    PROVE  TotalOn(S, ByBytes(S))
<1>1. \A x, y \in S : <<x, y>> \in ByBytes(S) <=> Precedes(x, y)
  BY DEF ByBytes
<1>2. \A x \in S : x \in Seq(Nat)
  OBVIOUS
<1>3. \A x \in S : ~Precedes(x, x)
  BY <1>2, PrecedesNone
<1>4. \A x, y, z \in S : Precedes(x, y) /\ Precedes(y, z) => Precedes(x, z)
  BY <1>2, PrecedesFollows
<1>5. \A x, y \in S : x = y \/ Precedes(x, y) \/ Precedes(y, x)
  BY <1>2, PrecedesEither
<1> QED BY <1>1, <1>3, <1>4, <1>5 DEF TotalOn

(* Listed, of strings.                                                     *)
LEMMA StringsListed ==
    ASSUME NEW S \in SUBSET Seq(Nat), IsFiniteSet(S)
    PROVE  ListOf(S, ByBytes(S), Listed(S, Precedes))
<1> DEFINE R == ByBytes(S)
<1>1. ListOf(S, R, [n \in 1..Cardinality(S) |-> CHOOSE x \in S : Place(S, R, x) = n - 1])
  BY BytesInOrder, ListedIs
<1>2. \A x \in S : Place(S, R, x) = Cardinality({y \in S : Precedes(y, x)})
  <2> SUFFICES ASSUME NEW x \in S PROVE {y \in S : <<y, x>> \in R} = {y \in S : Precedes(y, x)}
    BY DEF Place
  <2> QED BY DEF ByBytes
<1> DEFINE F(n) == CHOOSE x \in S : Place(S, R, x) = n - 1
           G(n) == CHOOSE x \in S : Cardinality({y \in S : Precedes(y, x)}) = n - 1
<1>3. \A n : F(n) = G(n)
  BY <1>2, Zenon
<1>4. Listed(S, Precedes) = [n \in 1..Cardinality(S) |-> G(n)]
  BY Zenon DEF Listed
<1>5. [n \in 1..Cardinality(S) |-> F(n)] = [n \in 1..Cardinality(S) |-> G(n)]
  <2> HIDE DEF F, G
  <2> QED BY <1>3
<1> QED BY <1>1, <1>4, <1>5

-----------------------------------------------------------------------------
(* LogCodec: labels in order.                                              *)

Labels == [name : Seq(Nat), value : Seq(Nat)]

LEMMA LabelOrder ==
    ASSUME NEW a \in Labels, NEW b \in Labels, NEW c \in Labels
    PROVE  /\ ~LabelBefore(a, a)
           /\ LabelBefore(a, b) /\ LabelBefore(b, c) => LabelBefore(a, c)
           /\ a = b \/ LabelBefore(a, b) \/ LabelBefore(b, a)
<1>1. /\ a.name \in Seq(Nat) /\ b.name \in Seq(Nat) /\ c.name \in Seq(Nat)
      /\ a.value \in Seq(Nat) /\ b.value \in Seq(Nat) /\ c.value \in Seq(Nat)
  BY DEF Labels
<1>2. ~LabelBefore(a, a)
  BY <1>1, PrecedesNone DEF LabelBefore
<1>3. ASSUME LabelBefore(a, b), LabelBefore(b, c) PROVE LabelBefore(a, c)
  <2>1. Precedes(a.name, b.name) /\ Precedes(b.name, c.name) => Precedes(a.name, c.name)
    BY <1>1, PrecedesFollows
  <2>2. Precedes(a.value, b.value) /\ Precedes(b.value, c.value) => Precedes(a.value, c.value)
    BY <1>1, PrecedesFollows
  <2> QED BY <1>3, <2>1, <2>2 DEF LabelBefore
<1>4. a = b \/ LabelBefore(a, b) \/ LabelBefore(b, a)
  <2>1. a.name = b.name \/ Precedes(a.name, b.name) \/ Precedes(b.name, a.name)
    BY <1>1, PrecedesEither
  <2>2. a.value = b.value \/ Precedes(a.value, b.value) \/ Precedes(b.value, a.value)
    BY <1>1, PrecedesEither
  <2>3. a.name = b.name /\ a.value = b.value => a = b
    BY DEF Labels
  <2> QED BY <2>1, <2>2, <2>3 DEF LabelBefore
<1> QED BY <1>2, <1>3, <1>4

LEMMA LabelsSorted ==
    ASSUME NEW labels \in Seq(Labels)
    PROVE  /\ NormalizeLabels(labels) \in Seq(Labels)
           /\ Len(NormalizeLabels(labels)) = Len(labels)
           /\ \A n \in 1 .. Len(labels) : \E i \in 1 .. Len(labels) : NormalizeLabels(labels)[n] = labels[i]
<1> DEFINE S == DOMAIN labels
           Before(i, j) == \/ LabelBefore(labels[i], labels[j])
                           \/ labels[i] = labels[j] /\ i < j
           R == {p \in S \X S : Before(p[1], p[2])}
           F(n) == CHOOSE x \in S : Place(S, R, x) = n - 1
           G(n) == CHOOSE x \in S : Cardinality({y \in S : Before(y, x)}) = n - 1
           order == [n \in 1 .. Cardinality(S) |-> G(n)]
<1>1. Len(labels) \in Nat /\ S = 1 .. Len(labels) /\ \A i \in S : labels[i] \in Labels
  OBVIOUS
<1>2. IsFiniteSet(S) /\ Cardinality(S) = Len(labels)
  BY <1>1, FS_Interval
<1>3. \A i, j \in S : <<i, j>> \in R <=> Before(i, j)
  OBVIOUS
<1>4. TotalOn(S, R)
  <2>1. \A i \in S : ~Before(i, i)
    BY <1>1, LabelOrder
  <2>2. ASSUME NEW i \in S, NEW j \in S, NEW k \in S, Before(i, j), Before(j, k) PROVE Before(i, k)
    <3>1. LabelBefore(labels[i], labels[j]) /\ LabelBefore(labels[j], labels[k])
             => LabelBefore(labels[i], labels[k])
      BY <1>1, LabelOrder
    <3>2. i \in Nat /\ j \in Nat /\ k \in Nat
      BY <1>1
    <3>3. i < j /\ j < k => i < k
      BY <3>2
    <3> QED BY <2>2, <3>1, <3>3
  <2>3. ASSUME NEW i \in S, NEW j \in S PROVE i = j \/ Before(i, j) \/ Before(j, i)
    <3>1. \/ labels[i] = labels[j]
          \/ LabelBefore(labels[i], labels[j]) \/ LabelBefore(labels[j], labels[i])
      BY <1>1, LabelOrder
    <3>2. i = j \/ i < j \/ j < i
      BY <1>1
    <3> QED BY <3>1, <3>2
  <2> HIDE DEF Before, R
  <2> QED BY <1>3, <2>1, <2>2, <2>3 DEF TotalOn
<1>5. \A x \in S : Place(S, R, x) = Cardinality({y \in S : Before(y, x)})
  <2> SUFFICES ASSUME NEW x \in S PROVE {y \in S : <<y, x>> \in R} = {y \in S : Before(y, x)}
    BY DEF Place
  <2> HIDE DEF Before, R
  <2> QED BY <1>3
<1>6. \A n : F(n) = G(n)
  <2> HIDE DEF R, Before
  <2> QED BY <1>5, Zenon
<1>7. NormalizeLabels(labels) = [n \in S |-> labels[order[n]]]
  BY Zenon DEF NormalizeLabels, Listed
<1>8. ListOf(S, R, [n \in 1..Cardinality(S) |-> F(n)])
  <2> HIDE DEF R, S
  <2> QED BY <1>2, <1>4, ListedIs
<1>9. [n \in 1..Cardinality(S) |-> F(n)] = order
  <2> HIDE DEF F, G
  <2> QED BY <1>6
<1> HIDE DEF order, R, F, G
<1>10. order \in [1 .. Len(labels) -> S]
  BY <1>2, <1>8, <1>9 DEF ListOf
<1>11. \A n \in 1 .. Len(labels) : order[n] \in 1 .. Len(labels) /\ NormalizeLabels(labels)[n] = labels[order[n]]
  BY <1>1, <1>7, <1>10
<1>12. NormalizeLabels(labels) \in [1 .. Len(labels) -> Labels]
  BY <1>1, <1>7, <1>10
<1>13. NormalizeLabels(labels) \in Seq(Labels) /\ Len(NormalizeLabels(labels)) = Len(labels)
  <2> HIDE DEF S
  <2>1. \A s : s \in [1 .. Len(labels) -> Labels] => s \in Seq(Labels) /\ Len(s) = Len(labels)
    BY <1>1
  <2> QED BY <1>12, <2>1
<1> QED BY <1>11, <1>13

-----------------------------------------------------------------------------
(* Sequences put one behind the other.                                     *)

(* A function counted up from a first value, each step one of its own.     *)
StepsIn(step, n, S) == \A i \in 1..n, x \in S : step[i][x] \in S

StepsTo(f, n, first, step) ==
    /\ f[0] = first
    /\ \A i \in 1..n : f[i] = step[i][f[i - 1]]

LEMMA CountRecursion ==
    ASSUME NEW n \in Nat, NEW S, NEW first \in S, NEW step, StepsIn(step, n, S)
    PROVE  \E f \in [0..n -> S] : StepsTo(f, n, first, step)
<1> DEFINE m    == n + 1
           stop == {m}
           base == [i \in 1..m |-> first]
           jump == [i \in 1..m |-> i + 1]
           go   == [i \in 1..m |-> step[m - i]]
<1>1. m \in Nat
  OBVIOUS
<1>2. Jumps(m, S, stop, base, jump, go)
  <2>1. \A i \in 1..m, x \in S : i \notin stop => go[i][x] \in S
    <3> SUFFICES ASSUME NEW i \in 1..m, NEW x \in S, i \notin stop PROVE go[i][x] \in S
      OBVIOUS
    <3>1. m - i \in 1..n
      OBVIOUS
    <3> QED BY <3>1 DEF StepsIn
  <2>2. \A i \in 1..m : i \in stop => base[i] \in S
    OBVIOUS
  <2>3. \A i \in 1..m : i \notin stop => jump[i] \in (i + 1)..m
    OBVIOUS
  <2> QED BY <2>1, <2>2, <2>3, Zenon DEF Jumps
<1>3. PICK g \in [1..m -> S] : Follows(g, m, stop, base, jump, go)
  <2> HIDE DEF m, stop, base, jump, go
  <2> QED BY <1>1, <1>2, JumpRecursion
<1>4. g[m] = first /\ \A j \in 1..n : g[j] = step[m - j][g[j + 1]]
  BY <1>3 DEF Follows
<1> DEFINE f == [i \in 0..n |-> g[m - i]]
<1>5. f \in [0..n -> S]
  BY <1>3
<1>6. f[0] = first
  BY <1>4
<1>7. ASSUME NEW i \in 1..n PROVE f[i] = step[i][f[i - 1]]
  <2>1. f[i] = g[m - i] /\ f[i - 1] = g[(m - i) + 1] /\ m - i \in 1..n /\ m - (m - i) = i
    OBVIOUS
  <2>2. g[m - i] = step[m - (m - i)][g[(m - i) + 1]]
    BY <1>4, <2>1
  <2> QED BY <2>1, <2>2
<1> HIDE DEF f
<1> QED BY <1>5, <1>6, <1>7 DEF StepsTo

(* p[k] is what the first k of the sequences make together.                *)
Joins(T, ss, p) ==
    /\ p \in [0 .. Len(ss) -> Seq(T)]
    /\ p[0] = <<>>
    /\ \A k \in 1 .. Len(ss) : p[k] = p[k - 1] \o ss[k]

LEMMA JoinsExist ==
    ASSUME NEW T, NEW ss \in Seq(Seq(T))
    PROVE  \E p : Joins(T, ss, p)
<1> DEFINE n == Len(ss)
           S == Seq(T)
           first == <<>>
           step == [i \in 1..n |-> [s \in S |-> s \o ss[i]]]
<1>1. n \in Nat /\ first \in S
  OBVIOUS
<1>2. \A i \in 1..n, s \in S : step[i][s] \in S /\ step[i][s] = s \o ss[i]
  OBVIOUS
<1>3. PICK p \in [0..n -> S] : StepsTo(p, n, first, step)
  <2>1. StepsIn(step, n, S)
    BY <1>2, Zenon DEF StepsIn
  <2> HIDE DEF n, S, step, first
  <2> QED BY <1>1, <2>1, CountRecursion
<1>4. \A k \in 1..n : p[k] = p[k - 1] \o ss[k]
  <2> SUFFICES ASSUME NEW k \in 1..n PROVE p[k] = p[k - 1] \o ss[k]
    OBVIOUS
  <2>1. k - 1 \in 0..n
    BY <1>1
  <2>2. p[k - 1] \in S
    BY <1>3, <2>1
  <2> HIDE DEF step, S, n
  <2> QED BY <1>2, <1>3, <2>2 DEF StepsTo
<1>5. Joins(T, ss, p)
  BY <1>3, <1>4 DEF Joins, StepsTo
<1> QED BY <1>5

(* FlattenSeq does that.                                                   *)
LEMMA FlattenIs ==
    ASSUME NEW T, NEW ss \in Seq(Seq(T)), NEW p, Joins(T, ss, p)
    PROVE  FlattenSeq(ss) = p[Len(ss)]
<1> DEFINE n == Len(ss)
           Of(g) == [i \in 1..n |-> IF i = 1 THEN ss[i] ELSE g[i - 1] \o ss[i]]
           h == CHOOSE g : g = Of(g)
           q == [i \in 1..n |-> p[i]]
<1>1. n \in Nat /\ \A i \in 1..n : ss[i] \in Seq(T)
  OBVIOUS
<1>2. p \in [0..n -> Seq(T)] /\ p[0] = <<>> /\ \A k \in 1..n : p[k] = p[k - 1] \o ss[k]
  BY DEF Joins
<1>3. CASE n = 0
  <2>1. ss = <<>>
    BY <1>3
  <2> QED BY <1>2, <1>3, <2>1, Zenon DEF FlattenSeq
<1>4. CASE n # 0
  <2>1. FlattenSeq(ss) = h[n]
    BY <1>4, Zenon DEF FlattenSeq
  <2>2. p[1] = ss[1]
    <3>1. 1 \in 1..n /\ 1 - 1 = 0
      BY <1>1, <1>4
    <3>2. ss[1] \in Seq(T)
      BY <1>1, <3>1
    <3>3. <<>> \o ss[1] = ss[1]
      BY <3>2
    <3> QED BY <1>2, <3>1, <3>3
  <2>3. q = Of(q)
    <3> SUFFICES ASSUME NEW i \in 1..n
                 PROVE  p[i] = IF i = 1 THEN ss[i] ELSE q[i - 1] \o ss[i]
      BY Zenon
    <3>1. CASE i = 1
      BY <2>2, <3>1
    <3>2. CASE i # 1
      <4>1. i - 1 \in 1..n
        BY <1>1, <3>2
      <4> QED BY <1>2, <3>2, <4>1
    <3> QED BY <3>1, <3>2
  <2>4. h = Of(h)
    <3> HIDE DEF Of, q
    <3> QED BY <2>3, Zenon
  <2>5. \A i \in 1..n : h[i] = IF i = 1 THEN ss[i] ELSE h[i - 1] \o ss[i]
    <3>1. \A i \in 1..n : Of(h)[i] = IF i = 1 THEN ss[i] ELSE h[i - 1] \o ss[i]
      BY Zenon
    <3> HIDE DEF h, Of
    <3> QED BY <2>4, <3>1, Zenon
  <2> DEFINE Bad == {i \in 1..n : h[i] # p[i]}
  <2>6. Bad = {}
    <3> SUFFICES ASSUME Bad # {} PROVE FALSE
      OBVIOUS
    <3> DEFINE m == Min(Bad)
    <3> HIDE DEF h, n
    <3>1. m \in Bad /\ \A y \in Bad : m <= y
      <4>1. Bad \in SUBSET Nat
        BY <1>1
      <4> HIDE DEF Bad
      <4> QED BY <4>1, LeastOfNaturals
    <3>2. m \in 1..n /\ h[m] # p[m]
      BY <3>1
    <3> HIDE DEF m
    <3>3. m # 1
      BY <2>2, <2>5, <3>2
    <3>4. m - 1 \in 1..n /\ ~(m <= m - 1)
      BY <1>1, <3>2, <3>3
    <3>5. h[m - 1] = p[m - 1]
      BY <3>1, <3>4
    <3>6. h[m] = h[m - 1] \o ss[m] /\ p[m] = p[m - 1] \o ss[m]
      BY <1>2, <2>5, <3>2, <3>3
    <3> QED BY <3>2, <3>5, <3>6
  <2>7. n \in 1..n
    BY <1>1, <1>4
  <2>8. h[n] = p[n]
    <3> HIDE DEF h, n
    <3> QED BY <2>6, <2>7
  <2> QED BY <2>1, <2>8
<1> QED BY <1>3, <1>4

(* Where a piece is in the whole.                                          *)
Pieced(ss, p, m) ==
    \A k \in 1 .. m :
       /\ Len(p[k]) = Len(p[k - 1]) + Len(ss[k])
       /\ Len(p[k]) <= Len(p[m])
       /\ \A i \in 1 .. Len(ss[k]) : p[m][Len(p[k - 1]) + i] = ss[k][i]

LEMMA PieceIs ==
    ASSUME NEW T, NEW ss \in Seq(Seq(T)), NEW p, Joins(T, ss, p), NEW m \in 0 .. Len(ss)
    PROVE  Pieced(ss, p, m)
<1> DEFINE n == Len(ss)
           Good(l, k) == /\ Len(p[k]) <= Len(p[l])
                         /\ \A i \in 1 .. Len(ss[k]) : p[l][Len(p[k - 1]) + i] = ss[k][i]
           Bad == {l \in 0..n : \E k \in 1 .. l : ~Good(l, k)}
<1>1. n \in Nat /\ \A i \in 1..n : ss[i] \in Seq(T)
  OBVIOUS
<1>2. p \in [0..n -> Seq(T)] /\ p[0] = <<>> /\ \A k \in 1..n : p[k] = p[k - 1] \o ss[k]
  BY DEF Joins
<1> HIDE DEF n
<1>3. \A k \in 1..n : /\ k - 1 \in 0..n /\ p[k - 1] \in Seq(T) /\ p[k] \in Seq(T) /\ ss[k] \in Seq(T)
                      /\ Len(p[k - 1]) \in Nat /\ Len(p[k]) \in Nat /\ Len(ss[k]) \in Nat
  <2> SUFFICES ASSUME NEW k \in 1..n
               PROVE  /\ k - 1 \in 0..n /\ p[k - 1] \in Seq(T) /\ p[k] \in Seq(T) /\ ss[k] \in Seq(T)
                      /\ Len(p[k - 1]) \in Nat /\ Len(p[k]) \in Nat /\ Len(ss[k]) \in Nat
    OBVIOUS
  <2>1. k - 1 \in 0..n /\ k \in 0..n
    BY <1>1
  <2>2. p[k - 1] \in Seq(T) /\ p[k] \in Seq(T) /\ ss[k] \in Seq(T)
    BY <1>1, <1>2, <2>1
  <2> QED BY <2>1, <2>2, LenProperties
<1>4. \A k \in 1..n : Len(p[k]) = Len(p[k - 1]) + Len(ss[k])
  <2> SUFFICES ASSUME NEW k \in 1..n PROVE Len(p[k]) = Len(p[k - 1]) + Len(ss[k])
    OBVIOUS
  <2>1. Len(p[k - 1] \o ss[k]) = Len(p[k - 1]) + Len(ss[k])
    BY <1>3, ConcatProperties
  <2> QED BY <1>2, <2>1
<1>5. Bad = {}
  <2> SUFFICES ASSUME Bad # {} PROVE FALSE
    OBVIOUS
  <2> DEFINE l == Min(Bad)
  <2>1. l \in Bad /\ \A y \in Bad : l <= y
    <3>1. Bad \in SUBSET Nat
      BY <1>1
    <3> HIDE DEF Bad
    <3> QED BY <3>1, LeastOfNaturals
  <2>2. l \in 0..n /\ \E k \in 1 .. l : ~Good(l, k)
    BY <2>1
  <2> HIDE DEF l
  <2>3. l \in 1..n /\ l - 1 \in 0..n /\ ~(l <= l - 1)
    BY <1>1, <2>2
  <2>4. \A k \in 1 .. l - 1 : Good(l - 1, k)
    BY <2>1, <2>3
  <2>5. p[l] = p[l - 1] \o ss[l] /\ Len(p[l]) = Len(p[l - 1]) + Len(ss[l])
    BY <1>2, <1>4, <2>3
  <2>6. /\ \A i \in 1 .. Len(p[l - 1]) : p[l][i] = p[l - 1][i]
        /\ \A i \in 1 .. Len(ss[l]) : p[l][Len(p[l - 1]) + i] = ss[l][i]
    <3>1. p[l - 1] \in Seq(T) /\ ss[l] \in Seq(T) /\ Len(p[l - 1]) \in Nat /\ Len(ss[l]) \in Nat
      BY <1>3, <2>3
    <3> DEFINE a == p[l - 1]
               b == ss[l]
    <3>2. a \in Seq(T) /\ b \in Seq(T)
      BY <3>1
    <3>3. \A i \in 1 .. Len(a) : (a \o b)[i] = a[i]
      <4> HIDE DEF a, b
      <4> QED BY <3>2
    <3>4. \A i \in 1 .. Len(b) : (a \o b)[Len(a) + i] = b[i]
      <4> HIDE DEF a, b
      <4> QED BY <3>2
    <3> QED BY <2>5, <3>3, <3>4
  <2>7. Good(l, l)
    <3>1. Len(p[l]) <= Len(p[l])
      BY <1>3, <2>3
    <3> QED BY <2>6, <3>1
  <2>8. ASSUME NEW k \in 1 .. l - 1 PROVE Good(l, k)
    <3>1. /\ k \in 1..n /\ l - 1 \in 1..n
      BY <1>1, <2>3
    <3>2. Len(p[k]) = Len(p[k - 1]) + Len(ss[k]) /\ Len(p[k - 1]) \in Nat /\ Len(ss[k]) \in Nat
      BY <1>3, <1>4, <3>1
    <3>3. Len(p[l - 1]) \in Nat /\ Len(ss[l]) \in Nat
      BY <1>3, <2>3
    <3>4. Len(p[k]) <= Len(p[l - 1]) /\ \A i \in 1 .. Len(ss[k]) : p[l - 1][Len(p[k - 1]) + i] = ss[k][i]
      BY <2>4
    <3>5. \A i \in 1 .. Len(ss[k]) : Len(p[k - 1]) + i \in 1 .. Len(p[l - 1])
      <4> DEFINE a == Len(p[k - 1])
                 b == Len(ss[k])
                 c == Len(p[l - 1])
      <4>1. a \in Nat /\ b \in Nat /\ c \in Nat /\ a + b <= c
        BY <3>2, <3>3, <3>4
      <4> HIDE DEF a, b, c
      <4>2. \A i \in 1 .. b : a + i \in 1 .. c
        BY <4>1
      <4> QED BY <4>2 DEF a, b, c
    <3>6. \A i \in 1 .. Len(ss[k]) : p[l][Len(p[k - 1]) + i] = ss[k][i]
      BY <2>6, <3>4, <3>5
    <3>7. Len(p[k]) <= Len(p[l])
      <4>1. Len(p[k]) \in Nat /\ Len(p[l]) \in Nat
        BY <1>3, <2>3, <3>1
      <4>2. Len(p[l]) = Len(p[l - 1]) + Len(ss[l])
        BY <2>5
      <4>3. Len(p[k]) <= Len(p[l - 1])
        BY <3>4
      <4>4. \A a, b, c, d \in Nat : a <= b /\ c = b + d => a <= c
        OBVIOUS
      <4> QED BY <3>3, <4>1, <4>2, <4>3, <4>4
    <3> QED BY <3>6, <3>7
  <2>9. \A k \in 1 .. l : k = l \/ k \in 1 .. l - 1
    BY <2>3
  <2> HIDE DEF Good
  <2> QED BY <2>2, <2>7, <2>8, <2>9
<1>6. m \in 0..n /\ \A k \in 1 .. m : k \in 1..n
  BY <1>1 DEF n
<1>7. \A k \in 1 .. m : Good(m, k)
  <2> HIDE DEF Good
  <2> QED BY <1>5, <1>6
<1> QED BY <1>4, <1>6, <1>7 DEF Pieced

LEMMA FlattenGrows ==
    ASSUME NEW T, NEW ss \in Seq(Seq(T)), NEW s \in Seq(T)
    PROVE  /\ FlattenSeq(ss) \in Seq(T)
           /\ FlattenSeq(Append(ss, s)) = FlattenSeq(ss) \o s
<1> DEFINE n  == Len(ss)
           tt == Append(ss, s)
<1>1. PICK p : Joins(T, ss, p)
  BY JoinsExist
<1>2. /\ n \in Nat /\ p \in [0..n -> Seq(T)] /\ p[0] = <<>>
      /\ \A k \in 1..n : p[k] = p[k - 1] \o ss[k]
  BY <1>1 DEF Joins
<1>3. FlattenSeq(ss) = p[n] /\ p[n] \in Seq(T)
  <2>1. n \in 0..n
    BY <1>2
  <2> QED BY <1>1, <1>2, <2>1, FlattenIs
<1> DEFINE q == [k \in 0 .. n + 1 |-> IF k = n + 1 THEN p[n] \o s ELSE p[k]]
<1>4. /\ tt \in Seq(Seq(T)) /\ Len(tt) = n + 1 /\ tt[n + 1] = s
      /\ \A k \in 1..n : tt[k] = ss[k]
  OBVIOUS
<1> HIDE DEF n, tt
<1>5. /\ q[n + 1] = p[n] \o s
      /\ \A k \in 0..n : q[k] = p[k]
  <2>1. n + 1 \in 0 .. n + 1 /\ \A k \in 0..n : k \in 0 .. n + 1 /\ k # n + 1
    BY <1>2
  <2> QED BY <2>1
<1>6. q \in [0 .. n + 1 -> Seq(T)]
  <2>1. p[n] \o s \in Seq(T)
    BY <1>3
  <2>2. \A k \in 0 .. n + 1 : k = n + 1 \/ k \in 0..n
    BY <1>2
  <2> QED BY <1>2, <2>1, <2>2
<1> HIDE DEF q
<1>7. \A k \in 1 .. n + 1 : q[k] = q[k - 1] \o tt[k]
  <2> SUFFICES ASSUME NEW k \in 1 .. n + 1 PROVE q[k] = q[k - 1] \o tt[k]
    OBVIOUS
  <2>1. CASE k = n + 1
    <3>1. k - 1 = n /\ n \in 0..n
      BY <1>2, <2>1
    <3> QED BY <1>4, <1>5, <2>1, <3>1
  <2>2. CASE k # n + 1
    <3>1. k \in 1..n /\ k - 1 \in 0..n /\ k \in 0..n
      BY <1>2, <2>2
    <3> QED BY <1>2, <1>4, <1>5, <3>1
  <2> QED BY <2>1, <2>2
<1>8. q[0] = <<>>
  BY <1>2, <1>5
<1>9. Joins(T, tt, q)
  BY <1>4, <1>6, <1>7, <1>8 DEF Joins
<1>10. FlattenSeq(tt) = q[n + 1]
  BY <1>4, <1>9, FlattenIs
<1> QED BY <1>3, <1>5, <1>10 DEF tt

-----------------------------------------------------------------------------
(* LogCodec: the bytes that separate labels are escaped.                   *)

LEMMA FunctionIsSequence ==
    ASSUME NEW T, NEW n \in Nat, NEW f \in [1..n -> T]
    PROVE  f \in Seq(T) /\ Len(f) = n
<1>1. f \in Seq(T)
  BY SeqDef, Zenon
<1> QED BY <1>1, LenProperties

LEMMA OneByte ==
    ASSUME NEW x \in Nat
    PROVE  <<x>> \in Seq(Nat) /\ Len(<<x>>) = 1 /\ <<x>>[1] = x
OBVIOUS

LEMMA TwoBytes ==
    ASSUME NEW x \in Nat, NEW y \in Nat
    PROVE  <<x, y>> \in Seq(Nat)
OBVIOUS

SubstituteFor(c, byte, by) == IF c = byte THEN by ELSE <<c>>

Substitutes(s, c, byte, by) ==
    /\ Substituted(s, byte, by) \in Seq(Nat)
    /\ Substituted(s \o <<c>>, byte, by) = Substituted(s, byte, by) \o SubstituteFor(c, byte, by)

LEMMA SubstitutedIs ==
    ASSUME NEW s \in Seq(Nat), NEW c \in Nat, NEW byte, NEW by \in Seq(Nat)
    PROVE  Substitutes(s, c, byte, by)
<1> DEFINE Pieces(t) == [i \in DOMAIN t |-> IF t[i] = byte THEN by ELSE <<t[i]>>]
           t == s \o <<c>>
<1>1. Len(s) \in Nat /\ DOMAIN s = 1 .. Len(s) /\ \A i \in DOMAIN s : s[i] \in Nat
  OBVIOUS
<1>2. Pieces(s) \in Seq(Seq(Nat)) /\ Len(Pieces(s)) = Len(s)
  <2>1. Pieces(s) \in [1 .. Len(s) -> Seq(Nat)]
    <3>1. \A i \in 1 .. Len(s) : <<s[i]>> \in Seq(Nat)
      BY <1>1, OneByte
    <3>2. \A i \in 1 .. Len(s) : (IF s[i] = byte THEN by ELSE <<s[i]>>) \in Seq(Nat)
      BY <3>1
    <3>3. Pieces(s) = [i \in 1 .. Len(s) |-> IF s[i] = byte THEN by ELSE <<s[i]>>]
      BY <1>1, Zenon
    <3> QED BY <3>2, <3>3, Zenon
  <2> HIDE DEF Pieces
  <2>2. \A x : x \in [1 .. Len(s) -> Seq(Nat)] => x \in Seq(Seq(Nat)) /\ Len(x) = Len(s)
    BY <1>1, FunctionIsSequence, Zenon
  <2> QED BY <2>1, <2>2
<1>3. /\ t \in Seq(Nat) /\ Len(t) = Len(s) + 1 /\ t[Len(s) + 1] = c
      /\ \A i \in 1 .. Len(s) : t[i] = s[i]
  OBVIOUS
<1>4. SubstituteFor(c, byte, by) \in Seq(Nat)
  BY DEF SubstituteFor
<1> DEFINE u == Append(Pieces(s), SubstituteFor(c, byte, by))
<1> HIDE DEF t
<1>5. DOMAIN t = 1 .. Len(s) + 1
  BY <1>3
<1>6. /\ Len(u) = Len(s) + 1 /\ u[Len(s) + 1] = SubstituteFor(c, byte, by)
      /\ \A i \in 1 .. Len(s) : u[i] = Pieces(s)[i]
      /\ DOMAIN u = 1 .. Len(s) + 1
      /\ u \in Seq(Seq(Nat))
  <2> HIDE DEF Pieces
  <2>1. DOMAIN u = 1 .. Len(u)
    BY <1>2, <1>4
  <2>2. u \in Seq(Seq(Nat)) /\ Len(u) = Len(s) + 1 /\ u[Len(s) + 1] = SubstituteFor(c, byte, by)
    BY <1>2, <1>4
  <2>3. \A i \in 1 .. Len(s) : u[i] = Pieces(s)[i]
    BY <1>2, <1>4
  <2> QED BY <2>1, <2>2, <2>3
<1>7. Pieces(t) = u
  <2>1. \A i \in 1 .. Len(s) + 1 : Pieces(t)[i] = u[i]
    <3> SUFFICES ASSUME NEW i \in 1 .. Len(s) + 1 PROVE Pieces(t)[i] = u[i]
      OBVIOUS
    <3>1. Pieces(t)[i] = SubstituteFor(t[i], byte, by)
      BY <1>5, Zenon DEF SubstituteFor
    <3>2. CASE i \in 1 .. Len(s)
      <4>1. Pieces(s)[i] = SubstituteFor(s[i], byte, by)
        BY <1>1, <3>2, Zenon DEF SubstituteFor
      <4> HIDE DEF Pieces, u
      <4> QED BY <1>3, <1>6, <3>1, <3>2, <4>1
    <3>3. CASE i = Len(s) + 1
      <4> HIDE DEF Pieces, u
      <4> QED BY <1>3, <1>6, <3>1, <3>3
    <3> QED BY <1>1, <3>2, <3>3
  <2>2. DOMAIN Pieces(t) = 1 .. Len(s) + 1
    BY <1>5
  <2>3. Pieces(t) \in [1 .. Len(s) + 1 -> Seq(Nat)]
    <3>1. \A i \in 1 .. Len(s) + 1 : t[i] \in Nat
      BY <1>3, <1>5
    <3> QED BY <1>5, <3>1
  <2>4. u \in [1 .. Len(s) + 1 -> Seq(Nat)]
    <3> HIDE DEF u
    <3> QED BY <1>6
  <2> HIDE DEF Pieces, u
  <2> QED BY <2>1, <2>3, <2>4
<1>8. Substituted(s, byte, by) = FlattenSeq(Pieces(s)) /\ Substituted(t, byte, by) = FlattenSeq(Pieces(t))
  BY Zenon DEF Substituted
<1>9. /\ FlattenSeq(Pieces(s)) \in Seq(Nat)
      /\ FlattenSeq(u) = FlattenSeq(Pieces(s)) \o SubstituteFor(c, byte, by)
  <2> HIDE DEF Pieces
  <2> QED BY <1>2, <1>4, FlattenGrows
<1> HIDE DEF Pieces, u
<1> QED BY <1>7, <1>8, <1>9 DEF t, Substitutes

LEMMA ThreeBytes ==
    ASSUME NEW x \in Nat, NEW y \in Nat, NEW z \in Nat
    PROVE  <<x>> \o <<y>> = <<x, y>> /\ <<x, y>> \o <<z>> = <<x, y, z>>
<1> DEFINE s == <<x, y>> \o <<z>>
           t == <<x, y, z>>
<1>1. <<x, y>> \in Seq(Nat) /\ <<z>> \in Seq(Nat) /\ t \in Seq(Nat)
  OBVIOUS
<1>2. Len(<<x, y>>) = 2 /\ Len(<<z>>) = 1 /\ Len(t) = 3
  OBVIOUS
<1>3. s \in Seq(Nat) /\ Len(s) = 3
  BY <1>1, <1>2, ConcatProperties
<1>4. s[1] = x /\ s[2] = y /\ s[3] = z
  OBVIOUS
<1>5. t[1] = x /\ t[2] = y /\ t[3] = z
  OBVIOUS
<1> HIDE DEF s, t
<1>6. \A i \in 1..Len(s) : i = 1 \/ i = 2 \/ i = 3
  BY <1>3
<1>7. \A i \in 1..Len(s) : s[i] = t[i]
  BY <1>4, <1>5, <1>6
<1>8. s = t
  BY <1>1, <1>2, <1>3, <1>7, SeqEqual
<1>9. <<x>> \o <<y>> = <<x, y>>
  <2> DEFINE u == <<x>> \o <<y>>
             v == <<x, y>>
  <2>1. u \in Seq(Nat) /\ v \in Seq(Nat) /\ Len(u) = 2 /\ Len(v) = 2
    OBVIOUS
  <2>2. u[1] = v[1] /\ u[2] = v[2]
    OBVIOUS
  <2> HIDE DEF u, v
  <2>3. \A i \in 1..Len(u) : i = 1 \/ i = 2
    BY <2>1
  <2>4. \A i \in 1..Len(u) : u[i] = v[i]
    BY <2>2, <2>3
  <2>5. u = v
    BY <2>1, <2>4, SeqEqual
  <2> QED BY <2>5 DEF u, v
<1> QED BY <1>8, <1>9 DEF s, t

LEMMA ThreeMore ==
    ASSUME NEW r \in Seq(Nat), NEW x \in Nat, NEW y \in Nat, NEW z \in Nat
    PROVE  ((r \o <<x>>) \o <<y>>) \o <<z>> = r \o <<x, y, z>>
<1>1. <<x>> \in Seq(Nat) /\ <<y>> \in Seq(Nat) /\ <<z>> \in Seq(Nat) /\ <<x, y>> \in Seq(Nat)
  BY OneByte, TwoBytes, Zenon
<1>2. <<x>> \o <<y>> = <<x, y>> /\ <<x, y>> \o <<z>> = <<x, y, z>>
  BY ThreeBytes
<1>3. \A a, b, c \in Seq(Nat) : (a \o b) \o c = a \o (b \o c)
  BY ConcatAssociative
<1>4. (r \o <<x>>) \o <<y>> = r \o (<<x>> \o <<y>>)
  BY <1>1, <1>3, Zenon
<1>5. (r \o <<x, y>>) \o <<z>> = r \o (<<x, y>> \o <<z>>)
  BY <1>1, <1>3, Zenon
<1> QED BY <1>2, <1>4, <1>5, Zenon

Untouched(s, x, y, z, byte, by) ==
    Substituted(s \o <<x, y, z>>, byte, by) = Substituted(s, byte, by) \o <<x, y, z>>

LEMMA SubstitutedThree ==
    ASSUME NEW s \in Seq(Nat), NEW x \in Nat, NEW y \in Nat, NEW z \in Nat,
           NEW byte, NEW by \in Seq(Nat), byte # x, byte # y, byte # z
    PROVE  Untouched(s, x, y, z, byte, by)
<1> DEFINE a == s \o <<x>>
           b == a \o <<y>>
           r == Substituted(s, byte, by)
<1>0. /\ SubstituteFor(x, byte, by) = <<x>>
      /\ SubstituteFor(y, byte, by) = <<y>>
      /\ SubstituteFor(z, byte, by) = <<z>>
  BY DEF SubstituteFor
<1>1. a \in Seq(Nat) /\ b \in Seq(Nat)
  BY OneByte
<1>2. s \o <<x, y, z>> = b \o <<z>>
  BY ThreeMore, Zenon
<1>3. r \in Seq(Nat) /\ Substituted(a, byte, by) = r \o <<x>>
  <2>1. Substitutes(s, x, byte, by)
    BY SubstitutedIs, Zenon
  <2> QED BY <1>0, <2>1, Zenon DEF Substitutes
<1> HIDE DEF a, r
<1>4. Substituted(b, byte, by) = (r \o <<x>>) \o <<y>>
  <2>1. Substituted(a \o <<y>>, byte, by) = Substituted(a, byte, by) \o SubstituteFor(y, byte, by)
    <3>1. Substitutes(a, y, byte, by)
      BY <1>1, SubstitutedIs, Zenon
    <3> QED BY <3>1, Zenon DEF Substitutes
  <2> QED BY <1>0, <1>3, <2>1
<1> HIDE DEF b
<1>5. Substituted(b \o <<z>>, byte, by) = ((r \o <<x>>) \o <<y>>) \o <<z>>
  <2>1. Substituted(b \o <<z>>, byte, by) = Substituted(b, byte, by) \o SubstituteFor(z, byte, by)
    <3>1. Substitutes(b, z, byte, by)
      BY <1>1, SubstitutedIs, Zenon
    <3> QED BY <3>1, Zenon DEF Substitutes
  <2> QED BY <1>0, <1>4, <2>1
<1>6. ((r \o <<x>>) \o <<y>>) \o <<z>> = r \o <<x, y, z>>
  BY <1>3, ThreeMore, Zenon
<1> QED BY <1>2, <1>5, <1>6 DEF r, Untouched

(* What Escape makes of one byte.                                          *)
CodeOf(c) ==
    IF c = Percent THEN <<Percent, 50, 53>>
    ELSE IF c = Bar THEN <<Percent, 55, 67>>
    ELSE IF c = Equals THEN <<Percent, 51, 68>>
    ELSE <<c>>

LEMMA NothingToSubstitute ==
    ASSUME NEW byte, NEW by
    PROVE  Substituted(<<>>, byte, by) = <<>>
<1> DEFINE p == [i \in DOMAIN <<>> |-> IF <<>>[i] = byte THEN by ELSE << <<>>[i] >>]
<1>1. p = <<>>
  OBVIOUS
<1>2. Substituted(<<>>, byte, by) = FlattenSeq(p)
  BY Zenon DEF Substituted
<1>3. FlattenSeq(<<>>) = <<>>
  BY DEF FlattenSeq
<1> QED BY <1>1, <1>2, <1>3

Escapes(s, c) ==
    /\ Escape(s) \in Seq(Nat)
    /\ Escape(<<>>) = <<>>
    /\ Escape(s \o <<c>>) = Escape(s) \o CodeOf(c)

LEMMA EscapeIs ==
    ASSUME NEW s \in Seq(Nat), NEW c \in Nat
    PROVE  Escapes(s, c)
<1> SUFFICES /\ Escape(s) \in Seq(Nat)
             /\ Escape(<<>>) = <<>>
             /\ Escape(s \o <<c>>) = Escape(s) \o CodeOf(c)
  BY Zenon DEF Escapes
<1> DEFINE P(t) == Substituted(t, Percent, <<Percent, 50, 53>>)
           B(t) == Substituted(t, Bar, <<Percent, 55, 67>>)
           E(t) == Substituted(t, Equals, <<Percent, 51, 68>>)
<1>1. \A t : Escape(t) = E(B(P(t)))
  BY Zenon DEF Escape
<1>2. <<Percent, 50, 53>> \in Seq(Nat) /\ <<Percent, 55, 67>> \in Seq(Nat) /\ <<Percent, 51, 68>> \in Seq(Nat)
  BY DEF Percent
<1>3. ASSUME NEW t \in Seq(Nat), NEW x \in Nat
      PROVE  /\ P(t) \in Seq(Nat) /\ B(t) \in Seq(Nat) /\ E(t) \in Seq(Nat)
             /\ P(t \o <<x>>) = P(t) \o SubstituteFor(x, Percent, <<Percent, 50, 53>>)
             /\ B(t \o <<x>>) = B(t) \o SubstituteFor(x, Bar, <<Percent, 55, 67>>)
             /\ E(t \o <<x>>) = E(t) \o SubstituteFor(x, Equals, <<Percent, 51, 68>>)
  <2>1. P(t) \in Seq(Nat) /\ P(t \o <<x>>) = P(t) \o SubstituteFor(x, Percent, <<Percent, 50, 53>>)
    <3>1. Substitutes(t, x, Percent, <<Percent, 50, 53>>)
      BY <1>2, SubstitutedIs, Zenon
    <3> QED BY <3>1, Zenon DEF Substitutes
  <2>2. B(t) \in Seq(Nat) /\ B(t \o <<x>>) = B(t) \o SubstituteFor(x, Bar, <<Percent, 55, 67>>)
    <3>1. Substitutes(t, x, Bar, <<Percent, 55, 67>>)
      BY <1>2, SubstitutedIs, Zenon
    <3> QED BY <3>1, Zenon DEF Substitutes
  <2>3. E(t) \in Seq(Nat) /\ E(t \o <<x>>) = E(t) \o SubstituteFor(x, Equals, <<Percent, 51, 68>>)
    <3>1. Substitutes(t, x, Equals, <<Percent, 51, 68>>)
      BY <1>2, SubstitutedIs, Zenon
    <3> QED BY <3>1, Zenon DEF Substitutes
  <2> HIDE DEF P, B, E
  <2> QED BY <2>1, <2>2, <2>3
<1>16. /\ Percent \in Nat /\ 50 \in Nat /\ 53 \in Nat /\ 55 \in Nat /\ 67 \in Nat
      /\ Bar # Percent /\ Bar # 50 /\ Bar # 53
      /\ Equals # Percent /\ Equals # 50 /\ Equals # 53 /\ Equals # 55 /\ Equals # 67
  BY DEF Percent, Bar, Equals
<1>4. \A t \in Seq(Nat) : B(t \o <<Percent, 50, 53>>) = B(t) \o <<Percent, 50, 53>>
  <2>1. \A t \in Seq(Nat) : Untouched(t, Percent, 50, 53, Bar, <<Percent, 55, 67>>)
    BY <1>2, <1>16, SubstitutedThree, Zenon
  <2> QED BY <2>1, Zenon DEF Untouched
<1>5. \A t \in Seq(Nat) : E(t \o <<Percent, 50, 53>>) = E(t) \o <<Percent, 50, 53>>
  <2>1. \A t \in Seq(Nat) : Untouched(t, Percent, 50, 53, Equals, <<Percent, 51, 68>>)
    BY <1>2, <1>16, SubstitutedThree, Zenon
  <2> QED BY <2>1, Zenon DEF Untouched
<1>6. \A t \in Seq(Nat) : E(t \o <<Percent, 55, 67>>) = E(t) \o <<Percent, 55, 67>>
  <2>1. \A t \in Seq(Nat) : Untouched(t, Percent, 55, 67, Equals, <<Percent, 51, 68>>)
    BY <1>2, <1>16, SubstitutedThree, Zenon
  <2> QED BY <2>1, Zenon DEF Untouched
<1>7. P(<<>>) = <<>> /\ B(<<>>) = <<>> /\ E(<<>>) = <<>>
  BY NothingToSubstitute
<1> HIDE DEF P, B, E
<1>8. P(s) \in Seq(Nat) /\ B(P(s)) \in Seq(Nat) /\ E(B(P(s))) \in Seq(Nat)
  BY <1>3
<1>9. CASE c = Percent
  <2>1. P(s \o <<c>>) = P(s) \o <<Percent, 50, 53>>
    BY <1>3, <1>9 DEF SubstituteFor
  <2> QED BY <1>1, <1>4, <1>5, <1>7, <1>8, <1>9, <2>1 DEF CodeOf
<1>10. CASE c = Bar
  <2>1. P(s \o <<c>>) = P(s) \o <<c>>
    BY <1>3, <1>16, <1>10 DEF SubstituteFor
  <2>2. B(P(s) \o <<c>>) = B(P(s)) \o <<Percent, 55, 67>>
    BY <1>3, <1>8, <1>10 DEF SubstituteFor
  <2>3. CodeOf(c) = <<Percent, 55, 67>>
    BY <1>10, <1>16 DEF CodeOf
  <2> QED BY <1>1, <1>6, <1>7, <1>8, <2>1, <2>2, <2>3
<1>11. CASE c # Percent /\ c # Bar
  <2>1. P(s \o <<c>>) = P(s) \o <<c>>
    BY <1>3, <1>11 DEF SubstituteFor
  <2>2. B(P(s) \o <<c>>) = B(P(s)) \o <<c>>
    BY <1>3, <1>8, <1>11 DEF SubstituteFor
  <2>3. E(B(P(s)) \o <<c>>) = E(B(P(s))) \o CodeOf(c)
    BY <1>3, <1>8, <1>11 DEF SubstituteFor, CodeOf
  <2> QED BY <1>1, <1>7, <1>8, <2>1, <2>2, <2>3
<1> QED BY <1>9, <1>10, <1>11

-----------------------------------------------------------------------------
(* Where the pieces of a sequence are.                                     *)

Laid(text, ss, at) ==
    /\ at \in [1 .. Len(ss) + 1 -> Nat \ {0}]
    /\ at[1] = 1 /\ at[Len(ss) + 1] = Len(text) + 1
    /\ \A k \in 1 .. Len(ss) : /\ at[k + 1] = at[k] + Len(ss[k])
                               /\ at[k] + Len(ss[k]) <= Len(text) + 1
                               /\ \A i \in 1 .. Len(ss[k]) : text[at[k] + i - 1] = ss[k][i]

LEMMA JoinedLaid ==
    ASSUME NEW T, NEW ss \in Seq(Seq(T)), NEW p, Joins(T, ss, p)
    PROVE  \E at : Laid(p[Len(ss)], ss, at)
<1> DEFINE n    == Len(ss)
           text == p[n]
           at   == [k \in 1 .. n + 1 |-> Len(p[k - 1]) + 1]
<1>0. Pieced(ss, p, n)
  <2>1. n \in 0 .. Len(ss)
    OBVIOUS
  <2> HIDE DEF n
  <2> QED BY <2>1, PieceIs, Zenon
<1>1. n \in Nat /\ n \in 0 .. n /\ \A k \in 1 .. n : ss[k] \in Seq(T) /\ Len(ss[k]) \in Nat
  OBVIOUS
<1>2. p \in [0..n -> Seq(T)] /\ p[0] = <<>>
  BY DEF Joins
<1>3. \A k \in 1 .. n :
         /\ Len(p[k]) = Len(p[k - 1]) + Len(ss[k])
         /\ Len(p[k]) <= Len(p[n])
         /\ \A i \in 1 .. Len(ss[k]) : p[n][Len(p[k - 1]) + i] = ss[k][i]
  BY <1>0, Zenon DEF Pieced
<1> HIDE DEF n
<1>4. \A k \in 0 .. n : Len(p[k]) \in Nat
  BY <1>2, LenProperties
<1>5. \A k \in 1 .. n + 1 : k - 1 \in 0 .. n
  BY <1>1
<1>6. at \in [1 .. n + 1 -> Nat \ {0}]
  <2>1. \A k \in 1 .. n + 1 : Len(p[k - 1]) + 1 \in Nat \ {0}
    BY <1>4, <1>5
  <2> QED BY <2>1
<1>7. at[1] = 1 /\ at[n + 1] = Len(text) + 1
  <2>1. 1 \in 1 .. n + 1 /\ n + 1 \in 1 .. n + 1 /\ 1 - 1 = 0 /\ (n + 1) - 1 = n
    BY <1>1
  <2>2. at[1] = Len(p[0]) + 1 /\ at[n + 1] = Len(p[n]) + 1
    BY <2>1
  <2> QED BY <1>2, <2>2
<1>8. ASSUME NEW k \in 1 .. n
      PROVE  /\ at[k + 1] = at[k] + Len(ss[k])
             /\ at[k] + Len(ss[k]) <= Len(text) + 1
             /\ \A i \in 1 .. Len(ss[k]) : text[at[k] + i - 1] = ss[k][i]
  <2> DEFINE a == Len(p[k - 1])
             b == Len(ss[k])
  <2>1. k \in 1 .. n + 1 /\ k + 1 \in 1 .. n + 1 /\ (k + 1) - 1 = k /\ k - 1 \in 0 .. n /\ k \in 0 .. n
    BY <1>1
  <2>2. at[k] = a + 1 /\ at[k + 1] = Len(p[k]) + 1
    BY <2>1
  <2>3. a \in Nat /\ b \in Nat /\ Len(p[k]) \in Nat /\ Len(text) \in Nat
    BY <1>1, <1>4, <2>1
  <2>4. Len(p[k]) = a + b /\ Len(p[k]) <= Len(text)
    BY <1>3
  <2>5. \A i \in 1 .. b : text[a + i] = ss[k][i]
    BY <1>3
  <2> HIDE DEF a, b, at, text
  <2>6. \A i \in 1 .. b : (a + 1) + i - 1 = a + i
    BY <2>3
  <2>7. \A i \in 1 .. b : text[at[k] + i - 1] = ss[k][i]
    BY <2>2, <2>5, <2>6
  <2>8. at[k + 1] = at[k] + b /\ at[k] + b <= Len(text) + 1
    BY <2>2, <2>3, <2>4
  <2> QED BY <2>7, <2>8 DEF b
<1>9. Laid(text, ss, at)
  <2> HIDE DEF at, text
  <2> QED BY <1>6, <1>7, <1>8 DEF Laid, n
<1> QED BY <1>9 DEF n

LEMMA FlattenLaid ==
    ASSUME NEW T, NEW ss \in Seq(Seq(T))
    PROVE  \E at : Laid(FlattenSeq(ss), ss, at)
<1>1. PICK p : Joins(T, ss, p)
  BY JoinsExist
<1> QED BY <1>1, FlattenIs, JoinedLaid

(* What is escaped, byte for byte.                                         *)
LEMMA CodeType ==
    ASSUME NEW c \in Nat
    PROVE  CodeOf(c) \in Seq(Nat)
<1>1. <<Percent, 50, 53>> \in Seq(Nat) /\ <<Percent, 55, 67>> \in Seq(Nat) /\ <<Percent, 51, 68>> \in Seq(Nat)
  BY DEF Percent
<1>2. <<c>> \in Seq(Nat)
  BY OneByte
<1> QED BY <1>1, <1>2, Zenon DEF CodeOf

Codes(s) == [k \in 1 .. Len(s) |-> CodeOf(s[k])]

LEMMA CodesType ==
    ASSUME NEW s \in Seq(Nat)
    PROVE  Codes(s) \in Seq(Seq(Nat)) /\ Len(Codes(s)) = Len(s)
<1>1. Len(s) \in Nat /\ \A k \in 1 .. Len(s) : s[k] \in Nat
  OBVIOUS
<1>2. Codes(s) \in [1 .. Len(s) -> Seq(Nat)]
  BY <1>1, CodeType DEF Codes
<1> QED BY <1>1, <1>2, FunctionIsSequence, Zenon

LEMMA EscapeJoins ==
    ASSUME NEW s \in Seq(Nat)
    PROVE  \E p : Joins(Nat, Codes(s), p) /\ p[Len(s)] = Escape(s)
<1> DEFINE n == Len(s)
           p == [k \in 0 .. n |-> Escape(SubSeq(s, 1, k))]
<1>1. n \in Nat /\ SubSeq(s, 1, n) = s /\ SubSeq(s, 1, 0) = <<>>
  OBVIOUS
<1>2. \A k \in 0 .. n : SubSeq(s, 1, k) \in Seq(Nat)
  OBVIOUS
<1>3. \A k \in 1 .. n : SubSeq(s, 1, k) = SubSeq(s, 1, k - 1) \o <<s[k]>> /\ s[k] \in Nat /\ k - 1 \in 0 .. n
  <2> SUFFICES ASSUME NEW k \in 1 .. n
               PROVE  SubSeq(s, 1, k) = SubSeq(s, 1, k - 1) \o <<s[k]>> /\ s[k] \in Nat /\ k - 1 \in 0 .. n
    OBVIOUS
  <2>1. k \in 1 .. Len(s) /\ 1 \in 1 .. Len(s) /\ k \in 1 .. Len(s) /\ s[k] \in Nat /\ k - 1 \in 0 .. n
    BY <1>1
  <2>2. SubSeq(s, 1, k) = SubSeq(s, 1, k - 1) \o <<s[k]>>
    BY <2>1, SubSeqRecursiveSecond, Zenon
  <2> QED BY <2>1, <2>2
<1>4. Escape(<<>>) = <<>>
  <2>1. <<>> \in Seq(Nat) /\ 0 \in Nat
    OBVIOUS
  <2>2. Escapes(<<>>, 0)
    BY <2>1, EscapeIs, Zenon
  <2> QED BY <2>2, Zenon DEF Escapes
<1>5. p \in [0 .. n -> Seq(Nat)]
  <2>1. \A t \in Seq(Nat) : Escapes(t, 0)
    BY EscapeIs
  <2>2. \A t \in Seq(Nat) : Escape(t) \in Seq(Nat)
    BY <2>1, Zenon DEF Escapes
  <2> QED BY <1>2, <2>2
<1>6. p[0] = <<>> /\ p[n] = Escape(s)
  <2>1. 0 \in 0 .. n /\ n \in 0 .. n
    BY <1>1
  <2>2. p[0] = Escape(SubSeq(s, 1, 0)) /\ p[n] = Escape(SubSeq(s, 1, n))
    BY <2>1
  <2> HIDE DEF p
  <2> QED BY <1>1, <1>4, <2>2
<1>7. ASSUME NEW k \in 1 .. n PROVE p[k] = p[k - 1] \o Codes(s)[k]
  <2> DEFINE v == SubSeq(s, 1, k - 1)
  <2>1. v \in Seq(Nat) /\ SubSeq(s, 1, k) = v \o <<s[k]>> /\ s[k] \in Nat
    BY <1>2, <1>3
  <2>2. p[k] = Escape(SubSeq(s, 1, k)) /\ p[k - 1] = Escape(v)
    BY <1>3
  <2> HIDE DEF v, p
  <2>3. Escape(v \o <<s[k]>>) = Escape(v) \o CodeOf(s[k])
    <3>1. Escapes(v, s[k])
      BY <2>1, EscapeIs, Zenon
    <3> QED BY <3>1, Zenon DEF Escapes
  <2>4. Codes(s)[k] = CodeOf(s[k])
    BY DEF Codes
  <2> QED BY <2>1, <2>2, <2>3, <2>4
<1> HIDE DEF p
<1>8. Joins(Nat, Codes(s), p)
  BY <1>5, <1>6, <1>7, CodesType DEF Joins
<1> QED BY <1>6, <1>8

LEMMA EscapeLaid ==
    ASSUME NEW s \in Seq(Nat)
    PROVE  \E at : Laid(Escape(s), Codes(s), at)
<1>1. PICK p : Joins(Nat, Codes(s), p) /\ p[Len(s)] = Escape(s)
  BY EscapeJoins
<1>2. Codes(s) \in Seq(Seq(Nat)) /\ Len(Codes(s)) = Len(s)
  BY CodesType
<1> QED BY <1>1, <1>2, JoinedLaid

-----------------------------------------------------------------------------
(* What was escaped is unescaped.                                          *)

TokenAt(text, i) == SubSeq(text, i, Min({i + 2, Len(text)}))

ByteOf(token, c) ==
    CASE token = <<Percent, 50, 53>> -> Percent
      [] token = <<Percent, 55, 67>> -> Bar
      [] token = <<Percent, 51, 68>> -> Equals
      [] OTHER -> c

ByteAt(text, i) == ByteOf(TokenAt(text, i), text[i])

NextAt(text, i) == IF text[i] = Percent THEN i + 3 ELSE i + 1

Unescapes(text, f) ==
    /\ f[1] = Unescape(text)
    /\ \A i \in 1 .. Len(text) + 3 :
          f[i] = IF i > Len(text) THEN <<>> ELSE <<ByteAt(text, i)>> \o f[NextAt(text, i)]

LEMMA ByteOfType ==
    ASSUME NEW token, NEW c \in Nat
    PROVE  ByteOf(token, c) \in Nat
BY DEF ByteOf, Percent, Bar, Equals

LEMMA UnescapeIs ==
    ASSUME NEW text \in Seq(Nat)
    PROVE  \E f : Unescapes(text, f)
<1> DEFINE n == Len(text) + 3
           S == Seq(Nat)
           Of(g) == [i \in 1 .. n |->
                        IF i > Len(text) THEN <<>> ELSE <<ByteAt(text, i)>> \o g[NextAt(text, i)]]
           h == CHOOSE g : g = Of(g)
           stop == {i \in 1 .. n : i > Len(text)}
           base == [i \in 1 .. n |-> <<>>]
           jump == [i \in 1 .. n |-> NextAt(text, i)]
           step == [i \in 1 .. n |-> [x \in S |-> <<ByteAt(text, i)>> \o x]]
<1>1. Unescape(text) = h[1]
  BY Zenon DEF Unescape, ByteAt, TokenAt, NextAt, ByteOf
<1>2. Len(text) \in Nat /\ n \in Nat /\ 1 \in 1 .. n /\ \A i \in 1 .. Len(text) : text[i] \in Nat
  OBVIOUS
<1>3. \A i \in 1 .. n : i \notin stop => i \in 1 .. Len(text)
  BY <1>2
<1>4. \A i \in 1 .. n : i \notin stop => ByteAt(text, i) \in Nat
  BY <1>2, <1>3, ByteOfType DEF ByteAt
<1>5. \A i \in 1 .. n : i \notin stop => jump[i] \in (i + 1) .. n
  <2>1. \A i \in 1 .. Len(text) : NextAt(text, i) \in (i + 1) .. n
    BY <1>2 DEF NextAt
  <2> QED BY <1>3, <2>1
<1>6. \A i \in 1 .. n, x \in S : i \notin stop => step[i][x] \in S
  <2> SUFFICES ASSUME NEW i \in 1 .. n, NEW x \in S, i \notin stop PROVE step[i][x] \in S
    OBVIOUS
  <2>1. <<ByteAt(text, i)>> \in Seq(Nat)
    BY <1>4, OneByte
  <2>2. step[i][x] = <<ByteAt(text, i)>> \o x
    OBVIOUS
  <2>3. <<ByteAt(text, i)>> \o x \in Seq(Nat)
    BY <2>1, ConcatProperties
  <2> QED BY <2>2, <2>3
<1>7. Jumps(n, S, stop, base, jump, step)
  <2>1. \A i \in 1 .. n : i \in stop => base[i] \in S
    OBVIOUS
  <2> HIDE DEF n, S, stop, base, jump, step
  <2> QED BY <1>5, <1>6, <2>1, Zenon DEF Jumps
<1>8. PICK f \in [1..n -> S] : Follows(f, n, stop, base, jump, step)
  <2> HIDE DEF n, S, stop, base, jump, step
  <2> QED BY <1>2, <1>7, JumpRecursion
<1>9. ASSUME NEW i \in 1 .. n
      PROVE  f[i] = IF i > Len(text) THEN <<>> ELSE <<ByteAt(text, i)>> \o f[NextAt(text, i)]
  <2>1. f[i] = IF i \in stop THEN base[i] ELSE step[i][f[jump[i]]]
    <3> HIDE DEF n, S, stop, base, jump, step
    <3> QED BY <1>8 DEF Follows
  <2>2. i \in stop <=> i > Len(text)
    OBVIOUS
  <2>3. base[i] = <<>>
    OBVIOUS
  <2>4. i \notin stop => step[i][f[jump[i]]] = <<ByteAt(text, i)>> \o f[NextAt(text, i)]
    <3> SUFFICES ASSUME i \notin stop PROVE step[i][f[jump[i]]] = <<ByteAt(text, i)>> \o f[NextAt(text, i)]
      OBVIOUS
    <3>1. jump[i] \in 1 .. n /\ jump[i] = NextAt(text, i)
      BY <1>2, <1>5
    <3>2. f[jump[i]] \in S
      BY <1>8, <3>1
    <3>3. \A x \in S : step[i][x] = <<ByteAt(text, i)>> \o x
      OBVIOUS
    <3> HIDE DEF n, S, stop, base, jump, step
    <3> QED BY <3>1, <3>2, <3>3
  <2> HIDE DEF n, S, stop, base, jump, step
  <2> QED BY <2>1, <2>2, <2>3, <2>4
<1>10. f = Of(f)
  <2>1. \A i \in 1 .. n : f[i] = Of(f)[i]
    BY <1>9
  <2>2. f = [i \in 1 .. n |-> f[i]]
    BY <1>8
  <2>3. Of(f) = [i \in 1 .. n |-> Of(f)[i]]
    BY Zenon
  <2> HIDE DEF Of
  <2> QED BY <2>1, <2>2, <2>3
<1>11. h = Of(h)
  <2> HIDE DEF Of
  <2> QED BY <1>10
<1>12. \A i \in 1 .. n :
         h[i] = IF i > Len(text) THEN <<>> ELSE <<ByteAt(text, i)>> \o h[NextAt(text, i)]
  <2> SUFFICES ASSUME NEW i \in 1 .. n
               PROVE  h[i] = IF i > Len(text) THEN <<>> ELSE <<ByteAt(text, i)>> \o h[NextAt(text, i)]
    OBVIOUS
  <2>1. Of(h)[i] = IF i > Len(text) THEN <<>> ELSE <<ByteAt(text, i)>> \o h[NextAt(text, i)]
    <3> HIDE DEF h
    <3> QED BY Zenon
  <2>2. h[i] = Of(h)[i]
    <3> HIDE DEF h, Of
    <3> QED BY <1>11, Zenon
  <2> HIDE DEF h, Of
  <2> QED BY <2>1, <2>2
<1> HIDE DEF h
<1>13. Unescapes(text, h)
  BY <1>1, <1>12, Zenon DEF Unescapes
<1> QED BY <1>13

LEMMA LeastIs ==
    ASSUME NEW S \in SUBSET Nat, NEW m \in S, \A y \in S : m <= y
    PROVE  Min(S) = m
<1>1. Min(S) \in S /\ \A y \in S : Min(S) <= y
  BY LeastOfNaturals
<1>2. Min(S) \in Nat /\ m \in Nat /\ Min(S) <= m /\ m <= Min(S)
  BY <1>1
<1> QED BY <1>2

LEMMA LesserIs ==
    ASSUME NEW a \in Nat, NEW b \in Nat
    PROVE  Min({a, b}) \in {a, b} /\ Min({a, b}) <= a /\ Min({a, b}) <= b
<1>1. {a, b} \in SUBSET Nat /\ {a, b} # {}
  OBVIOUS
<1>2. Min({a, b}) \in {a, b} /\ \A y \in {a, b} : Min({a, b}) <= y
  BY <1>1, LeastOfNaturals
<1> QED BY <1>2

LEMMA TripleIs ==
    ASSUME NEW x \in Nat, NEW y \in Nat, NEW z \in Nat, NEW s \in Seq(Nat),
           Len(s) = 3, s[1] = x, s[2] = y, s[3] = z
    PROVE  s = <<x, y, z>>
<1> DEFINE t == <<x, y, z>>
<1>1. t \in Seq(Nat) /\ Len(t) = 3 /\ t[1] = x /\ t[2] = y /\ t[3] = z
  OBVIOUS
<1> HIDE DEF t
<1>2. \A i \in 1 .. Len(s) : i = 1 \/ i = 2 \/ i = 3
  OBVIOUS
<1>3. \A i \in 1 .. Len(s) : s[i] = t[i]
  BY <1>1, <1>2
<1>4. s = t
  BY <1>1, <1>3, SeqEqual
<1> QED BY <1>4 DEF t

LEMMA TripleHas ==
    ASSUME NEW x \in Nat, NEW y \in Nat, NEW z \in Nat
    PROVE  /\ Len(<<x, y, z>>) = 3 /\ <<x, y, z>> \in Seq(Nat)
           /\ <<x, y, z>>[1] = x /\ <<x, y, z>>[2] = y /\ <<x, y, z>>[3] = z
OBVIOUS

(* A byte that has a code of three, and its code.                          *)
LEMMA CodedByte ==
    ASSUME NEW c \in Nat, NEW d \in Nat
    PROVE  /\ c \in {Percent, Bar, Equals} =>
                 /\ Len(CodeOf(c)) = 3 /\ CodeOf(c)[1] = Percent /\ CodeOf(c) \in Seq(Nat)
                 /\ ByteOf(CodeOf(c), d) = c
           /\ c \notin {Percent, Bar, Equals} =>
                 Len(CodeOf(c)) = 1 /\ CodeOf(c)[1] = c
<1>1. /\ Percent \in Nat /\ 50 \in Nat /\ 53 \in Nat /\ 55 \in Nat /\ 67 \in Nat /\ 51 \in Nat /\ 68 \in Nat
      /\ Bar # Percent /\ Equals # Percent /\ Bar # Equals
  BY DEF Percent, Bar, Equals
<1> DEFINE p == <<Percent, 50, 53>>
           b == <<Percent, 55, 67>>
           e == <<Percent, 51, 68>>
<1>2. /\ p \in Seq(Nat) /\ Len(p) = 3 /\ p[1] = Percent /\ p[2] = 50
      /\ b \in Seq(Nat) /\ Len(b) = 3 /\ b[1] = Percent /\ b[2] = 55
      /\ e \in Seq(Nat) /\ Len(e) = 3 /\ e[1] = Percent /\ e[2] = 51
  BY <1>1, TripleHas
<1>3. CodeOf(c) = IF c = Percent THEN p ELSE IF c = Bar THEN b ELSE IF c = Equals THEN e ELSE <<c>>
  BY Zenon DEF CodeOf
<1>4. \A t : ByteOf(t, d) = CASE t = p -> Percent [] t = b -> Bar [] t = e -> Equals [] OTHER -> d
  BY Zenon DEF ByteOf
<1> HIDE DEF p, b, e
<1>5. p # b /\ p # e /\ b # e
  BY <1>2
<1>6. ByteOf(p, d) = Percent /\ ByteOf(b, d) = Bar /\ ByteOf(e, d) = Equals
  BY <1>4, <1>5
<1>7. c \notin {Percent, Bar, Equals} => Len(CodeOf(c)) = 1 /\ CodeOf(c)[1] = c
  BY <1>3, OneByte
<1>8. CASE c = Percent
  BY <1>1, <1>2, <1>3, <1>6, <1>8
<1>9. CASE c = Bar
  BY <1>1, <1>2, <1>3, <1>6, <1>9
<1>10. CASE c = Equals
  BY <1>1, <1>2, <1>3, <1>6, <1>10
<1>11. CASE c \notin {Percent, Bar, Equals}
  BY <1>7, <1>11
<1> QED BY <1>8, <1>9, <1>10, <1>11

LEMMA PlainByte ==
    ASSUME NEW c \in Nat, NEW t \in Seq(Nat), t # <<>>, t[1] = c, c # Percent
    PROVE  ByteOf(t, c) = c
<1>1. t # <<Percent, 50, 53>> /\ t # <<Percent, 55, 67>> /\ t # <<Percent, 51, 68>>
  BY DEF Percent
<1> QED BY <1>1 DEF ByteOf

(* What Unescape reads where the code of s[k] begins.                      *)
LEMMA ReadsCode ==
    ASSUME NEW s \in Seq(Nat), NEW text \in Seq(Nat), NEW at, Laid(text, Codes(s), at),
           NEW k \in 1 .. Len(s)
    PROVE  /\ at[k] \in 1 .. Len(text)
           /\ ByteAt(text, at[k]) = s[k]
           /\ NextAt(text, at[k]) = at[k + 1]
<1> DEFINE c == s[k]
           i == at[k]
           code == Codes(s)[k]
           t == TokenAt(text, i)
<1>1. Codes(s) \in Seq(Seq(Nat)) /\ Len(Codes(s)) = Len(s) /\ Len(s) \in Nat
  BY CodesType
<1>2. c \in Nat /\ code = CodeOf(c) /\ Len(text) \in Nat
  BY DEF Codes
<1>3. /\ i \in Nat \ {0} /\ at[1] = 1
      /\ at[k + 1] = i + Len(code) /\ i + Len(code) <= Len(text) + 1
      /\ \A j \in 1 .. Len(code) : text[i + j - 1] = code[j]
  <2>1. k \in 1 .. Len(s) + 1
    BY <1>1
  <2> QED BY <1>1, <2>1 DEF Laid
<1>4. i >= 1
  BY <1>3
<1> HIDE DEF c, i, code
<1>5. CASE c \in {Percent, Bar, Equals}
  <2>1. /\ Len(code) = 3 /\ code[1] = Percent /\ code \in Seq(Nat)
        /\ ByteOf(code, text[i]) = c
    <3>1. i \in 1 .. Len(text)
      <4>1. Len(CodeOf(c)) = 3
        BY <1>2, <1>5, CodedByte
      <4> QED BY <1>2, <1>3, <1>4, <4>1
    <3>2. text[i] \in Nat
      BY <3>1
    <3> QED BY <1>2, <1>5, <3>2, CodedByte
  <2>2. Min({i + 2, Len(text)}) = i + 2
    <3>1. i + 2 \in Nat /\ i + 2 <= Len(text)
      BY <1>2, <1>3, <2>1
    <3> QED BY <1>2, <3>1, LesserIs
  <2>3. t = SubSeq(text, i, i + 2)
    BY <2>2, Zenon DEF TokenAt
  <2>4. /\ i \in 1 .. Len(text) /\ i + 2 \in 1 .. Len(text)
        /\ text[i + 1 - 1] = code[1] /\ text[i + 2 - 1] = code[2] /\ text[i + 3 - 1] = code[3]
    <3>1. i \in 1 .. Len(text) /\ i + 2 \in 1 .. Len(text)
      <4>1. \A a \in Nat \ {0}, m \in Nat : a + 3 <= m + 1 => a \in 1 .. m /\ a + 2 \in 1 .. m
        OBVIOUS
      <4>2. i + 3 <= Len(text) + 1 /\ i \in Nat \ {0}
        BY <1>3, <2>1
      <4> QED BY <1>2, <4>1, <4>2
    <3>2. 1 \in 1 .. Len(code) /\ 2 \in 1 .. Len(code) /\ 3 \in 1 .. Len(code)
      BY <2>1
    <3> QED BY <1>3, <3>1, <3>2
  <2>5. t \in Seq(Nat) /\ Len(t) = 3 /\ \A j \in 1 .. 3 : t[j] = text[i + j - 1]
    <3>1. \A x \in i .. i + 2 : text[x] \in Nat
      <4>1. \A x \in i .. i + 2 : x \in 1 .. Len(text)
        BY <1>2, <1>3, <2>4
      <4>2. \A x \in 1 .. Len(text) : text[x] \in Nat
        OBVIOUS
      <4> QED BY <4>1, <4>2
    <3>2. i \in Int /\ i + 2 \in Int /\ i <= i + 2 /\ (i + 2) - i + 1 = 3
      BY <1>3
    <3> HIDE DEF t
    <3> QED BY <2>3, <3>1, <3>2, SubSeqProperties
  <2>6. t = code
    <3> HIDE DEF t
    <3>1. t[1] = code[1] /\ t[2] = code[2] /\ t[3] = code[3]
      <4>1. t[1] = text[i + 1 - 1] /\ t[2] = text[i + 2 - 1] /\ t[3] = text[i + 3 - 1]
        BY <2>5
      <4> QED BY <2>4, <4>1
    <3>2. \A j \in 1 .. 3 : t[j] = code[j]
      <4>1. \A j \in 1 .. 3 : j = 1 \/ j = 2 \/ j = 3
        OBVIOUS
      <4> QED BY <3>1, <4>1
    <3> QED BY <2>1, <2>5, <3>2, SeqEqual
  <2>7. ByteAt(text, i) = c
    BY <2>1, <2>6, Zenon DEF ByteAt
  <2>8. NextAt(text, i) = i + 3
    <3>1. text[i] = Percent
      BY <1>3, <2>1, <2>4
    <3> QED BY <3>1 DEF NextAt
  <2> QED BY <1>3, <2>1, <2>4, <2>7, <2>8 DEF c, i
<1>6. CASE c \notin {Percent, Bar, Equals}
  <2>1. Len(code) = 1 /\ code[1] = c
    BY <1>2, <1>6, CodedByte
  <2>2. i \in 1 .. Len(text) /\ text[i + 1 - 1] = c /\ i + 1 - 1 = i
    BY <1>2, <1>3, <1>4, <2>1
  <2>3. text[i] = c /\ c # Percent
    BY <1>6, <2>2
  <2> DEFINE u == Min({i + 2, Len(text)})
  <2>4. u \in Nat /\ i <= u /\ u <= Len(text)
    <3>1. i + 2 \in Nat
      BY <1>3
    <3>2. u \in {i + 2, Len(text)} /\ u <= i + 2 /\ u <= Len(text)
      BY <1>2, <3>1, LesserIs
    <3> HIDE DEF u
    <3> QED BY <1>2, <1>3, <2>2, <3>2
  <2>5. t = SubSeq(text, i, u)
    BY Zenon DEF TokenAt
  <2> HIDE DEF u
  <2>6. t \in Seq(Nat) /\ t # <<>> /\ t[1] = c
    <3>1. \A x \in i .. u : text[x] \in Nat
      BY <1>2, <2>2, <2>4
    <3>2. i \in Int /\ u \in Int /\ 1 \in 1 .. u - i + 1
      BY <1>3, <2>4
    <3>3. t \in Seq(Nat) /\ Len(t) = u - i + 1 /\ t[1] = text[i + 1 - 1]
      <4> HIDE DEF t
      <4> QED BY <2>4, <2>5, <3>1, <3>2, SubSeqProperties
    <3>4. Len(t) # 0
      BY <2>4, <1>3, <3>3
    <3> HIDE DEF t
    <3> QED BY <2>2, <3>3, <3>4
  <2>7. ByteOf(t, c) = c
    BY <1>2, <2>3, <2>6, PlainByte
  <2>8. ByteAt(text, i) = c
    BY <2>3, <2>7, Zenon DEF ByteAt
  <2>9. NextAt(text, i) = i + 1
    BY <2>3 DEF NextAt
  <2> QED BY <1>3, <2>1, <2>2, <2>8, <2>9 DEF c, i
<1> QED BY <1>5, <1>6

LEMMA UnescapesEscaped ==
    ASSUME NEW s \in Seq(Nat)
    PROVE  Unescape(Escape(s)) = s
<1> DEFINE n    == Len(s)
           text == Escape(s)
<1>1. n \in Nat
  OBVIOUS
<1>2. text \in Seq(Nat)
  <2>1. Escapes(s, 0)
    BY EscapeIs
  <2> QED BY <2>1, Zenon DEF Escapes
<1>3. PICK at : Laid(text, Codes(s), at)
  BY EscapeLaid
<1> HIDE DEF text
<1>4. PICK f : Unescapes(text, f)
  BY <1>2, UnescapeIs
<1>5. Len(text) \in Nat /\ at[1] = 1 /\ at[n + 1] = Len(text) + 1
  BY <1>2, <1>3, CodesType DEF Laid
<1>6. ASSUME NEW k \in 1 .. n
      PROVE  f[at[k]] = <<s[k]>> \o f[at[k + 1]]
  <2>1. at[k] \in 1 .. Len(text) /\ ByteAt(text, at[k]) = s[k] /\ NextAt(text, at[k]) = at[k + 1]
    BY <1>2, <1>3, ReadsCode
  <2>2. at[k] \in 1 .. Len(text) + 3 /\ ~(at[k] > Len(text))
    BY <1>5, <2>1
  <2>3. f[at[k]] = <<ByteAt(text, at[k])>> \o f[NextAt(text, at[k])]
    BY <1>4, <2>2 DEF Unescapes
  <2> QED BY <2>1, <2>3
<1>7. f[at[n + 1]] = <<>>
  <2>1. at[n + 1] \in 1 .. Len(text) + 3 /\ at[n + 1] > Len(text)
    BY <1>5
  <2> QED BY <1>4, <2>1 DEF Unescapes
<1> DEFINE Bad == {k \in 1 .. n + 1 : f[at[k]] # SubSeq(s, k, n)}
<1>8. Bad = {}
  <2> SUFFICES ASSUME Bad # {} PROVE FALSE
    OBVIOUS
  <2>1. Bad \in Indices
    <3>1. 1 .. n + 1 \in Indices
      BY <1>1, IntervalIndices
    <3> QED BY <3>1, SubsetIndices
  <2>2. PICK m \in Bad : \A y \in Bad : y <= m
    <3> HIDE DEF Bad
    <3> QED BY <2>1, MaxIsGreatest
  <2>3. m \in 1 .. n + 1 /\ f[at[m]] # SubSeq(s, m, n)
    BY <2>2
  <2>4. m # n + 1
    <3>1. SubSeq(s, n + 1, n) = <<>>
      BY <1>1, SubSeqEmpty
    <3> QED BY <1>7, <2>3, <3>1
  <2>5. m \in 1 .. n /\ m + 1 \in 1 .. n + 1 /\ ~(m + 1 <= m)
    BY <1>1, <2>3, <2>4
  <2>6. m + 1 \notin Bad
    BY <2>2, <2>5
  <2>7. f[at[m + 1]] = SubSeq(s, m + 1, n)
    BY <2>5, <2>6
  <2>8. SubSeq(s, m, n) = <<s[m]>> \o SubSeq(s, m + 1, n)
    <3>1. n \in m .. Len(s) /\ m \in 1 .. Len(s)
      BY <1>1, <2>5
    <3> HIDE DEF n
    <3> QED BY <3>1, SubSeqRecursiveFirst, Zenon
  <2> HIDE DEF n, Bad
  <2> QED BY <1>6, <2>3, <2>5, <2>7, <2>8
<1>9. f[at[1]] = SubSeq(s, 1, n)
  <2>1. 1 \in 1 .. n + 1
    BY <1>1
  <2> QED BY <1>8, <2>1
<1>10. SubSeq(s, 1, n) = s
  BY SubSeqFull
<1>11. f[1] = Unescape(text)
  BY <1>4, Zenon DEF Unescapes
<1> QED BY <1>5, <1>9, <1>10, <1>11 DEF text

(* Neither separator is left in what was escaped.                          *)
Clean(s) == \A i \in 1 .. Len(s) : s[i] # Bar /\ s[i] # Equals

LEMMA CleanTogether ==
    ASSUME NEW a \in Seq(Nat), NEW b \in Seq(Nat), Clean(a), Clean(b)
    PROVE  Clean(a \o b)
<1>1. /\ Len(a \o b) = Len(a) + Len(b) /\ Len(a) \in Nat /\ Len(b) \in Nat
      /\ \A i \in 1 .. Len(a) + Len(b) : (a \o b)[i] = IF i <= Len(a) THEN a[i] ELSE b[i - Len(a)]
  BY ConcatProperties, LenProperties
<1> SUFFICES ASSUME NEW i \in 1 .. Len(a) + Len(b) PROVE (a \o b)[i] # Bar /\ (a \o b)[i] # Equals
  BY <1>1 DEF Clean
<1>2. CASE i <= Len(a)
  <2>1. i \in 1 .. Len(a)
    BY <1>1, <1>2
  <2> QED BY <1>1, <1>2, <2>1 DEF Clean
<1>3. CASE ~(i <= Len(a))
  <2>1. i - Len(a) \in 1 .. Len(b)
    BY <1>1, <1>3
  <2> QED BY <1>1, <1>3, <2>1 DEF Clean
<1> QED BY <1>2, <1>3

LEMMA CleanCode ==
    ASSUME NEW c \in Nat
    PROVE  Clean(CodeOf(c))
<1>1. /\ Percent \in Nat /\ 50 \in Nat /\ 53 \in Nat /\ 55 \in Nat /\ 67 \in Nat /\ 51 \in Nat /\ 68 \in Nat
      /\ {Percent, 50, 53, 55, 67, 51, 68} \cap {Bar, Equals} = {}
  BY DEF Percent, Bar, Equals
<1>2. ASSUME NEW x \in Nat, NEW y \in Nat, {Percent, x, y} \cap {Bar, Equals} = {}
      PROVE  Clean(<<Percent, x, y>>)
  <2> DEFINE t == <<Percent, x, y>>
  <2>1. Len(t) = 3 /\ t[1] = Percent /\ t[2] = x /\ t[3] = y
    BY <1>1, TripleHas
  <2> HIDE DEF t
  <2>2. \A i \in 1 .. Len(t) : i = 1 \/ i = 2 \/ i = 3
    BY <2>1
  <2>3. Clean(t)
    BY <1>2, <2>1, <2>2 DEF Clean
  <2> QED BY <2>3 DEF t
<1>3. Clean(<<Percent, 50, 53>>) /\ Clean(<<Percent, 55, 67>>) /\ Clean(<<Percent, 51, 68>>)
  BY <1>1, <1>2
<1>4. c # Bar /\ c # Equals => Clean(<<c>>)
  <2>1. Len(<<c>>) = 1 /\ <<c>>[1] = c
    BY OneByte
  <2> DEFINE t == <<c>>
  <2>2. \A i \in 1 .. Len(t) : i = 1
    BY <2>1
  <2> HIDE DEF t
  <2>3. c # Bar /\ c # Equals => Clean(t)
    BY <2>1, <2>2 DEF Clean, t
  <2> QED BY <2>3 DEF t
<1> QED BY <1>3, <1>4, Zenon DEF CodeOf

LEMMA CleanEscape ==
    ASSUME NEW s \in Seq(Nat)
    PROVE  Clean(Escape(s))
<1>1. PICK p : Joins(Nat, Codes(s), p) /\ p[Len(s)] = Escape(s)
  BY EscapeJoins
<1> DEFINE n == Len(s)
           Bad == {k \in 0 .. n : ~Clean(p[k])}
<1>2. /\ n \in Nat /\ p \in [0 .. n -> Seq(Nat)] /\ p[0] = <<>>
      /\ \A k \in 1 .. n : p[k] = p[k - 1] \o Codes(s)[k]
  <2>1. Len(Codes(s)) = n /\ n \in Nat
    BY CodesType
  <2> QED BY <1>1, <2>1 DEF Joins
<1>3. \A k \in 1 .. n : s[k] \in Nat /\ Codes(s)[k] = CodeOf(s[k])
  BY DEF Codes
<1>4. Clean(<<>>)
  BY DEF Clean
<1> HIDE DEF n
<1>5. Bad = {}
  <2> SUFFICES ASSUME Bad # {} PROVE FALSE
    OBVIOUS
  <2>1. Bad \in SUBSET Nat
    BY <1>2
  <2>2. PICK m \in Bad : \A y \in Bad : m <= y
    <3> HIDE DEF Bad
    <3> QED BY <2>1, LeastOfNaturals
  <2>3. m \in 0 .. n /\ ~Clean(p[m])
    BY <2>2
  <2>4. m # 0
    BY <1>2, <1>4, <2>3
  <2>5. m \in 1 .. n /\ m - 1 \in 0 .. n /\ ~(m <= m - 1)
    BY <1>2, <2>3, <2>4
  <2>6. Clean(p[m - 1]) /\ p[m - 1] \in Seq(Nat)
    BY <1>2, <2>2, <2>5
  <2>7. CodeOf(s[m]) \in Seq(Nat) /\ Clean(CodeOf(s[m]))
    BY <1>3, <2>5, CodeType, CleanCode
  <2>8. Clean(p[m - 1] \o CodeOf(s[m]))
    BY <2>6, <2>7, CleanTogether
  <2> QED BY <1>2, <1>3, <2>3, <2>5, <2>8
<1>6. n \in 0 .. n
  BY <1>2
<1> QED BY <1>1, <1>5, <1>6 DEF n

-----------------------------------------------------------------------------
(* Labels that were encoded are decoded.                                   *)

LEMMA PositionType ==
    ASSUME NEW t \in Seq(Nat), NEW c
    PROVE  Position(t, c) \in 1 .. Len(t) + 1
<1> DEFINE S == {Len(t) + 1} \cup {i \in DOMAIN t : t[i] = c}
<1>1. Len(t) \in Nat /\ DOMAIN t = 1 .. Len(t)
  OBVIOUS
<1>2. S \in SUBSET (1 .. Len(t) + 1) /\ S # {}
  BY <1>1
<1>3. Position(t, c) = Min(S)
  BY DEF Position
<1> HIDE DEF S
<1>4. S \in SUBSET Nat
  BY <1>1, <1>2
<1>5. Min(S) \in S
  BY <1>2, <1>4, LeastOfNaturals
<1> QED BY <1>2, <1>3, <1>5

(* The first c of t is behind the first n bytes.                           *)
LEMMA PositionIs ==
    ASSUME NEW t \in Seq(Nat), NEW c, NEW n \in 0 .. Len(t),
           \A i \in 1 .. n : t[i] # c,
           n = Len(t) \/ t[n + 1] = c
    PROVE  Position(t, c) = n + 1
<1> DEFINE S == {Len(t) + 1} \cup {i \in DOMAIN t : t[i] = c}
           l == Len(t)
<1>1. l \in Nat /\ DOMAIN t = 1 .. l /\ n \in Nat /\ n <= l
  OBVIOUS
<1>2. \A y : y \in S <=> y = l + 1 \/ (y \in 1 .. l /\ t[y] = c)
  BY <1>1
<1>0. n = l \/ t[n + 1] = c
  OBVIOUS
<1> HIDE DEF S, l
<1>3. n + 1 \in S /\ S \in SUBSET Nat
  <2>1. CASE n = l
    BY <1>1, <1>2, <2>1
  <2>2. CASE n # l
    <3>1. n + 1 \in 1 .. l /\ t[n + 1] = c
      BY <1>0, <1>1, <2>2
    <3> QED BY <1>1, <1>2, <3>1
  <2> QED BY <2>1, <2>2
<1>4. ASSUME NEW y \in S PROVE n + 1 <= y
  <2>1. CASE y = l + 1
    BY <1>1, <2>1
  <2>2. CASE y \in 1 .. l /\ t[y] = c
    <3>1. y \notin 1 .. n
      BY <2>2
    <3> QED BY <1>1, <2>2, <3>1
  <2> QED BY <1>2, <2>1, <2>2
<1>5. Position(t, c) = Min(S)
  BY DEF Position, S, l
<1> QED BY <1>3, <1>4, <1>5, LeastIs

Joined(a, b) ==
    /\ a \o b \in Seq(Nat)
    /\ Len(a \o b) = Len(a) + Len(b)
    /\ \A i \in 1 .. Len(a) + Len(b) : (a \o b)[i] = IF i <= Len(a) THEN a[i] ELSE b[i - Len(a)]

LEMMA JoinedIs ==
    ASSUME NEW a \in Seq(Nat), NEW b \in Seq(Nat)
    PROVE  Joined(a, b)
BY ConcatProperties, Zenon DEF Joined

(* strings.Cut of a \o <<c>> \o b, if c is not in a.                       *)
CutAt(t, c, a, b) ==
    /\ t \in Seq(Nat)
    /\ Len(t) = Len(a) + 1 + Len(b)
    /\ Position(t, c) = Len(a) + 1
    /\ SubSeq(t, 1, Position(t, c) - 1) = a
    /\ SubSeq(t, Position(t, c) + 1, Len(t)) = b

LEMMA CutIs ==
    ASSUME NEW a \in Seq(Nat), NEW b \in Seq(Nat), NEW c \in Nat, \A i \in 1 .. Len(a) : a[i] # c
    PROVE  CutAt((a \o <<c>>) \o b, c, a, b)
<1> DEFINE m == a \o <<c>>
           t == m \o b
<1>1. Len(a) \in Nat /\ Len(b) \in Nat
  OBVIOUS
<1>2. m \in Seq(Nat) /\ Len(m) = Len(a) + 1 /\ m[Len(a) + 1] = c
      /\ \A i \in 1 .. Len(a) : m[i] = a[i]
  <2>1. <<c>> \in Seq(Nat) /\ Len(<<c>>) = 1 /\ <<c>>[1] = c
    BY OneByte
  <2> DEFINE o == <<c>>
  <2> HIDE DEF o
  <2>2. o \in Seq(Nat) /\ Len(o) = 1 /\ o[1] = c
    BY <2>1 DEF o
  <2>3. a \o o \in Seq(Nat) /\ Len(a \o o) = Len(a) + 1
        /\ \A i \in 1 .. Len(a) + 1 : (a \o o)[i] = IF i <= Len(a) THEN a[i] ELSE o[i - Len(a)]
    <3>1. Joined(a, o)
      BY <2>2, JoinedIs, Zenon
    <3> QED BY <2>2, <3>1 DEF Joined
  <2>4. Len(a) + 1 \in 1 .. Len(a) + 1 /\ ~(Len(a) + 1 <= Len(a)) /\ Len(a) + 1 - Len(a) = 1
    BY <1>1
  <2>5. (a \o o)[Len(a) + 1] = c
    BY <2>2, <2>3, <2>4
  <2>6. \A i \in 1 .. Len(a) : (a \o o)[i] = a[i]
    BY <1>1, <2>3
  <2> QED BY <2>3, <2>5, <2>6 DEF o
<1> HIDE DEF m
<1>3. t \in Seq(Nat) /\ Len(t) = Len(a) + 1 + Len(b)
      /\ \A i \in 1 .. Len(a) + 1 + Len(b) : t[i] = IF i <= Len(a) + 1 THEN m[i] ELSE b[i - (Len(a) + 1)]
  <2>1. Joined(m, b)
    BY <1>2, JoinedIs, Zenon
  <2> QED BY <1>1, <1>2, <2>1 DEF Joined
<1> HIDE DEF t
<1>4. t[Len(a) + 1] = c /\ \A i \in 1 .. Len(a) : t[i] = a[i]
  <2>1. \A i \in 1 .. Len(a) + 1 : t[i] = m[i]
    BY <1>1, <1>3
  <2>2. Len(a) + 1 \in 1 .. Len(a) + 1 /\ \A i \in 1 .. Len(a) : i \in 1 .. Len(a) + 1
    BY <1>1
  <2> QED BY <1>2, <2>1, <2>2
<1>5. Position(t, c) = Len(a) + 1
  <2>1. Len(a) \in 0 .. Len(t)
    BY <1>1, <1>3
  <2>2. Len(a) = Len(t) \/ t[Len(a) + 1] = c
    BY <1>4
  <2>3. \A i \in 1 .. Len(a) : t[i] # c
    BY <1>4
  <2>4. t \in Seq(Nat)
    BY <1>3
  <2> QED BY <2>1, <2>2, <2>3, <2>4, PositionIs, Zenon
<1>6. SubSeq(t, 1, Len(a)) = a
  <2> DEFINE u == SubSeq(t, 1, Len(a))
  <2>1. \A i \in 1 .. Len(a) : t[i] \in Nat
    BY <1>4
  <2>2. u \in Seq(Nat) /\ Len(u) = Len(a) /\ \A i \in 1 .. Len(a) : u[i] = t[i]
    <3>1. \A x \in Int : x - 1 + 1 = x /\ 1 + x - 1 = x
      OBVIOUS
    <3>2. /\ SubSeq(t, 1, Len(a)) \in Seq(Nat)
          /\ Len(SubSeq(t, 1, Len(a))) = IF 1 <= Len(a) THEN Len(a) - 1 + 1 ELSE 0
          /\ \A i \in 1 .. Len(a) - 1 + 1 : SubSeq(t, 1, Len(a))[i] = t[1 + i - 1]
      BY <1>1, <2>1, SubSeqProperties
    <3>3. Len(a) - 1 + 1 = Len(a) /\ \A i \in 1 .. Len(a) : 1 + i - 1 = i
      BY <1>1, <3>1
    <3> QED BY <1>1, <3>2, <3>3
  <2> HIDE DEF u
  <2>3. u = a
    BY <1>4, <2>2, SeqEqual
  <2> QED BY <2>3 DEF u
<1>7. SubSeq(t, Len(a) + 2, Len(t)) = b
  <2> DEFINE k == Len(a) + 2
             u == SubSeq(t, k, Len(t))
  <2>1. /\ k \in Int /\ Len(t) \in Int /\ Len(t) - k + 1 = Len(b)
        /\ \A i \in k .. Len(t) : i \in 1 .. Len(t)
        /\ k <= Len(t) <=> Len(b) # 0
    BY <1>1, <1>3
  <2>2. \A i \in k .. Len(t) : t[i] \in Nat
    BY <1>3, <2>1
  <2>3. u \in Seq(Nat) /\ Len(u) = Len(b) /\ \A i \in 1 .. Len(b) : u[i] = t[k + i - 1]
    <3> HIDE DEF k
    <3>1. /\ SubSeq(t, k, Len(t)) \in Seq(Nat)
          /\ Len(SubSeq(t, k, Len(t))) = IF k <= Len(t) THEN Len(t) - k + 1 ELSE 0
          /\ \A i \in 1 .. Len(t) - k + 1 : SubSeq(t, k, Len(t))[i] = t[k + i - 1]
      BY <2>1, <2>2, SubSeqProperties
    <3> QED BY <1>1, <2>1, <3>1
  <2>4. \A i \in 1 .. Len(b) : t[k + i - 1] = b[i]
    <3> SUFFICES ASSUME NEW i \in 1 .. Len(b) PROVE t[k + i - 1] = b[i]
      OBVIOUS
    <3> DEFINE x == k + i - 1
    <3>1. x \in 1 .. Len(a) + 1 + Len(b) /\ ~(x <= Len(a) + 1) /\ x - (Len(a) + 1) = i
      BY <1>1
    <3>2. t[x] = IF x <= Len(a) + 1 THEN m[x] ELSE b[x - (Len(a) + 1)]
      <4> HIDE DEF x
      <4> QED BY <1>3, <3>1
    <3> HIDE DEF x, k
    <3>3. t[x] = b[i]
      BY <3>1, <3>2
    <3> QED BY <3>3 DEF x
  <2> HIDE DEF u, k
  <2>5. \A i \in 1 .. Len(u) : u[i] = b[i]
    BY <2>3, <2>4
  <2>6. u = b
    BY <2>3, <2>5, SeqEqual
  <2> QED BY <2>6 DEF u, k
<1>8. Position(t, c) - 1 = Len(a) /\ Position(t, c) + 1 = Len(a) + 2
  BY <1>1, <1>5
<1>9. CutAt(t, c, a, b)
  BY <1>3, <1>5, <1>6, <1>7, <1>8, Zenon DEF CutAt
<1> QED BY <1>9, Zenon DEF t, m

(* A label as it is encoded, without the bar before it.                    *)
Part(l) == (Escape(l.name) \o <<Equals>>) \o Escape(l.value)

LabelOf(part) ==
    [name  |-> Unescape(SubSeq(part, 1, Position(part, Equals) - 1)),
     value |-> Unescape(SubSeq(part, Position(part, Equals) + 1, Len(part)))]

Parts(l) ==
    /\ Part(l) \in Seq(Nat)
    /\ Len(Part(l)) \in Nat \ {0}
    /\ \A i \in 1 .. Len(Part(l)) : Part(l)[i] # Bar
    /\ LabelOf(Part(l)) = l

LEMMA EscapeType ==
    ASSUME NEW s \in Seq(Nat)
    PROVE  Escape(s) \in Seq(Nat)
<1>1. Escapes(s, 0)
  BY EscapeIs
<1> QED BY <1>1, Zenon DEF Escapes

LEMMA PartIs ==
    ASSUME NEW l \in Labels
    PROVE  Parts(l)
<1> DEFINE a == Escape(l.name)
           b == Escape(l.value)
           e == <<Equals>>
           p == Part(l)
<1>1. l.name \in Seq(Nat) /\ l.value \in Seq(Nat) /\ l = [name |-> l.name, value |-> l.value]
  BY DEF Labels
<1>2. a \in Seq(Nat) /\ b \in Seq(Nat) /\ Clean(a) /\ Clean(b)
  BY <1>1, EscapeType, CleanEscape
<1>3. Equals \in Nat /\ Equals # Bar
  BY DEF Equals, Bar
<1>4. CutAt((a \o <<Equals>>) \o b, Equals, a, b)
  <2> HIDE DEF a, b
  <2>1. \A i \in 1 .. Len(a) : a[i] # Equals
    BY <1>2 DEF Clean
  <2> QED BY <1>2, <1>3, <2>1, CutIs
<1>5. CutAt(p, Equals, a, b)
  BY <1>4, Zenon DEF Part
<1>6. e \in Seq(Nat) /\ Len(e) = 1 /\ e[1] = Equals
  BY <1>3, OneByte
<1>7. p = (a \o e) \o b
  BY Zenon DEF Part
<1>8. LabelOf(p) = [name |-> Unescape(a), value |-> Unescape(b)]
  <2>1. SubSeq(p, 1, Position(p, Equals) - 1) = a /\ SubSeq(p, Position(p, Equals) + 1, Len(p)) = b
    BY <1>5, Zenon DEF CutAt
  <2> HIDE DEF p, a, b
  <2> QED BY <2>1, Zenon DEF LabelOf
<1>9. Unescape(a) = l.name /\ Unescape(b) = l.value
  BY <1>1, UnescapesEscaped
<1>10. LabelOf(p) = l
  <2> HIDE DEF a, b, p
  <2> QED BY <1>1, <1>8, <1>9
<1>11. p \in Seq(Nat) /\ Len(p) = Len(a) + 1 + Len(b)
  BY <1>5, Zenon DEF CutAt
<1> HIDE DEF a, b, e, p
<1>12. \A i \in 1 .. Len(p) : p[i] # Bar
  <2>1. Joined(a, e)
    BY <1>2, <1>6, JoinedIs
  <2> DEFINE m == a \o e
  <2>2. m \in Seq(Nat) /\ Len(m) = Len(a) + 1
        /\ \A i \in 1 .. Len(a) + 1 : m[i] = IF i <= Len(a) THEN a[i] ELSE e[i - Len(a)]
    BY <1>6, <2>1 DEF Joined
  <2> HIDE DEF m
  <2>3. Joined(m, b)
    BY <1>2, <2>2, JoinedIs
  <2>4. p = m \o b
    BY <1>7 DEF m
  <2>5. Len(a) \in Nat /\ Len(b) \in Nat
    BY <1>2
  <2>6. \A i \in 1 .. Len(a) + 1 : m[i] # Bar
    <3> SUFFICES ASSUME NEW i \in 1 .. Len(a) + 1 PROVE m[i] # Bar
      OBVIOUS
    <3>1. CASE i <= Len(a)
      <4>1. i \in 1 .. Len(a)
        BY <2>5, <3>1
      <4> QED BY <1>2, <2>2, <3>1, <4>1 DEF Clean
    <3>2. CASE ~(i <= Len(a))
      <4>1. i - Len(a) = 1
        BY <2>5, <3>2
      <4> QED BY <1>3, <1>6, <2>2, <3>2, <4>1
    <3> QED BY <3>1, <3>2
  <2>7. \A i \in 1 .. Len(m) + Len(b) : p[i] = IF i <= Len(m) THEN m[i] ELSE b[i - Len(m)]
    BY <2>3, <2>4 DEF Joined
  <2> SUFFICES ASSUME NEW i \in 1 .. Len(m) + Len(b) PROVE p[i] # Bar
    BY <1>11, <2>2
  <2>8. CASE i <= Len(m)
    <3>1. i \in 1 .. Len(a) + 1
      BY <2>2, <2>5, <2>8
    <3> QED BY <2>6, <2>7, <2>8, <3>1
  <2>9. CASE ~(i <= Len(m))
    <3>1. i - Len(m) \in 1 .. Len(b)
      BY <2>2, <2>5, <2>9
    <3> QED BY <1>2, <2>7, <2>9, <3>1 DEF Clean
  <2> QED BY <2>8, <2>9
<1>13. Len(p) \in Nat \ {0}
  <2>1. Len(a) \in Nat /\ Len(b) \in Nat
    BY <1>2
  <2> QED BY <1>11, <2>1
<1> QED BY <1>10, <1>11, <1>12, <1>13 DEF p, Parts

-----------------------------------------------------------------------------
(* Where the labels are in their encoding.                                 *)

Pieces(labels) ==
    [i \in 1 .. Len(labels) |-> IF i > 1 THEN <<Bar>> \o Part(labels[i]) ELSE Part(labels[i])]

LEMMA PiecesType ==
    ASSUME NEW labels \in Seq(Labels)
    PROVE  /\ Pieces(labels) \in Seq(Seq(Nat)) /\ Len(Pieces(labels)) = Len(labels)
           /\ EncodeLabels(labels) = FlattenSeq(Pieces(labels))
<1>1. Len(labels) \in Nat /\ DOMAIN labels = 1 .. Len(labels) /\ \A i \in 1 .. Len(labels) : labels[i] \in Labels
  OBVIOUS
<1>2. <<Bar>> \in Seq(Nat) /\ <<Equals>> \in Seq(Nat) /\ <<>> \in Seq(Nat)
  <2>1. Bar \in Nat /\ Equals \in Nat
    BY DEF Bar, Equals
  <2> QED BY <2>1, OneByte
<1>3. \A i \in 1 .. Len(labels) : Part(labels[i]) \in Seq(Nat)
  <2>1. \A i \in 1 .. Len(labels) : Parts(labels[i])
    BY <1>1, PartIs
  <2> QED BY <2>1, Zenon DEF Parts
<1>4. \A i \in 1 .. Len(labels) : <<Bar>> \o Part(labels[i]) \in Seq(Nat)
  BY <1>2, <1>3, ConcatProperties
<1>5. Pieces(labels) \in [1 .. Len(labels) -> Seq(Nat)]
  BY <1>3, <1>4, Zenon DEF Pieces
<1>6. Pieces(labels) \in Seq(Seq(Nat)) /\ Len(Pieces(labels)) = Len(labels)
  BY <1>1, <1>5, FunctionIsSequence, Zenon
<1> DEFINE Of(i) == (IF i > 1 THEN <<Bar>> ELSE <<>>)
                       \o Escape(labels[i].name) \o <<Equals>> \o Escape(labels[i].value)
           In(i) == IF i > 1 THEN <<Bar>> \o Part(labels[i]) ELSE Part(labels[i])
<1>7. \A i \in 1 .. Len(labels) : Of(i) = In(i)
  <2> SUFFICES ASSUME NEW i \in 1 .. Len(labels) PROVE Of(i) = In(i)
    OBVIOUS
  <2> DEFINE a == Escape(labels[i].name)
             b == Escape(labels[i].value)
             e == <<Equals>>
             x == IF i > 1 THEN <<Bar>> ELSE <<>>
  <2>1. a \in Seq(Nat) /\ b \in Seq(Nat)
    <3>1. labels[i].name \in Seq(Nat) /\ labels[i].value \in Seq(Nat)
      BY <1>1 DEF Labels
    <3> QED BY <3>1, EscapeType
  <2>2. e \in Seq(Nat) /\ x \in Seq(Nat)
    BY <1>2
  <2>3. Of(i) = ((x \o a) \o e) \o b /\ Part(labels[i]) = (a \o e) \o b
    BY Zenon DEF Part
  <2>4. x = IF i > 1 THEN <<Bar>> ELSE <<>>
    BY Zenon
  <2> HIDE DEF a, b, e, x, Of
  <2>5. a \o e \in Seq(Nat) /\ (a \o e) \o b \in Seq(Nat)
    BY <2>1, <2>2, ConcatProperties
  <2>6. ((x \o a) \o e) \o b = x \o ((a \o e) \o b)
    <3>1. \A s, t, u \in Seq(Nat) : (s \o t) \o u = s \o (t \o u)
      BY ConcatAssociative
    <3>2. (x \o a) \o e = x \o (a \o e)
      BY <2>1, <2>2, <3>1, Zenon
    <3>3. (x \o (a \o e)) \o b = x \o ((a \o e) \o b)
      BY <2>1, <2>2, <2>5, <3>1, Zenon
    <3> QED BY <3>2, <3>3, Zenon
  <2>7. <<>> \o ((a \o e) \o b) = (a \o e) \o b
    BY <2>5, ConcatEmptySeq
  <2>8. Of(i) = x \o Part(labels[i]) /\ <<>> \o Part(labels[i]) = Part(labels[i])
    BY <2>3, <2>6, <2>7, Zenon
  <2>9. CASE i > 1
    BY <2>4, <2>8, <2>9, Zenon
  <2>10. CASE ~(i > 1)
    BY <2>4, <2>8, <2>10, Zenon
  <2> QED BY <2>9, <2>10
<1>8. EncodeLabels(labels) = FlattenSeq([i \in DOMAIN labels |-> Of(i)])
  BY Zenon DEF EncodeLabels
<1>9. Pieces(labels) = [i \in 1 .. Len(labels) |-> In(i)]
  BY Zenon DEF Pieces
<1>10. [i \in DOMAIN labels |-> Of(i)] = [i \in 1 .. Len(labels) |-> In(i)]
  <2> HIDE DEF Of, In
  <2> QED BY <1>1, <1>7
<1> HIDE DEF Of, In
<1> QED BY <1>6, <1>8, <1>9, <1>10

(* The parts begin at the places st, a bar between two of them.            *)
Starts(text, labels, st) ==
    /\ st \in [1 .. Len(labels) + 1 -> Nat \ {0}]
    /\ st[1] = 1 /\ st[Len(labels) + 1] = Len(text) + 2
    /\ \A i \in 1 .. Len(labels) :
          /\ st[i + 1] = st[i] + Len(Part(labels[i])) + 1
          /\ st[i] + Len(Part(labels[i])) <= Len(text) + 1
          /\ \A j \in 1 .. Len(Part(labels[i])) : text[st[i] + j - 1] = Part(labels[i])[j]
          /\ i < Len(labels) => text[st[i] + Len(Part(labels[i]))] = Bar

LEMMA StartsExist ==
    ASSUME NEW labels \in Seq(Labels), Len(labels) # 0
    PROVE  /\ EncodeLabels(labels) \in Seq(Nat)
           /\ \E st : Starts(EncodeLabels(labels), labels, st)
<1> DEFINE n    == Len(labels)
           text == EncodeLabels(labels)
           P(i) == Part(labels[i])
           ss   == Pieces(labels)
<1>1. n \in Nat \ {0} /\ \A i \in 1 .. n : labels[i] \in Labels
  OBVIOUS
<1>2. ss \in Seq(Seq(Nat)) /\ Len(ss) = n /\ text = FlattenSeq(ss)
  BY PiecesType
<1>3. text \in Seq(Nat)
  <2>1. PICK p : Joins(Nat, ss, p)
    <3> HIDE DEF ss
    <3> QED BY <1>2, JoinsExist
  <2>2. p \in [0 .. n -> Seq(Nat)] /\ n \in 0 .. n
    <3> HIDE DEF ss
    <3> QED BY <1>1, <1>2, <2>1 DEF Joins
  <2>3. FlattenSeq(ss) = p[Len(ss)]
    <3> HIDE DEF ss
    <3> QED BY <1>2, <2>1, FlattenIs
  <2> HIDE DEF ss, text
  <2> QED BY <1>2, <2>2, <2>3
<1>4. PICK at : Laid(text, ss, at)
  <2> HIDE DEF ss, text
  <2> QED BY <1>2, FlattenLaid
<1>5. \A i \in 1 .. n : P(i) \in Seq(Nat) /\ Len(P(i)) \in Nat \ {0}
  <2>1. \A i \in 1 .. n : Parts(labels[i])
    BY <1>1, PartIs
  <2> QED BY <2>1, Zenon DEF Parts
<1>6. \A i \in 1 .. n : ss[i] = IF i > 1 THEN <<Bar>> \o P(i) ELSE P(i)
  BY Zenon DEF Pieces
<1>7. /\ at \in [1 .. n + 1 -> Nat \ {0}] /\ at[1] = 1 /\ at[n + 1] = Len(text) + 1
      /\ \A k \in 1 .. n : /\ at[k + 1] = at[k] + Len(ss[k])
                           /\ at[k] + Len(ss[k]) <= Len(text) + 1
                           /\ \A i \in 1 .. Len(ss[k]) : text[at[k] + i - 1] = ss[k][i]
  <2> HIDE DEF ss, n, text
  <2> QED BY <1>2, <1>4 DEF Laid
<1>8. Len(text) \in Nat
  BY <1>3
<1>9. ASSUME NEW i \in 1 .. n, i > 1
      PROVE  Len(ss[i]) = Len(P(i)) + 1 /\ ss[i][1] = Bar /\ \A j \in 1 .. Len(P(i)) : ss[i][j + 1] = P(i)[j]
  <2> DEFINE b == <<Bar>>
             q == P(i)
  <2>1. b \in Seq(Nat) /\ Len(b) = 1 /\ b[1] = Bar
    <3>1. Bar \in Nat
      BY DEF Bar
    <3> QED BY <3>1, OneByte
  <2>2. q \in Seq(Nat) /\ Len(q) \in Nat
    BY <1>5
  <2>3. ss[i] = b \o q
    BY <1>6, <1>9, Zenon
  <2> HIDE DEF b, q, ss
  <2>4. Joined(b, q)
    BY <2>1, <2>2, JoinedIs
  <2>5. Len(b \o q) = 1 + Len(q)
        /\ \A j \in 1 .. 1 + Len(q) : (b \o q)[j] = IF j <= 1 THEN b[j] ELSE q[j - 1]
    BY <2>1, <2>4 DEF Joined
  <2>6. (b \o q)[1] = Bar
    <3>1. 1 \in 1 .. 1 + Len(q)
      BY <2>2
    <3> QED BY <2>1, <2>5, <3>1
  <2>7. \A j \in 1 .. Len(q) : (b \o q)[j + 1] = q[j]
    <3> SUFFICES ASSUME NEW j \in 1 .. Len(q) PROVE (b \o q)[j + 1] = q[j]
      OBVIOUS
    <3>1. j + 1 \in 1 .. 1 + Len(q) /\ ~(j + 1 <= 1) /\ (j + 1) - 1 = j
      BY <2>2
    <3> QED BY <2>5, <3>1
  <2>8. Len(b \o q) = Len(q) + 1
    BY <2>2, <2>5
  <2> QED BY <2>3, <2>6, <2>7, <2>8 DEF q
<1> DEFINE st == [i \in 1 .. n + 1 |-> IF i = 1 THEN 1 ELSE at[i] + 1]
<1> HIDE DEF P, ss, text, n
<1>10. st \in [1 .. n + 1 -> Nat \ {0}]
  <2>1. \A i \in 1 .. n + 1 : at[i] \in Nat \ {0} /\ at[i] + 1 \in Nat \ {0}
    BY <1>7
  <2> QED BY <2>1
<1>11. st[1] = 1 /\ st[n + 1] = Len(text) + 2
  <2>1. 1 \in 1 .. n + 1 /\ n + 1 \in 1 .. n + 1 /\ n + 1 # 1
    BY <1>1
  <2>2. st[1] = 1 /\ st[n + 1] = at[n + 1] + 1
    BY <2>1
  <2> HIDE DEF st
  <2> QED BY <1>7, <1>8, <2>2
<1>12. \A i \in 1 .. n : st[i + 1] = at[i + 1] + 1 /\ (i = 1 => st[i] = at[i]) /\ (i # 1 => st[i] = at[i] + 1)
  <2>1. \A i \in 1 .. n : i \in 1 .. n + 1 /\ i + 1 \in 1 .. n + 1 /\ i + 1 # 1
    BY <1>1
  <2> QED BY <1>7, <2>1
<1> HIDE DEF st
<1>13. ASSUME NEW i \in 1 .. n
       PROVE  /\ st[i + 1] = st[i] + Len(P(i)) + 1
              /\ st[i] + Len(P(i)) <= Len(text) + 1
              /\ st[i] + Len(P(i)) = at[i + 1]
              /\ \A j \in 1 .. Len(P(i)) : text[st[i] + j - 1] = P(i)[j]
  <2> DEFINE l == Len(P(i))
             a == at[i]
             s == st[i]
  <2>1. l \in Nat \ {0} /\ a \in Nat \ {0}
    <3>1. i \in 1 .. n + 1
      BY <1>1
    <3> QED BY <1>5, <1>7, <3>1
  <2>2. at[i + 1] = a + Len(ss[i]) /\ a + Len(ss[i]) <= Len(text) + 1
        /\ \A j \in 1 .. Len(ss[i]) : text[a + j - 1] = ss[i][j]
    BY <1>7
  <2>3. CASE i = 1
    <3>1. ss[i] = P(i) /\ s = a
      BY <1>6, <1>12, <2>3
    <3>2. at[i + 1] = a + l /\ a + l <= Len(text) + 1
          /\ \A j \in 1 .. l : text[s + j - 1] = P(i)[j]
      BY <2>2, <3>1
    <3>3. st[i + 1] = at[i + 1] + 1
      BY <1>12
    <3> HIDE DEF l, a, s
    <3>4. st[i + 1] = s + l + 1 /\ s + l <= Len(text) + 1 /\ s + l = at[i + 1]
      BY <2>1, <3>1, <3>2, <3>3
    <3> QED BY <3>2, <3>4 DEF l, s
  <2>4. CASE i # 1
    <3>1. s = a + 1 /\ i > 1
      BY <1>12, <2>4
    <3>2. Len(ss[i]) = l + 1 /\ \A j \in 1 .. l : ss[i][j + 1] = P(i)[j]
      BY <1>9, <3>1
    <3>3. st[i + 1] = at[i + 1] + 1
      BY <1>12
    <3> HIDE DEF l, a, s
    <3>4. at[i + 1] = s + l /\ s + l <= Len(text) + 1 /\ st[i + 1] = s + l + 1
      <4>1. at[i + 1] = a + (l + 1) /\ a + (l + 1) <= Len(text) + 1
        BY <2>2, <3>2
      <4>2. (a + 1) + l = a + (l + 1)
        BY <2>1
      <4> QED BY <3>1, <3>3, <4>1, <4>2
    <3>5. \A j \in 1 .. l : text[s + j - 1] = P(i)[j]
      <4> SUFFICES ASSUME NEW j \in 1 .. l PROVE text[s + j - 1] = P(i)[j]
        OBVIOUS
      <4>1. j + 1 \in 1 .. Len(ss[i]) /\ s + j - 1 = a + (j + 1) - 1
        BY <2>1, <3>1, <3>2
      <4> QED BY <2>2, <3>2, <4>1
    <3> QED BY <3>4, <3>5 DEF l, s
  <2> QED BY <2>3, <2>4
<1>14. ASSUME NEW i \in 1 .. n, i < n
       PROVE  text[st[i] + Len(P(i))] = Bar
  <2>1. i + 1 \in 1 .. n /\ i + 1 > 1
    BY <1>1, <1>14
  <2>2. Len(ss[i + 1]) = Len(P(i + 1)) + 1 /\ ss[i + 1][1] = Bar
    BY <1>9, <2>1
  <2>3. 1 \in 1 .. Len(ss[i + 1])
    BY <1>5, <2>1, <2>2
  <2>4. text[at[i + 1] + 1 - 1] = Bar
    BY <1>7, <2>1, <2>2, <2>3
  <2>5. at[i + 1] + 1 - 1 = at[i + 1]
    <3>1. i + 1 \in 1 .. n + 1
      BY <1>1, <2>1
    <3>2. at[i + 1] \in Nat
      BY <1>7, <3>1
    <3> QED BY <3>2
  <2> QED BY <1>13, <2>4, <2>5
<1>15. Starts(text, labels, st)
  <2> SUFFICES /\ st \in [1 .. n + 1 -> Nat \ {0}]
               /\ st[1] = 1 /\ st[n + 1] = Len(text) + 2
               /\ \A i \in 1 .. n :
                     /\ st[i + 1] = st[i] + Len(P(i)) + 1
                     /\ st[i] + Len(P(i)) <= Len(text) + 1
                     /\ \A j \in 1 .. Len(P(i)) : text[st[i] + j - 1] = P(i)[j]
                     /\ i < n => text[st[i] + Len(P(i))] = Bar
    BY Zenon DEF Starts, n, P
  <2> QED BY <1>10, <1>11, <1>13, <1>14
<1> QED BY <1>3, <1>15 DEF text

(* What is read where a part begins: it, and where the next one begins.    *)
LEMMA ReadsPart ==
    ASSUME NEW text \in Seq(Nat), NEW labels \in Seq(Labels), NEW st, Starts(text, labels, st),
           NEW i \in 1 .. Len(labels)
    PROVE  /\ st[i] \in 1 .. Len(text)
           /\ LET rest == SubSeq(text, st[i], Len(text))
                  bar  == Position(rest, Bar)
              IN LabelOf(SubSeq(rest, 1, bar - 1)) = labels[i] /\ st[i] + bar = st[i + 1]
<1> DEFINE n == Len(labels)
           p == Part(labels[i])
           l == Len(p)
           a == st[i]
           m == Len(text)
           rest == SubSeq(text, a, m)
           r    == Len(rest)
<1>1. n \in Nat /\ labels[i] \in Labels /\ i \in 1 .. n + 1 /\ m \in Nat
  OBVIOUS
<1>2. /\ p \in Seq(Nat) /\ l \in Nat \ {0} /\ LabelOf(p) = labels[i]
      /\ \A j \in 1 .. l : p[j] # Bar
  <2>1. Parts(labels[i])
    BY <1>1, PartIs
  <2> QED BY <2>1, Zenon DEF Parts
<1>3. /\ a \in Nat \ {0} /\ st[i + 1] = a + l + 1 /\ a + l <= m + 1
      /\ \A j \in 1 .. l : text[a + j - 1] = p[j]
      /\ i < n => text[a + l] = Bar
      /\ i = n => st[i + 1] = m + 2
  BY <1>1 DEF Starts
<1> HIDE DEF a, l, m, n
<1>4. a \in 1 .. m
  BY <1>1, <1>2, <1>3
<1>5. rest \in Seq(Nat) /\ r = m - a + 1 /\ \A j \in 1 .. m - a + 1 : rest[j] = text[a + j - 1]
  <2>1. \A x \in a .. m : text[x] \in Nat
    <3>1. \A x \in a .. m : x \in 1 .. m
      BY <1>1, <1>3
    <3>2. \A x \in 1 .. m : text[x] \in Nat
      BY DEF m
    <3> QED BY <3>1, <3>2
  <2>2. a \in Int /\ m \in Int /\ a <= m
    BY <1>1, <1>4
  <2>3. /\ SubSeq(text, a, m) \in Seq(Nat)
        /\ Len(SubSeq(text, a, m)) = IF a <= m THEN m - a + 1 ELSE 0
        /\ \A j \in 1 .. m - a + 1 : SubSeq(text, a, m)[j] = text[a + j - 1]
    BY <2>1, <2>2, SubSeqProperties
  <2> QED BY <2>2, <2>3
<1> HIDE DEF rest, r
<1>6. l \in 0 .. r /\ 1 .. l \subseteq 1 .. m - a + 1 /\ r \in Nat
  BY <1>1, <1>2, <1>3, <1>4, <1>5
<1>7. \A j \in 1 .. l : rest[j] = p[j]
  BY <1>3, <1>5, <1>6
<1>8. l = r \/ rest[l + 1] = Bar
  <2>1. CASE i = n
    BY <1>1, <1>2, <1>3, <1>4, <1>5, <2>1
  <2>2. CASE i # n
    <3>1. i < n
      BY <1>1, <2>2 DEF n
    <3>2. CASE l # r
      <4>1. l + 1 \in 1 .. m - a + 1 /\ a + (l + 1) - 1 = a + l
        BY <1>1, <1>2, <1>3, <1>5, <1>6, <3>2
      <4> QED BY <1>3, <1>5, <3>1, <4>1
    <3> QED BY <3>2
  <2> QED BY <2>1, <2>2
<1>9. Position(rest, Bar) = l + 1
  <2>1. \A j \in 1 .. l : rest[j] # Bar
    BY <1>2, <1>7
  <2>2. l \in 0 .. Len(rest) /\ (l = Len(rest) \/ rest[l + 1] = Bar)
    BY <1>6, <1>8 DEF r
  <2> QED BY <1>5, <2>1, <2>2, PositionIs, Zenon
<1>10. SubSeq(rest, 1, l) = p
  <2> DEFINE u == SubSeq(rest, 1, l)
  <2>1. \A j \in 1 .. l : rest[j] \in Nat
    BY <1>2, <1>7 DEF l
  <2>2. /\ SubSeq(rest, 1, l) \in Seq(Nat)
        /\ Len(SubSeq(rest, 1, l)) = IF 1 <= l THEN l - 1 + 1 ELSE 0
        /\ \A j \in 1 .. l - 1 + 1 : SubSeq(rest, 1, l)[j] = rest[1 + j - 1]
    BY <1>2, <2>1, SubSeqProperties
  <2>3. l - 1 + 1 = l /\ 1 <= l /\ \A j \in 1 .. l : 1 + j - 1 = j
    BY <1>2
  <2>4. u \in Seq(Nat) /\ Len(u) = l /\ \A j \in 1 .. l : u[j] = rest[j]
    BY <2>2, <2>3
  <2> HIDE DEF u
  <2>5. Len(u) = Len(p) /\ \A j \in 1 .. Len(u) : u[j] = p[j]
    BY <1>7, <2>4 DEF l
  <2>6. u = p
    BY <1>2, <2>4, <2>5, SeqEqual
  <2> QED BY <2>6 DEF u
<1>11. Position(rest, Bar) - 1 = l /\ a + Position(rest, Bar) = st[i + 1]
  BY <1>2, <1>3, <1>9
<1>12. LabelOf(SubSeq(rest, 1, Position(rest, Bar) - 1)) = labels[i]
  BY <1>2, <1>10, <1>11
<1> QED BY <1>4, <1>11, <1>12 DEF rest, a, m

(* DecodeLabels as a recursion over places.                                *)
RestAt(text, i) == SubSeq(text, i, Len(text))
LabelAt(text, i) == LabelOf(SubSeq(RestAt(text, i), 1, Position(RestAt(text, i), Bar) - 1))
BarAt(text, i) == i + Position(RestAt(text, i), Bar)

Decodes(text, f) ==
    /\ f[1] = DecodeLabels(text)
    /\ \A i \in 1 .. Len(text) + 2 :
          f[i] = IF i > Len(text) THEN <<>> ELSE <<LabelAt(text, i)>> \o f[BarAt(text, i)]

LEMMA OneElement ==
    ASSUME NEW T, NEW x \in T
    PROVE  <<x>> \in Seq(T)
OBVIOUS

LEMMA DecodeIs ==
    ASSUME NEW text \in Seq(Nat)
    PROVE  \E f : Decodes(text, f)
<1> DEFINE n == Len(text) + 2
           T == {LabelAt(text, i) : i \in 1 .. n}
           S == Seq(T)
           Of(g) == [i \in 1 .. n |->
                        IF i > Len(text) THEN <<>> ELSE <<LabelAt(text, i)>> \o g[BarAt(text, i)]]
           h == CHOOSE g : g = Of(g)
           stop == {i \in 1 .. n : i > Len(text)}
           base == [i \in 1 .. n |-> <<>>]
           jump == [i \in 1 .. n |-> BarAt(text, i)]
           step == [i \in 1 .. n |-> [x \in S |-> <<LabelAt(text, i)>> \o x]]
<1>1. DecodeLabels(text) = h[1]
  BY Zenon DEF DecodeLabels, LabelAt, RestAt, BarAt, LabelOf
<1>2. Len(text) \in Nat /\ n \in Nat /\ 1 \in 1 .. n /\ \A i \in 1 .. Len(text) : text[i] \in Nat
  OBVIOUS
<1>3. \A i \in 1 .. n : i \notin stop => i \in 1 .. Len(text)
  BY <1>2
<1>5. \A i \in 1 .. n : i \notin stop => jump[i] \in (i + 1) .. n
  <2> SUFFICES ASSUME NEW i \in 1 .. n, i \notin stop PROVE jump[i] \in (i + 1) .. n
    OBVIOUS
  <2> DEFINE r == RestAt(text, i)
             m == Len(text)
  <2>1. i \in 1 .. m
    BY <1>3
  <2>2. r \in Seq(Nat) /\ Len(r) = m - i + 1
    <3>1. \A x \in i .. m : text[x] \in Nat
      <4>1. \A x \in i .. m : x \in 1 .. m
        BY <1>2, <2>1
      <4> QED BY <1>2, <4>1
    <3>2. i \in Int /\ m \in Int /\ i <= m
      BY <1>2, <2>1
    <3> HIDE DEF m
    <3>3. /\ SubSeq(text, i, m) \in Seq(Nat)
          /\ Len(SubSeq(text, i, m)) = IF i <= m THEN m - i + 1 ELSE 0
      BY <3>1, <3>2, SubSeqProperties
    <3> QED BY <3>2, <3>3 DEF RestAt, m
  <2>3. Position(r, Bar) \in 1 .. Len(r) + 1
    BY <2>2, PositionType
  <2>4. jump[i] = i + Position(r, Bar)
    BY DEF BarAt
  <2> HIDE DEF r, jump
  <2> QED BY <1>2, <2>1, <2>2, <2>3, <2>4
<1>6. \A i \in 1 .. n, x \in S : step[i][x] \in S
  <2> SUFFICES ASSUME NEW i \in 1 .. n, NEW x \in S PROVE step[i][x] \in S
    OBVIOUS
  <2>1. LabelAt(text, i) \in T
    OBVIOUS
  <2> HIDE DEF T
  <2>2. <<LabelAt(text, i)>> \in S
    BY <2>1, OneElement
  <2>3. <<LabelAt(text, i)>> \o x \in S
    BY <2>2, ConcatProperties
  <2> QED BY <2>3
<1>7. Jumps(n, S, stop, base, jump, step)
  <2>1. \A i \in 1 .. n : i \in stop => base[i] \in S
    <3> HIDE DEF T
    <3>1. <<>> \in S
      OBVIOUS
    <3> QED BY <3>1
  <2> HIDE DEF n, S, stop, base, jump, step
  <2> QED BY <1>5, <1>6, <2>1, Zenon DEF Jumps
<1>8. PICK f \in [1..n -> S] : Follows(f, n, stop, base, jump, step)
  <2> HIDE DEF n, S, stop, base, jump, step
  <2> QED BY <1>2, <1>7, JumpRecursion
<1> HIDE DEF T
<1>9. ASSUME NEW i \in 1 .. n
      PROVE  f[i] = IF i > Len(text) THEN <<>> ELSE <<LabelAt(text, i)>> \o f[BarAt(text, i)]
  <2>1. f[i] = IF i \in stop THEN base[i] ELSE step[i][f[jump[i]]]
    <3> HIDE DEF n, S, stop, base, jump, step
    <3> QED BY <1>8 DEF Follows
  <2>2. i \in stop <=> i > Len(text)
    OBVIOUS
  <2>3. base[i] = <<>>
    OBVIOUS
  <2>4. i \notin stop => step[i][f[jump[i]]] = <<LabelAt(text, i)>> \o f[BarAt(text, i)]
    <3> SUFFICES ASSUME i \notin stop PROVE step[i][f[jump[i]]] = <<LabelAt(text, i)>> \o f[BarAt(text, i)]
      OBVIOUS
    <3>1. jump[i] \in 1 .. n /\ jump[i] = BarAt(text, i)
      BY <1>2, <1>5
    <3>2. f[jump[i]] \in S
      BY <1>8, <3>1
    <3>3. \A x \in S : step[i][x] = <<LabelAt(text, i)>> \o x
      OBVIOUS
    <3> HIDE DEF n, S, stop, base, jump, step
    <3> QED BY <3>1, <3>2, <3>3
  <2> HIDE DEF n, S, stop, base, jump, step
  <2> QED BY <2>1, <2>2, <2>3, <2>4
<1>10. f = Of(f)
  <2>1. \A i \in 1 .. n : f[i] = Of(f)[i]
    BY <1>9
  <2>2. f = [i \in 1 .. n |-> f[i]]
    BY <1>8
  <2>3. Of(f) = [i \in 1 .. n |-> Of(f)[i]]
    BY Zenon
  <2> HIDE DEF Of
  <2> QED BY <2>1, <2>2, <2>3
<1>11. h = Of(h)
  <2> HIDE DEF Of
  <2> QED BY <1>10
<1>12. \A i \in 1 .. n :
         h[i] = IF i > Len(text) THEN <<>> ELSE <<LabelAt(text, i)>> \o h[BarAt(text, i)]
  <2> SUFFICES ASSUME NEW i \in 1 .. n
               PROVE  h[i] = IF i > Len(text) THEN <<>> ELSE <<LabelAt(text, i)>> \o h[BarAt(text, i)]
    OBVIOUS
  <2>1. Of(h)[i] = IF i > Len(text) THEN <<>> ELSE <<LabelAt(text, i)>> \o h[BarAt(text, i)]
    <3> HIDE DEF h
    <3> QED BY Zenon
  <2>2. h[i] = Of(h)[i]
    <3> HIDE DEF h, Of
    <3> QED BY <1>11, Zenon
  <2> HIDE DEF h, Of
  <2> QED BY <2>1, <2>2
<1> HIDE DEF h
<1>13. Decodes(text, h)
  BY <1>1, <1>12, Zenon DEF Decodes
<1> QED BY <1>13

LEMMA DecodesEncoded ==
    ASSUME NEW labels \in Seq(Labels)
    PROVE  EncodeLabels(labels) \in Seq(Nat) /\ DecodeLabels(EncodeLabels(labels)) = labels
<1> DEFINE n    == Len(labels)
           text == EncodeLabels(labels)
<1>1. n \in Nat
  OBVIOUS
<1>2. CASE n = 0
  <2>1. labels = <<>>
    BY <1>2
  <2>2. Pieces(labels) = <<>> /\ text = FlattenSeq(Pieces(labels))
    <3>1. Len(Pieces(labels)) = 0 /\ Pieces(labels) \in Seq(Seq(Nat))
      BY <1>2, PiecesType
    <3> QED BY <3>1, PiecesType
  <2>3. text = <<>>
    BY <2>2 DEF FlattenSeq
  <2>4. <<>> \in Seq(Nat) /\ Len(<<>>) = 0
    OBVIOUS
  <2>5. PICK f : Decodes(<<>>, f)
    BY <2>4, DecodeIs
  <2>6. f[1] = <<>>
    <3>1. 1 \in 1 .. Len(<<>>) + 2 /\ 1 > Len(<<>>)
      BY <2>4
    <3> QED BY <2>5, <3>1 DEF Decodes
  <2>7. f[1] = DecodeLabels(<<>>)
    BY <2>5, Zenon DEF Decodes
  <2> HIDE DEF text
  <2> QED BY <2>1, <2>3, <2>4, <2>6, <2>7 DEF text
<1>3. CASE n # 0
  <2>1. text \in Seq(Nat)
    BY <1>3, StartsExist
  <2>2. PICK st : Starts(text, labels, st)
    BY <1>3, StartsExist
  <2> HIDE DEF text
  <2>3. PICK f : Decodes(text, f)
    BY <2>1, DecodeIs
  <2>4. Len(text) \in Nat /\ st[1] = 1 /\ st[n + 1] = Len(text) + 2
    BY <2>1, <2>2 DEF Starts
  <2>5. ASSUME NEW k \in 1 .. n
        PROVE  f[st[k]] = <<labels[k]>> \o f[st[k + 1]]
    <3>1. st[k] \in 1 .. Len(text)
          /\ LET rest == SubSeq(text, st[k], Len(text))
                 bar  == Position(rest, Bar)
             IN LabelOf(SubSeq(rest, 1, bar - 1)) = labels[k] /\ st[k] + bar = st[k + 1]
      BY <2>1, <2>2, ReadsPart
    <3>2. LabelAt(text, st[k]) = labels[k] /\ BarAt(text, st[k]) = st[k + 1]
      BY <3>1, Zenon DEF LabelAt, BarAt, RestAt
    <3>3. st[k] \in 1 .. Len(text) + 2 /\ ~(st[k] > Len(text))
      BY <2>4, <3>1
    <3>4. f[st[k]] = <<LabelAt(text, st[k])>> \o f[BarAt(text, st[k])]
      BY <2>3, <3>3 DEF Decodes
    <3> QED BY <3>2, <3>4
  <2>6. f[st[n + 1]] = <<>>
    <3>1. st[n + 1] \in 1 .. Len(text) + 2 /\ st[n + 1] > Len(text)
      BY <2>4
    <3> QED BY <2>3, <3>1 DEF Decodes
  <2> DEFINE Bad == {k \in 1 .. n + 1 : f[st[k]] # SubSeq(labels, k, n)}
  <2>7. Bad = {}
    <3> SUFFICES ASSUME Bad # {} PROVE FALSE
      OBVIOUS
    <3>1. Bad \in Indices
      <4>1. 1 .. n + 1 \in Indices
        BY <1>1, IntervalIndices
      <4> QED BY <4>1, SubsetIndices
    <3>2. PICK m \in Bad : \A y \in Bad : y <= m
      <4> HIDE DEF Bad
      <4> QED BY <3>1, MaxIsGreatest
    <3>3. m \in 1 .. n + 1 /\ f[st[m]] # SubSeq(labels, m, n)
      BY <3>2
    <3>4. m # n + 1
      <4>1. SubSeq(labels, n + 1, n) = <<>>
        BY <1>1, SubSeqEmpty
      <4> QED BY <2>6, <3>3, <4>1
    <3>5. m \in 1 .. n /\ m + 1 \in 1 .. n + 1 /\ ~(m + 1 <= m)
      BY <1>1, <3>3, <3>4
    <3>6. m + 1 \notin Bad
      BY <3>2, <3>5
    <3>7. f[st[m + 1]] = SubSeq(labels, m + 1, n)
      BY <3>5, <3>6
    <3>8. SubSeq(labels, m, n) = <<labels[m]>> \o SubSeq(labels, m + 1, n)
      <4>1. n \in m .. Len(labels) /\ m \in 1 .. Len(labels)
        BY <1>1, <3>5
      <4> HIDE DEF n
      <4> QED BY <4>1, SubSeqRecursiveFirst, Zenon
    <3> HIDE DEF n, Bad
    <3> QED BY <2>5, <3>3, <3>5, <3>7, <3>8
  <2>8. f[st[1]] = SubSeq(labels, 1, n)
    <3>1. 1 \in 1 .. n + 1
      BY <1>1
    <3> QED BY <2>7, <3>1
  <2>9. SubSeq(labels, 1, n) = labels
    BY SubSeqFull
  <2>10. f[1] = DecodeLabels(text)
    BY <2>3, Zenon DEF Decodes
  <2> QED BY <2>1, <2>4, <2>8, <2>9, <2>10 DEF text
<1> QED BY <1>2, <1>3

-----------------------------------------------------------------------------
(* Numbers of two digits and the order of keys.                            *)

LEMMA TimesMore ==
    ASSUME NEW b \in Nat, NEW x \in Nat, NEW y \in Nat, x < y
    PROVE  b * x + b <= b * y
<1>1. PICK d \in Nat : y = x + 1 + d
  <2>1. y - x - 1 \in Nat /\ y = x + 1 + (y - x - 1)
    OBVIOUS
  <2> QED BY <2>1
<1>2. b * (x + 1 + d) = b * x + b + b * d
  OBVIOUS
<1>3. b * x \in Nat /\ b * d \in Nat
  OBVIOUS
<1> QED BY <1>1, <1>2, <1>3

LEMMA BelowDivisor ==
    ASSUME NEW w \in Nat \ {0}, NEW x \in 0 .. w - 1
    PROVE  x % w = x
<1> DEFINE q == x \div w
           r == x % w
<1>1. q \in Nat /\ r \in 0 .. w - 1 /\ x = w * q + r
  <2>1. x \in Nat
    OBVIOUS
  <2> QED BY <2>1, Division
<1> HIDE DEF q, r
<1>2. q = 0
  <2> SUFFICES ASSUME q # 0 PROVE FALSE
    OBVIOUS
  <2>1. w * 0 + w <= w * q
    BY <1>1, TimesMore
  <2> QED BY <1>1, <2>1
<1>3. w * q = 0
  BY <1>2
<1>4. x = r
  BY <1>1, <1>3
<1> QED BY <1>4 DEF r

LEMMA HalfWide ==
    /\ Base \in Nat \ {0} /\ Wide \in Nat \ {0}
    /\ Wide \div 2 \in Nat /\ Wide = 2 * (Wide \div 2)
<1>1. Base \in Nat \ {0} /\ Base % 2 = 0
  BY LogCodecAssumption
<1> DEFINE h == Base \div 2
<1>2. h \in Nat /\ Base = 2 * h
  <2>1. h \in Nat /\ Base = 2 * h + (Base % 2)
    BY <1>1, Division
  <2> HIDE DEF h
  <2> QED BY <1>1, <2>1
<1> HIDE DEF h
<1>3. Wide = 2 * (h * Base) /\ h * Base \in Nat /\ Wide \in Nat \ {0}
  <2>1. Wide = (2 * h) * Base
    BY <1>2 DEF Wide
  <2>2. (2 * h) * Base = 2 * (h * Base)
    BY <1>1, <1>2
  <2>3. Base * Base \in Nat \ {0}
    BY <1>1
  <2>4. h * Base \in Nat
    BY <1>1, <1>2
  <2> QED BY <2>1, <2>2, <2>3, <2>4 DEF Wide
<1> DEFINE x == h * Base
           w == Wide
<1> HIDE DEF x, w
<1>4. w \div 2 = x
  <2>1. w = 2 * x /\ x \in Nat
    BY <1>3 DEF x, w
  <2> QED BY <2>1
<1> QED BY <1>1, <1>3, <1>4 DEF x, w

LEMMA OrderedIs ==
    ASSUME NEW v \in -(Wide \div 2) .. Wide \div 2 - 1
    PROVE  Ordered(v) = v + Wide \div 2 /\ Ordered(v) \in 0 .. Wide - 1 /\ Unordered(Ordered(v)) = v
<1> DEFINE h == Wide \div 2
           x == v + h
<1>1. h \in Nat /\ Wide = 2 * h /\ Wide \in Nat \ {0}
  BY HalfWide
<1> HIDE DEF h
<1>2. v \in -h .. h - 1
  BY DEF h
<1>3. v \in Int /\ x \in 0 .. Wide - 1
  BY <1>1, <1>2
<1>4. Ordered(v) = x % Wide
  BY DEF Ordered, h
<1> HIDE DEF x
<1>5. Ordered(v) = x
  BY <1>1, <1>3, <1>4, BelowDivisor
<1>6. Unordered(x) = x - h
  BY DEF Unordered, h
<1>7. x - h = v
  BY <1>1, <1>3 DEF x
<1> QED BY <1>3, <1>5, <1>6, <1>7 DEF x, h

(* UnixNano gives an int64 whatever the time, and the time if it is one.   *)
LEMMA NanosecondsAre ==
    ASSUME NEW time \in Int
    PROVE  /\ UnixNano(time) \in -(Wide \div 2) .. Wide \div 2 - 1
           /\ time \in Nanoseconds => UnixNano(time) = time
<1> DEFINE h == Wide \div 2
           x == (time + h) % Wide
<1>1. h \in Nat /\ Wide = 2 * h /\ Wide \in Nat \ {0}
  BY HalfWide
<1>2. UnixNano(time) = x - h
  BY DEF UnixNano
<1>3. x \in 0 .. Wide - 1
  <2> DEFINE y == time + h
             w == Wide
  <2>1. y \in Int
    BY <1>1
  <2> HIDE DEF h, y, w
  <2>2. y % w \in 0 .. w - 1
    BY <1>1, <2>1 DEF w
  <2> QED BY <2>2 DEF y, w
<1>4. ASSUME time \in Nanoseconds PROVE UnixNano(time) = time
  <2>1. time \in -(Wide \div 2) .. Wide \div 2 - 1
    BY <1>4 DEF Nanoseconds
  <2>2. UnixNano(time) = Unordered(Ordered(time))
    BY Zenon DEF UnixNano, Unordered, Ordered
  <2> QED BY <2>1, <2>2, OrderedIs
<1>5. UnixNano(time) \in -h .. h - 1
  <2> HIDE DEF h, x
  <2> QED BY <1>1, <1>2, <1>3
<1> QED BY <1>4, <1>5

TwoDigits(n, q, r) ==
    /\ Digits(n) \in Seq(Nat) /\ Len(Digits(n)) = 2
    /\ Digits(n)[1] = q /\ Digits(n)[2] = r
    /\ Value(Digits(n)) = n
    /\ q \in Nat /\ r \in 0 .. Base - 1 /\ r \in Nat
    /\ n = Base * q + r

LEMMA DigitsAre ==
    ASSUME NEW n \in Nat
    PROVE  TwoDigits(n, n \div Base, n % Base)
<1> DEFINE q == n \div Base
           r == n % Base
           d == <<q, r>>
<1>1. Base \in Nat \ {0}
  BY HalfWide
<1>2. q \in Nat /\ r \in 0 .. Base - 1 /\ n = Base * q + r
  BY <1>1, Division
<1>3. Digits(n) = d
  BY Zenon DEF Digits
<1> HIDE DEF q, r
<1>4. r \in Nat
  BY <1>1, <1>2
<1>5. d \in Seq(Nat) /\ Len(d) = 2 /\ d[1] = q /\ d[2] = r
  BY <1>2, <1>4
<1> HIDE DEF d
<1>6. Value(d) = q * Base + r
  BY <1>5, Zenon DEF Value
<1>7. q * Base + r = Base * q + r
  BY <1>1, <1>2, <1>4
<1>8. TwoDigits(n, q, r)
  BY <1>2, <1>3, <1>4, <1>5, <1>6, <1>7 DEF TwoDigits
<1> QED BY <1>8, Zenon DEF q, r

(* Numbers are ordered as their digits are.                                *)
LEMMA DigitsOrdered ==
    ASSUME NEW m \in Nat, NEW n \in Nat
    PROVE  m < n <=> \/ m \div Base < n \div Base
                     \/ m \div Base = n \div Base /\ m % Base < n % Base
<1> DEFINE a == m \div Base
           b == m % Base
           c == n \div Base
           d == n % Base
<1>1. Base \in Nat \ {0}
  BY HalfWide
<1>20. TwoDigits(m, a, b) /\ TwoDigits(n, c, d)
  BY DigitsAre, Zenon
<1> HIDE DEF a, b, c, d
<1>2. a \in Nat /\ b \in 0 .. Base - 1 /\ m = Base * a + b
  BY <1>20, Zenon DEF TwoDigits
<1>3. c \in Nat /\ d \in 0 .. Base - 1 /\ n = Base * c + d
  BY <1>20, Zenon DEF TwoDigits
<1> DEFINE x == Base * a
           y == Base * c
<1>4. x \in Nat /\ y \in Nat
  BY <1>1, <1>2, <1>3
<1>5. a < c => x + Base <= y
  BY <1>1, <1>2, <1>3, TimesMore
<1>6. c < a => y + Base <= x
  BY <1>1, <1>2, <1>3, TimesMore
<1>7. a = c => x = y
  OBVIOUS
<1>8. m = x + b /\ n = y + d
  BY <1>2, <1>3
<1> HIDE DEF x, y
<1>9. m < n <=> a < c \/ (a = c /\ b < d)
  <2>1. CASE a < c
    BY <1>1, <1>2, <1>3, <1>4, <1>5, <1>8, <2>1
  <2>2. CASE c < a
    BY <1>1, <1>2, <1>3, <1>4, <1>6, <1>8, <2>2
  <2>3. CASE a = c
    BY <1>1, <1>2, <1>3, <1>4, <1>7, <1>8, <2>3
  <2> QED BY <1>2, <1>3, <2>1, <2>2, <2>3
<1> QED BY <1>9 DEF a, b, c, d

(* A key that begins with the digits of m comes before the digits of n     *)
(* exactly if m < n.                                                       *)
LEMMA PrefixBefore ==
    ASSUME NEW m \in Nat, NEW n \in Nat, NEW key \in Seq(Nat), Len(key) >= 2,
           key[1] = Digits(m)[1], key[2] = Digits(m)[2]
    PROVE  Precedes(key, Digits(n)) <=> m < n
<1> DEFINE e == Digits(n)
           a == m \div Base
           b == m % Base
           c == n \div Base
           d == n % Base
<1>20. TwoDigits(m, a, b) /\ TwoDigits(n, c, d)
  BY DigitsAre, Zenon
<1>3. m < n <=> a < c \/ (a = c /\ b < d)
  BY DigitsOrdered
<1>5. Len(key) \in Nat
  OBVIOUS
<1> HIDE DEF a, b, c, d
<1>1. e \in Seq(Nat) /\ Len(e) = 2 /\ e[1] = c /\ e[2] = d /\ c \in Nat /\ d \in Nat
  BY <1>20, Zenon DEF TwoDigits
<1>2. key[1] = a /\ key[2] = b /\ a \in Nat /\ b \in Nat
  BY <1>20, Zenon DEF TwoDigits
<1>4. Precedes(key, e) <=> \E k \in Nat : ParentAt(key, e, k)
  BY <1>1, PrecedesIs
<1> HIDE DEF e
<1>6. ASSUME NEW k \in Nat, ParentAt(key, e, k)
      PROVE  a < c \/ (a = c /\ b < d)
  <2>1. k < 2 /\ k < Len(key) /\ (\A i \in 1 .. k : key[i] = e[i]) /\ key[k + 1] < e[k + 1]
    BY <1>1, <1>5, <1>6 DEF ParentAt
  <2>2. CASE k = 0
    BY <1>1, <1>2, <2>1, <2>2
  <2>3. CASE k = 1
    <3>1. 1 \in 1 .. k
      BY <2>3
    <3>2. key[1] = e[1] /\ key[1 + 1] < e[1 + 1]
      BY <2>1, <2>3, <3>1
    <3> QED BY <1>1, <1>2, <3>2
  <2> QED BY <2>1, <2>2, <2>3
<1>7. ASSUME a < c PROVE ParentAt(key, e, 0)
  BY <1>1, <1>2, <1>5, <1>7 DEF ParentAt
<1>8. ASSUME a = c, b < d PROVE ParentAt(key, e, 1)
  <2>1. 1 \in 0 .. Len(key) /\ 1 < Len(e) /\ 1 < Len(key)
    BY <1>1, <1>5
  <2>2. \A i \in 1 .. 1 : key[i] = e[i]
    BY <1>1, <1>2, <1>8
  <2>3. key[1 + 1] < e[1 + 1]
    BY <1>1, <1>2, <1>8
  <2> QED BY <2>1, <2>2, <2>3 DEF ParentAt
<1>9. 0 \in Nat /\ 1 \in Nat
  OBVIOUS
<1> QED BY <1>3, <1>4, <1>6, <1>7, <1>8, <1>9 DEF e

KeyMade(key, time, labels, number) ==
    /\ key \in Seq(Nat) /\ Len(key) = Len(EncodeLabels(NormalizeLabels(labels))) + 5
    /\ SubSeq(key, 1, 2) = TimePrefix(time)
    /\ SubSeq(key, 3, Len(key) - 3) = EncodeLabels(NormalizeLabels(labels))
    /\ SubSeq(key, Len(key) - 1, Len(key)) = Digits(number)
    /\ key[1] = TimePrefix(time)[1] /\ key[2] = TimePrefix(time)[2]

MadeOf(key, a, b, d) ==
    /\ key \in Seq(Nat) /\ Len(key) = Len(b) + 5
    /\ SubSeq(key, 1, 2) = a
    /\ SubSeq(key, 3, Len(key) - 3) = b
    /\ SubSeq(key, Len(key) - 1, Len(key)) = d
    /\ key[1] = a[1] /\ key[2] = a[2]

(* Three pieces and a byte between the last two.                           *)
LEMMA FourPieces ==
    ASSUME NEW a \in Seq(Nat), NEW b \in Seq(Nat), NEW c \in Seq(Nat), NEW d \in Seq(Nat),
           Len(a) = 2, Len(c) = 1, Len(d) = 2
    PROVE  MadeOf(((a \o b) \o c) \o d, a, b, d)
<1> DEFINE x == a \o b
           y == x \o c
           key == y \o d
           n == Len(b)
<1>1. n \in Nat
  OBVIOUS
<1>2. /\ x \in Seq(Nat) /\ Len(x) = n + 2
      /\ \A i \in 1 .. 2 + n : x[i] = IF i <= 2 THEN a[i] ELSE b[i - 2]
  <2>1. Joined(a, b)
    BY JoinedIs
  <2> QED BY <1>1, <2>1 DEF Joined
<1> HIDE DEF x
<1>3. /\ y \in Seq(Nat) /\ Len(y) = n + 3
      /\ \A i \in 1 .. n + 2 : y[i] = x[i]
  <2>1. Joined(x, c)
    BY <1>2, JoinedIs
  <2> QED BY <1>1, <1>2, <2>1 DEF Joined
<1> HIDE DEF y
<1>4. /\ key \in Seq(Nat) /\ Len(key) = n + 5
      /\ \A i \in 1 .. n + 5 : key[i] = IF i <= n + 3 THEN y[i] ELSE d[i - (n + 3)]
  <2>1. Joined(y, d)
    BY <1>3, JoinedIs
  <2>2. \A i \in 1 .. (n + 3) + 2 : key[i] = IF i <= n + 3 THEN y[i] ELSE d[i - (n + 3)]
    BY <1>3, <2>1 DEF Joined
  <2>3. key \in Seq(Nat) /\ Len(key) = (n + 3) + 2
    BY <1>3, <2>1 DEF Joined
  <2>4. (n + 3) + 2 = n + 5
    BY <1>1
  <2> HIDE DEF key, n
  <2> QED BY <2>2, <2>3, <2>4
<1> HIDE DEF key
<1>5. \A i \in 1 .. 2 : key[i] = a[i]
  <2>1. \A i \in 1 .. 2 : i \in 1 .. 2 + n /\ i \in 1 .. n + 2 /\ i \in 1 .. n + 5 /\ i <= n + 3 /\ i <= 2
    BY <1>1
  <2> HIDE DEF n
  <2> QED BY <1>2, <1>3, <1>4, <2>1
<1>6. \A i \in 1 .. n : key[i + 2] = b[i]
  <2> SUFFICES ASSUME NEW i \in 1 .. n PROVE key[i + 2] = b[i]
    OBVIOUS
  <2> DEFINE j == i + 2
  <2>1. /\ j \in 1 .. 2 + n /\ j \in 1 .. n + 2 /\ j \in 1 .. n + 5 /\ j <= n + 3 /\ ~(j <= 2)
        /\ j - 2 = i
    BY <1>1
  <2> HIDE DEF n, j
  <2>2. key[j] = b[i]
    BY <1>2, <1>3, <1>4, <2>1
  <2> QED BY <2>2 DEF j
<1>7. \A i \in 1 .. 2 : key[i + (n + 3)] = d[i]
  <2> SUFFICES ASSUME NEW i \in 1 .. 2 PROVE key[i + (n + 3)] = d[i]
    OBVIOUS
  <2> DEFINE j == i + (n + 3)
  <2>1. j \in 1 .. n + 5 /\ ~(j <= n + 3) /\ j - (n + 3) = i
    BY <1>1
  <2> HIDE DEF n, j
  <2>2. key[j] = d[i]
    BY <1>4, <2>1
  <2> QED BY <2>2 DEF j
<1>8. ASSUME NEW s \in Seq(Nat), NEW from \in Nat \ {0}, NEW to \in Int, to = from + Len(s) - 1,
             to <= Len(key), \A i \in 1 .. Len(s) : key[from + i - 1] = s[i]
      PROVE  SubSeq(key, from, to) = s
  <2> DEFINE u == SubSeq(key, from, to)
             l == Len(s)
  <2>0. l \in Nat
    OBVIOUS
  <2>1. \A i \in from .. to : key[i] \in Nat
    <3>1. \A i \in from .. to : i \in 1 .. Len(key)
      BY <1>1, <1>4, <1>8
    <3>2. \A i \in 1 .. Len(key) : key[i] \in Nat
      <4>1. key \in Seq(Nat)
        BY <1>4
      <4> QED BY <4>1, ElementOfSeq
    <3> QED BY <3>1, <3>2
  <2>2. to - from + 1 = l /\ (from <= to <=> l # 0)
    BY <1>8, <2>0
  <2>3. /\ u \in Seq(Nat)
        /\ Len(u) = IF from <= to THEN to - from + 1 ELSE 0
        /\ \A i \in 1 .. to - from + 1 : u[i] = key[from + i - 1]
    BY <2>1, SubSeqProperties
  <2> HIDE DEF u, l
  <2>4. Len(u) = l /\ \A i \in 1 .. l : u[i] = key[from + i - 1]
    BY <2>0, <2>2, <2>3
  <2>5. \A i \in 1 .. Len(u) : u[i] = s[i]
    BY <1>8, <2>4 DEF l
  <2>6. u = s
    BY <2>3, <2>4, <2>5, SeqEqual DEF l
  <2> QED BY <2>6 DEF u
<1>9. SubSeq(key, 1, 2) = a
  <2>1. \A i \in 1 .. 2 : 1 + i - 1 = i
    OBVIOUS
  <2>2. \A i \in 1 .. Len(a) : key[1 + i - 1] = a[i]
    BY <1>5, <2>1
  <2>3. 2 = 1 + Len(a) - 1 /\ 2 <= Len(key)
    BY <1>1, <1>4
  <2> QED BY <1>8, <2>2, <2>3
<1>10. SubSeq(key, 3, Len(key) - 3) = b
  <2>1. \A i \in 1 .. n : 3 + i - 1 = i + 2
    BY <1>1
  <2>2. \A i \in 1 .. n : key[3 + i - 1] = b[i]
    BY <1>6, <2>1
  <2>3. Len(key) - 3 = 3 + n - 1 /\ Len(key) - 3 <= Len(key) /\ Len(key) - 3 \in Int
    BY <1>1, <1>4
  <2> QED BY <1>8, <2>2, <2>3
<1>11. SubSeq(key, Len(key) - 1, Len(key)) = d
  <2>1. \A i \in 1 .. 2 : (Len(key) - 1) + i - 1 = i + (n + 3)
    BY <1>1, <1>4
  <2>2. \A i \in 1 .. Len(d) : key[(Len(key) - 1) + i - 1] = d[i]
    BY <1>7, <2>1
  <2>3. /\ Len(key) - 1 \in Nat \ {0} /\ Len(key) \in Int
        /\ Len(key) = (Len(key) - 1) + Len(d) - 1 /\ Len(key) <= Len(key)
    BY <1>1, <1>4
  <2> QED BY <1>8, <2>2, <2>3
<1>12. Len(key) = Len(b) + 5 /\ key[1] = a[1] /\ key[2] = a[2] /\ key \in Seq(Nat)
  <2>1. 1 \in 1 .. 2 /\ 2 \in 1 .. 2
    OBVIOUS
  <2> QED BY <1>4, <1>5, <2>1
<1>13. MadeOf(key, a, b, d)
  BY <1>9, <1>10, <1>11, <1>12, Zenon DEF MadeOf
<1> QED BY <1>13, Zenon DEF key, y, x

LEMMA KeyIs ==
    ASSUME NEW time \in -(Wide \div 2) .. Wide \div 2 - 1, NEW labels \in Seq(Labels), NEW number \in Nat
    PROVE  KeyMade(EncodeKey(time, labels, number), time, labels, number)
<1> DEFINE a == TimePrefix(time)
           b == EncodeLabels(NormalizeLabels(labels))
           c == <<NUL>>
           d == Digits(number)
           key == EncodeKey(time, labels, number)
<1>1. a \in Seq(Nat) /\ Len(a) = 2
  <2>1. Ordered(time) \in Nat
    BY OrderedIs
  <2>2. TwoDigits(Ordered(time), Ordered(time) \div Base, Ordered(time) % Base)
    BY <2>1, DigitsAre, Zenon
  <2> QED BY <2>2, Zenon DEF TwoDigits, TimePrefix
<1>2. b \in Seq(Nat)
  <2>1. NormalizeLabels(labels) \in Seq(Labels)
    BY LabelsSorted
  <2> QED BY <2>1, DecodesEncoded
<1>3. c \in Seq(Nat) /\ Len(c) = 1
  <2>1. NUL \in Nat
    BY DEF NUL
  <2> QED BY <2>1, OneByte
<1>4. d \in Seq(Nat) /\ Len(d) = 2
  <2>1. TwoDigits(number, number \div Base, number % Base)
    BY DigitsAre, Zenon
  <2> QED BY <2>1, Zenon DEF TwoDigits
<1>5. key = ((a \o b) \o c) \o d
  BY Zenon DEF EncodeKey
<1> HIDE DEF a, b, c, d, key
<1>6. MadeOf(((a \o b) \o c) \o d, a, b, d)
  BY <1>1, <1>2, <1>3, <1>4, FourPieces, Zenon
<1>7. MadeOf(key, a, b, d)
  BY <1>5, <1>6, Zenon
<1> QED BY <1>7, Zenon DEF MadeOf, KeyMade, a, b, d, key

LEMMA Decoded ==
    ASSUME NEW time \in -(Wide \div 2) .. Wide \div 2 - 1, NEW labels \in Seq(Labels), NEW number \in Nat
    PROVE  DecodeKey(EncodeKey(time, labels, number)) =
              [time |-> time, labels |-> NormalizeLabels(labels), number |-> number]
<1> DEFINE key == EncodeKey(time, labels, number)
           end == Len(key) - 2
<1>1. KeyMade(key, time, labels, number)
  BY KeyIs, Zenon
<1> HIDE DEF key
<1>2. Len(key) \in Nat
  <2>1. key \in Seq(Nat)
    BY <1>1, Zenon DEF KeyMade
  <2> QED BY <2>1
<1>3. end - 1 = Len(key) - 3 /\ end + 1 = Len(key) - 1
  BY <1>2
<1>4. /\ SubSeq(key, 1, 2) = TimePrefix(time)
      /\ SubSeq(key, 3, end - 1) = EncodeLabels(NormalizeLabels(labels))
      /\ SubSeq(key, end + 1, Len(key)) = Digits(number)
  <2> HIDE DEF end
  <2> QED BY <1>1, <1>3, Zenon DEF KeyMade
<1>5. Unordered(Value(TimePrefix(time))) = time
  <2>1. Ordered(time) \in Nat /\ Unordered(Ordered(time)) = time
    BY OrderedIs
  <2>2. TwoDigits(Ordered(time), Ordered(time) \div Base, Ordered(time) % Base)
    BY <2>1, DigitsAre, Zenon
  <2>3. Value(TimePrefix(time)) = Ordered(time)
    BY <2>2, Zenon DEF TwoDigits, TimePrefix
  <2> QED BY <2>1, <2>3, Zenon
<1>6. DecodeLabels(EncodeLabels(NormalizeLabels(labels))) = NormalizeLabels(labels)
  <2>1. NormalizeLabels(labels) \in Seq(Labels)
    BY LabelsSorted
  <2> QED BY <2>1, DecodesEncoded, Zenon
<1>7. Value(Digits(number)) = number
  <2>1. TwoDigits(number, number \div Base, number % Base)
    BY DigitsAre, Zenon
  <2> QED BY <2>1, Zenon DEF TwoDigits
<1>8. DecodeKey(key) = [time   |-> Unordered(Value(SubSeq(key, 1, 2))),
                        labels |-> DecodeLabels(SubSeq(key, 3, end - 1)),
                        number |-> Value(SubSeq(key, end + 1, Len(key)))]
  BY Zenon DEF DecodeKey
<1> HIDE DEF end
<1> QED BY <1>4, <1>5, <1>6, <1>7, <1>8, Zenon DEF key

LEMMA InWidth ==
    ASSUME NEW time \in -(Wide \div 2) .. Wide \div 2 - 1, NEW labels \in Seq(Labels), NEW number \in Nat,
           NEW start \in Nanoseconds, NEW end \in Nanoseconds
    PROVE  InKeyRange(EncodeKey(time, labels, number), start, end) <=> start <= time /\ time <= end
<1> DEFINE key == EncodeKey(time, labels, number)
           h == Wide \div 2
<1>1. h \in Nat
  BY HalfWide
<1> HIDE DEF h
<1>2. time \in -h .. h - 1 /\ start \in -h .. h - 1 /\ end \in -h .. h - 1
  BY DEF h, Nanoseconds
<1>20. UnixNano(start) = start /\ UnixNano(end) = end
  <2>1. start \in Int /\ end \in Int
    BY <1>1, <1>2
  <2> QED BY <2>1, NanosecondsAre
<1>3. KeyMade(key, time, labels, number)
  BY KeyIs, Zenon
<1>4. /\ key \in Seq(Nat) /\ Len(key) = Len(EncodeLabels(NormalizeLabels(labels))) + 5
      /\ key[1] = TimePrefix(time)[1] /\ key[2] = TimePrefix(time)[2]
  BY <1>3, Zenon DEF KeyMade
<1>5. Len(key) >= 2
  <2>1. NormalizeLabels(labels) \in Seq(Labels)
    BY LabelsSorted
  <2>2. EncodeLabels(NormalizeLabels(labels)) \in Seq(Nat)
    BY <2>1, DecodesEncoded
  <2> DEFINE l == Len(EncodeLabels(NormalizeLabels(labels)))
  <2>3. l \in Nat
    BY <2>2
  <2> HIDE DEF l, key
  <2> QED BY <1>4, <2>3 DEF l
<1> HIDE DEF key
<1>6. ASSUME NEW v \in -h .. h - 1
      PROVE  Precedes(key, TimePrefix(v)) <=> time < v
  <2>1. /\ Ordered(time) = time + h /\ Ordered(v) = v + h
        /\ Ordered(time) \in Nat /\ Ordered(v) \in Nat
    BY OrderedIs DEF h
  <2>2. Precedes(key, Digits(Ordered(v))) <=> Ordered(time) < Ordered(v)
    <3>1. key[1] = Digits(Ordered(time))[1] /\ key[2] = Digits(Ordered(time))[2]
      BY <1>4, Zenon DEF TimePrefix
    <3> QED BY <1>4, <1>5, <2>1, <3>1, PrefixBefore
  <2>3. Precedes(key, TimePrefix(v)) <=> Precedes(key, Digits(Ordered(v)))
    BY Zenon DEF TimePrefix
  <2>4. Ordered(time) < Ordered(v) <=> time < v
    BY <1>1, <1>2, <2>1
  <2> QED BY <2>2, <2>3, <2>4
<1>7. ~Precedes(key, StartKey(start)) <=> start <= time
  <2>1. StartKey(start) = TimePrefix(start)
    BY <1>20, Zenon DEF StartKey
  <2> QED BY <1>1, <1>2, <1>6, <2>1
<1>8. CASE end < h - 1
  <2>1. end + 1 \in -h .. h - 1
    BY <1>1, <1>2, <1>8
  <2>2. EndKey(end) = TimePrefix(end + 1)
    BY <1>8, <1>20 DEF EndKey, h
  <2>3. EndKey(end) # <<>>
    <3>1. Ordered(end + 1) \in Nat
      BY <2>1, OrderedIs DEF h
    <3>2. TwoDigits(Ordered(end + 1), Ordered(end + 1) \div Base, Ordered(end + 1) % Base)
      BY <3>1, DigitsAre, Zenon
    <3>3. Len(TimePrefix(end + 1)) = 2
      BY <3>2, Zenon DEF TwoDigits, TimePrefix
    <3>4. Len(<<>>) = 0
      OBVIOUS
    <3>5. 2 # 0
      OBVIOUS
    <3> QED BY <2>2, <3>3, <3>4, <3>5, Zenon
  <2>4. Precedes(key, EndKey(end)) <=> time < end + 1
    BY <1>6, <2>1, <2>2
  <2>5. time < end + 1 <=> time <= end
    BY <1>1, <1>2
  <2> QED BY <1>7, <2>3, <2>4, <2>5 DEF InKeyRange, key
<1>9. CASE ~(end < h - 1)
  <2>1. EndKey(end) = <<>>
    BY <1>9, <1>20 DEF EndKey, h
  <2>2. time <= end
    BY <1>1, <1>2, <1>9
  <2> QED BY <1>7, <2>1, <2>2 DEF InKeyRange, key
<1> QED BY <1>8, <1>9

LEMMA MessageReadable ==
    ASSUME NEW message \in Nat, message <= MaxMessage, NEW compression
    PROVE  Decompressed(message, compression) = message
<1>1. MaxMessage \in Nat
  BY LogCodecAssumption
<1>2. Min({message, MaxMessage + 1}) = message
  <2>1. MaxMessage + 1 \in Nat /\ ~(MaxMessage + 1 <= message)
    BY <1>1
  <2> QED BY <2>1, LesserIs
<1> DEFINE total == IF compression \in {"gzip", "lz4"} THEN Min({message, MaxMessage + 1}) ELSE message
<1>3. total = message
  BY <1>2, Zenon
<1>4. Decompressed(message, compression) = IF total <= MaxMessage THEN total ELSE -1
  BY Zenon DEF Decompressed
<1> HIDE DEF total
<1> QED BY <1>3, <1>4

(* Nothing is written before a log is handed over, and a key and a value   *)
(* are those of that log.                                                  *)
LogWritten ==
    /\ log.time \in LogTime
    /\ log.labels \in Seq(Labels)
    /\ log.number \in LogNumber
    /\ log.message \in Nat /\ log.message <= MaxMessage
    /\ logKey = EncodeKey(UnixNano(log.time), log.labels, log.number)
    /\ logValue[1].message = log.message

CodecInvariant ==
    /\ log = NoLog => logKey = <<>>
    /\ logKey # <<>> => LogWritten

LEMMA CodecStarts == CodecInit => CodecInvariant
BY DEF CodecInit, CodecInvariant

LEMMA CodecKeeps ==
    ASSUME CodecInvariant, [CodecNext]_codecVars
    PROVE  CodecInvariant'
<1>1. CASE UNCHANGED codecVars
  BY <1>1 DEF CodecInvariant, LogWritten, codecVars
<1>2. CASE CodecNext
  <2>1. PICK time \in LogTime, labels \in BoundedSeq(Label, MaxLabels), number \in LogNumber,
             message \in 0 .. MaxMessage + 1, compression \in CompressionType :
                EncodeLog([time |-> time, labels |-> labels, number |-> number, message |-> message],
                          compression)
    BY <1>2, Zenon DEF CodecNext
  <2> DEFINE entry == [time |-> time, labels |-> labels, number |-> number, message |-> message]
  <2>2. /\ entry.time = time /\ entry.labels = labels /\ entry.number = number /\ entry.message = message
    OBVIOUS
  <2>3. labels \in Seq(Labels)
    <3>1. labels \in Seq(Label)
      BY DEF BoundedSeq, SeqOf
    <3>2. Label \subseteq Labels
      BY LogCodecAssumption DEF Label, Labels
    <3> QED BY <3>1, <3>2, SeqMonotonic
  <2>4. message \in Nat /\ MaxMessage \in Nat
    BY LogCodecAssumption
  <2>5. log' # NoLog
    <3>1. log'.message = message
      BY <2>1, <2>2 DEF EncodeLog
    <3>2. NoLog.message = -1
      BY DEF NoLog
    <3>3. message # -1
      BY <2>4
    <3> QED BY <3>1, <3>2, <3>3
  <2>6. log = NoLog /\ log' = entry /\ logKey = <<>>
    BY <2>1 DEF EncodeLog, CodecInvariant
  <2> HIDE DEF entry
  <2>7. CASE ValidLabels(labels) /\ Compressible(message)
    <3>1. /\ logKey' = EncodeKey(UnixNano(time), labels, number)
          /\ logValue' = <<[time |-> UnixNano(time), message |-> message,
                            compression |-> compression]>>
      BY <2>1, <2>2, <2>7 DEF EncodeLog, entry
    <3>2. message <= MaxMessage
      BY <2>7 DEF Compressible
    <3>3. logValue'[1].message = message
      BY <3>1
    <3>4. LogWritten'
      BY <2>2, <2>3, <2>4, <2>6, <3>1, <3>2, <3>3, Zenon DEF LogWritten
    <3> QED BY <2>5, <3>4 DEF CodecInvariant
  <2>8. CASE ~(ValidLabels(labels) /\ Compressible(message))
    <3>1. logKey' = logKey
      BY <2>1, <2>2, <2>8 DEF EncodeLog, entry
    <3> QED BY <2>5, <2>6, <3>1 DEF CodecInvariant
  <2> QED BY <2>7, <2>8
<1> QED BY <1>1, <1>2

LEMMA WrittenComesBack == CodecInvariant => LogComesBack
<1> SUFFICES ASSUME CodecInvariant, logKey # <<>>
             PROVE  /\ DecodeKey(logKey).labels = NormalizeLabels(log.labels)
                    /\ DecodeKey(logKey).number = log.number
                    /\ Decompressed(logValue[1].message, logValue[1].compression) = log.message
                    /\ log.time \in Nanoseconds =>
                          /\ DecodeKey(logKey).time = log.time
                          /\ \A start, end \in LogTime \cap Nanoseconds : start <= end =>
                                (InKeyRange(logKey, start, end)
                                   <=> start <= log.time /\ log.time <= end)
  BY DEF LogComesBack
<1> DEFINE nanos == UnixNano(log.time)
<1>1. LogWritten
  BY DEF CodecInvariant
<1>2. /\ log.time \in LogTime /\ log.labels \in Seq(Labels) /\ log.number \in LogNumber
      /\ log.message \in Nat /\ log.message <= MaxMessage
      /\ logKey = EncodeKey(nanos, log.labels, log.number)
      /\ logValue[1].message = log.message
  BY <1>1, Zenon DEF LogWritten
<1>3. /\ nanos \in -(Wide \div 2) .. Wide \div 2 - 1
      /\ log.time \in Nanoseconds => nanos = log.time
  <2>1. log.time \in Int
    BY <1>2, LogCodecAssumption
  <2> QED BY <2>1, NanosecondsAre
<1> HIDE DEF nanos
<1>4. log.number \in Nat
  <2>1. log.number \in 0 .. Wide - 1
    BY <1>2, LogCodecAssumption, Zenon
  <2> QED BY <2>1
<1>5. DecodeKey(logKey) = [time |-> nanos, labels |-> NormalizeLabels(log.labels), number |-> log.number]
  BY <1>2, <1>3, <1>4, Decoded, Zenon
<1>6. Decompressed(logValue[1].message, logValue[1].compression) = log.message
  BY <1>2, MessageReadable, Zenon
<1>7. \A start, end \in LogTime \cap Nanoseconds :
         InKeyRange(logKey, start, end) <=> start <= nanos /\ nanos <= end
  BY <1>2, <1>3, <1>4, InWidth
<1>8. /\ DecodeKey(logKey).time = nanos
      /\ DecodeKey(logKey).labels = NormalizeLabels(log.labels)
      /\ DecodeKey(logKey).number = log.number
  BY <1>5
<1> QED BY <1>3, <1>6, <1>7, <1>8

(* A log that was accepted comes back as it was written, whatever its      *)
(* labels are; its time does if it fits an int64 of nanoseconds, and then  *)
(* the log lies in the key ranges of exactly the queries it answers.       *)
THEOREM LogsComeBack == CodecSpec => []LogComesBack
<1>1. CodecInit => CodecInvariant
  BY CodecStarts
<1>2. CodecInvariant /\ [CodecNext]_codecVars => CodecInvariant'
  BY CodecKeeps
<1>3. CodecInvariant => LogComesBack
  BY WrittenComesBack
<1> QED BY <1>1, <1>2, <1>3, PTL DEF CodecSpec

-----------------------------------------------------------------------------
(* TableFormat: records in the order of their keys.                        *)

Rec == [key : Seq(Nat) \ {<<>>}, text : Nat]

Held(s) == {s[i] : i \in 1 .. Len(s)}

Ascends(s) == \A i, j \in 1 .. Len(s) : i < j => Precedes(s[i].key, s[j].key)

LEMMA KeyOrder ==
    \A a, b, c \in Seq(Nat) :
       /\ ~Precedes(a, a)
       /\ Precedes(a, b) /\ Precedes(b, c) => Precedes(a, c)
       /\ a = b \/ Precedes(a, b) \/ Precedes(b, a)
<1> SUFFICES ASSUME NEW a \in Seq(Nat), NEW b \in Seq(Nat), NEW c \in Seq(Nat)
             PROVE  /\ ~Precedes(a, a)
                    /\ Precedes(a, b) /\ Precedes(b, c) => Precedes(a, c)
                    /\ a = b \/ Precedes(a, b) \/ Precedes(b, a)
  OBVIOUS
<1>1. ~Precedes(a, a)
  BY PrecedesNone
<1>2. ASSUME Precedes(a, b), Precedes(b, c) PROVE Precedes(a, c)
  BY <1>2, PrecedesFollows
<1>3. a = b \/ Precedes(a, b) \/ Precedes(b, a)
  BY PrecedesEither
<1> QED BY <1>1, <1>2, <1>3

LEMMA HeldKeys ==
    ASSUME NEW s \in Seq(Rec), NEW i \in 1 .. Len(s)
    PROVE  s[i] \in Rec /\ s[i].key \in Seq(Nat) /\ s[i].key # <<>> /\ s[i] \in Held(s)
<1>1. s[i] \in Rec
  BY ElementOfSeq
<1> QED BY <1>1 DEF Rec, Held

(* What holds a lower part of t in order is a beginning of t.              *)
BeginsLike(s, t) ==
    /\ Len(s) <= Len(t)
    /\ \A i \in 1 .. Len(s) : s[i] = t[i]

LowerPart(A, B) ==
    /\ A \subseteq B
    /\ \A x \in A, y \in B : Precedes(y.key, x.key) => y \in A

LEMMA BeginningIs ==
    ASSUME NEW s \in Seq(Rec), NEW t \in Seq(Rec), Ascends(s), Ascends(t),
           LowerPart(Held(s), Held(t))
    PROVE  BeginsLike(s, t)
<1> DEFINE Good(i) == i <= Len(t) /\ s[i] = t[i]
           bad == {i \in 1 .. Len(s) : ~Good(i)}
<1>1. Len(s) \in Nat /\ Len(t) \in Nat
  BY LenProperties
<1>2. bad = {}
  <2> SUFFICES ASSUME bad # {} PROVE FALSE
    OBVIOUS
  <2>1. bad \in SUBSET Nat
    BY <1>1
  <2> DEFINE i == Min(bad)
  <2>2. i \in bad /\ \A y \in bad : i <= y
    <3> HIDE DEF bad
    <3> QED BY <2>1, LeastOfNaturals
  <2>3. i \in 1 .. Len(s) /\ ~Good(i)
    BY <2>2
  <2>4. \A j \in 1 .. Len(s) : j < i => Good(j)
    <3> TAKE j \in 1 .. Len(s)
    <3> HAVE j < i
    <3>1. j \notin bad
      <4> HIDE DEF bad
      <4>1. i \in Nat
        BY <2>1, <2>2
      <4>2. ~(i <= j)
        BY <4>1, <1>1
      <4> QED BY <4>2, <2>2, Zenon
    <3> QED BY <3>1, Zenon
  <2> HIDE DEF i, bad
  <2>5. PICK k \in 1 .. Len(t) : s[i] = t[k]
    BY <2>3 DEF LowerPart, Held
  <2>6. s[i].key \in Seq(Nat) /\ t[k].key \in Seq(Nat)
    BY <2>3, HeldKeys
  <2>7. ~(k < i)
    <3> SUFFICES ASSUME k < i PROVE FALSE
      OBVIOUS
    <3>1. k \in 1 .. Len(s)
      BY <1>1, <2>3
    <3>2. s[k] = t[k]
      BY <3>1, <2>4, Zenon
    <3>3. Precedes(s[k].key, s[i].key)
      BY <3>1, <2>3 DEF Ascends
    <3> QED BY <3>2, <3>3, <2>5, <2>6, KeyOrder, Zenon
  <2>8. i \in 1 .. Len(t) /\ (i < k \/ i = k)
    BY <1>1, <2>3, <2>7
  <2>9. i # k
    BY <2>3, <2>5, <2>8
  <2>10. Precedes(t[i].key, s[i].key)
    BY <2>5, <2>8, <2>9 DEF Ascends
  <2>11. t[i] \in Held(t) /\ s[i] \in Held(s) /\ t[i].key \in Seq(Nat)
    BY <2>3, <2>8, HeldKeys
  <2>12. PICK l \in 1 .. Len(s) : s[l] = t[i]
    BY <2>10, <2>11 DEF LowerPart, Held
  <2>13. l < i
    <3> SUFFICES ASSUME ~(l < i) PROVE FALSE
      OBVIOUS
    <3>1. l = i \/ i < l
      BY <1>1, <2>3
    <3>2. l # i
      BY <2>3, <2>8, <2>12
    <3>3. Precedes(s[i].key, s[l].key)
      BY <2>3, <3>1, <3>2 DEF Ascends
    <3>4. Precedes(s[i].key, t[i].key)
      BY <3>3, <2>12
    <3>5. Precedes(t[i].key, t[i].key)
      BY <3>4, <2>10, <2>11, <2>6, KeyOrder
    <3> QED BY <3>5, <2>11, KeyOrder
  <2>14. s[l] = t[l] /\ l \in 1 .. Len(t)
    BY <1>1, <2>4, <2>13
  <2>15. Precedes(t[l].key, t[i].key)
    BY <2>8, <2>13, <2>14 DEF Ascends
  <2>16. Precedes(t[i].key, t[i].key)
    BY <2>12, <2>14, <2>15
  <2> QED BY <2>16, <2>11, KeyOrder
<1>3. \A i \in 1 .. Len(s) : Good(i)
  BY <1>2
<1>4. Len(s) <= Len(t)
  <2>1. CASE Len(s) = 0
    BY <2>1, <1>1
  <2>2. CASE Len(s) # 0
    BY <2>2, <1>1, <1>3
  <2> QED BY <2>1, <2>2
<1> QED BY <1>3, <1>4 DEF BeginsLike

LEMMA SameHeld ==
    ASSUME NEW s \in Seq(Rec), NEW t \in Seq(Rec), Ascends(s), Ascends(t),
           Held(s) = Held(t)
    PROVE  s = t
<1>1. BeginsLike(s, t) /\ BeginsLike(t, s)
  BY BeginningIs DEF LowerPart
<1>2. Len(s) \in Nat /\ Len(t) \in Nat
  BY LenProperties
<1>3. Len(s) = Len(t) /\ \A i \in 1 .. Len(s) : s[i] = t[i]
  BY <1>1, <1>2 DEF BeginsLike
<1> QED BY <1>3, SeqEqual

LEMMA HeldTogether ==
    ASSUME NEW s \in Seq(Rec), NEW t \in Seq(Rec)
    PROVE  Held(s \o t) = Held(s) \cup Held(t)
<1> DEFINE u == s \o t
<1>1. /\ u \in Seq(Rec) /\ Len(u) = Len(s) + Len(t)
      /\ \A i \in 1 .. Len(s) + Len(t) : u[i] = IF i <= Len(s) THEN s[i] ELSE t[i - Len(s)]
  BY ConcatProperties
<1>2. Len(s) \in Nat /\ Len(t) \in Nat
  BY LenProperties
<1> HIDE DEF u
<1>3. ASSUME NEW i \in 1 .. Len(u) PROVE u[i] \in Held(s) \cup Held(t)
  <2>1. CASE i <= Len(s)
    BY <2>1, <1>1, <1>2 DEF Held
  <2>2. CASE ~(i <= Len(s))
    <3>1. i - Len(s) \in 1 .. Len(t) /\ u[i] = t[i - Len(s)]
      BY <2>2, <1>1, <1>2
    <3> QED BY <3>1 DEF Held
  <2> QED BY <2>1, <2>2
<1>4. ASSUME NEW i \in 1 .. Len(s) PROVE s[i] \in Held(u)
  <2>1. i \in 1 .. Len(s) + Len(t) /\ i <= Len(s)
    BY <1>2
  <2>2. u[i] = s[i] /\ i \in 1 .. Len(u)
    BY <1>1, <2>1
  <2> QED BY <2>2 DEF Held
<1>5. ASSUME NEW i \in 1 .. Len(t) PROVE t[i] \in Held(u)
  <2>1. i + Len(s) \in 1 .. Len(s) + Len(t) /\ ~(i + Len(s) <= Len(s)) /\ i + Len(s) - Len(s) = i
    BY <1>2
  <2>2. i + Len(s) \in 1 .. Len(u) /\ u[i + Len(s)] = t[i]
    BY <1>1, <2>1
  <2> QED BY <2>2 DEF Held
<1>6. Held(u) = Held(s) \cup Held(t)
  <2>1. ASSUME NEW x \in Held(u) PROVE x \in Held(s) \cup Held(t)
    BY <1>3 DEF Held
  <2>2. ASSUME NEW x \in Held(s) PROVE x \in Held(u)
    <3>1. PICK i \in 1 .. Len(s) : x = s[i]
      BY DEF Held
    <3> QED BY <3>1, <1>4
  <2>3. ASSUME NEW x \in Held(t) PROVE x \in Held(u)
    <3>1. PICK i \in 1 .. Len(t) : x = t[i]
      BY DEF Held
    <3> QED BY <3>1, <1>5
  <2> QED BY <2>1, <2>2, <2>3
<1> QED BY <1>6 DEF u

AllBefore(A, B) == \A x \in A, y \in B : Precedes(x.key, y.key)

LEMMA AscendsTogether ==
    ASSUME NEW s \in Seq(Rec), NEW t \in Seq(Rec), Ascends(s), Ascends(t),
           AllBefore(Held(s), Held(t))
    PROVE  Ascends(s \o t)
<1> DEFINE u == s \o t
<1>1. /\ Len(u) = Len(s) + Len(t)
      /\ \A i \in 1 .. Len(s) + Len(t) : u[i] = IF i <= Len(s) THEN s[i] ELSE t[i - Len(s)]
  BY ConcatProperties
<1>2. Len(s) \in Nat /\ Len(t) \in Nat
  BY LenProperties
<1> HIDE DEF u
<1> SUFFICES ASSUME NEW i \in 1 .. Len(u), NEW j \in 1 .. Len(u), i < j
             PROVE  Precedes(u[i].key, u[j].key)
  BY DEF Ascends, u
<1>3. CASE j <= Len(s)
  <2>1. i \in 1 .. Len(s) /\ j \in 1 .. Len(s) /\ u[i] = s[i] /\ u[j] = s[j]
    BY <1>1, <1>2, <1>3
  <2> QED BY <2>1 DEF Ascends
<1>4. CASE i <= Len(s) /\ ~(j <= Len(s))
  <2>1. i \in 1 .. Len(s) /\ j - Len(s) \in 1 .. Len(t) /\ u[i] = s[i] /\ u[j] = t[j - Len(s)]
    BY <1>1, <1>2, <1>4
  <2>2. u[i] \in Held(s) /\ u[j] \in Held(t)
    BY <2>1 DEF Held
  <2> QED BY <2>2 DEF AllBefore
<1>5. CASE ~(i <= Len(s))
  <2>1. /\ i - Len(s) \in 1 .. Len(t) /\ j - Len(s) \in 1 .. Len(t) /\ i - Len(s) < j - Len(s)
        /\ u[i] = t[i - Len(s)] /\ u[j] = t[j - Len(s)]
    BY <1>1, <1>2, <1>5
  <2> QED BY <2>1 DEF Ascends
<1>6. i <= Len(s) \/ ~(j <= Len(s))
  BY <1>1, <1>2
<1> QED BY <1>3, <1>4, <1>5, <1>6

LEMMA PieceOfRecords ==
    ASSUME NEW s \in Seq(Rec), Ascends(s), NEW m \in 1 .. Len(s) + 1, NEW n \in 0 .. Len(s)
    PROVE  /\ SubSeq(s, m, n) \in Seq(Rec)
           /\ Ascends(SubSeq(s, m, n))
           /\ Held(SubSeq(s, m, n)) = {s[i] : i \in m .. n}
<1> DEFINE u == SubSeq(s, m, n)
<1>1. Len(s) \in Nat
  BY LenProperties
<1>2. \A i \in m .. n : i \in 1 .. Len(s) /\ s[i] \in Rec
  BY <1>1, HeldKeys
<1>3. /\ u \in Seq(Rec)
      /\ Len(u) = IF m <= n THEN n - m + 1 ELSE 0
      /\ \A i \in 1 .. n - m + 1 : u[i] = s[m + i - 1]
  BY <1>1, <1>2, SubSeqProperties
<1> HIDE DEF u
<1>4. \A i \in 1 .. Len(u) : i \in 1 .. n - m + 1 /\ m + i - 1 \in m .. n /\ m + i - 1 \in 1 .. Len(s) /\ u[i] = s[m + i - 1]
  <2> TAKE i \in 1 .. Len(u)
  <2>1. i \in 1 .. n - m + 1 /\ m + i - 1 \in m .. n /\ m + i - 1 \in 1 .. Len(s)
    BY <1>1, <1>3
  <2> QED BY <2>1, <1>3
<1>5. Ascends(u)
  <2> SUFFICES ASSUME NEW i \in 1 .. Len(u), NEW j \in 1 .. Len(u), i < j
               PROVE  Precedes(u[i].key, u[j].key)
    BY DEF Ascends
  <2>1. m + i - 1 \in 1 .. Len(s) /\ m + j - 1 \in 1 .. Len(s) /\ m + i - 1 < m + j - 1
    BY <1>1, <1>3, <1>4
  <2>2. Precedes(s[m + i - 1].key, s[m + j - 1].key)
    BY <2>1 DEF Ascends
  <2> QED BY <2>2, <1>4
<1>6. Held(u) = {s[i] : i \in m .. n}
  <2>1. ASSUME NEW x \in Held(u) PROVE x \in {s[i] : i \in m .. n}
    BY <1>4 DEF Held
  <2>2. ASSUME NEW i \in m .. n PROVE s[i] \in Held(u)
    <3>1. i - m + 1 \in 1 .. Len(u) /\ m + (i - m + 1) - 1 = i
      BY <1>1, <1>3
    <3>2. u[i - m + 1] = s[i]
      BY <3>1, <1>4
    <3> QED BY <3>1, <3>2 DEF Held
  <2> QED BY <2>1, <2>2
<1> QED BY <1>3, <1>5, <1>6 DEF u

-----------------------------------------------------------------------------
(* Searching what is in order.                                             *)

FoundAt(n, P, f) == f \in 1 .. n + 1 /\ \A i \in 1 .. n : i \in P <=> f <= i

LEMMA FirstFrom ==
    ASSUME NEW n \in Nat, NEW P \in SUBSET (1 .. n),
           \A i \in P, j \in 1 .. n : i < j => j \in P
    PROVE  FoundAt(n, P, Min({n + 1} \cup P))
<1> DEFINE S == {n + 1} \cup P
           f == Min(S)
<1>1. S \in SUBSET Nat /\ S # {}
  OBVIOUS
<1>2. f \in S /\ \A y \in S : f <= y
  <2> HIDE DEF S
  <2> QED BY <1>1, LeastOfNaturals
<1> HIDE DEF f
<1>3. f \in 1 .. n + 1
  BY <1>2
<1>4. ASSUME NEW i \in 1 .. n, i \in P PROVE f <= i
  BY <1>2, <1>4
<1>5. ASSUME NEW i \in 1 .. n, f <= i PROVE i \in P
  <2>1. f \in P
    BY <1>2, <1>5
  <2>2. f = i \/ f < i
    BY <1>3, <1>5
  <2> QED BY <2>1, <2>2
<1> QED BY <1>3, <1>4, <1>5 DEF FoundAt, f

Within(r, start, end) == NotBefore(r.key, start) /\ ~Beyond(r.key, end)

LEMMA FirstAtIs ==
    ASSUME NEW s \in Seq(Rec), Ascends(s), NEW bound \in Seq(Nat)
    PROVE  FoundAt(Len(s), {i \in 1 .. Len(s) : NotBefore(s[i].key, bound)}, FirstAt(s, bound))
<1> DEFINE P == {i \in 1 .. Len(s) : NotBefore(s[i].key, bound)}
<1>1. Len(s) \in Nat /\ DOMAIN s = 1 .. Len(s)
  BY LenProperties
<1>2. ASSUME NEW i \in P, NEW j \in 1 .. Len(s), i < j PROVE j \in P
  <2>1. Precedes(s[i].key, s[j].key)
    BY <1>2 DEF Ascends
  <2>2. s[i].key \in Seq(Nat) /\ s[j].key \in Seq(Nat)
    BY HeldKeys
  <2> QED BY <2>1, <2>2, KeyOrder DEF NotBefore
<1>3. FirstAt(s, bound) = Min({Len(s) + 1} \cup P)
  BY <1>1 DEF FirstAt
<1> HIDE DEF P
<1>4. P \in SUBSET (1 .. Len(s))
  BY DEF P
<1>5. FoundAt(Len(s), P, Min({Len(s) + 1} \cup P))
  BY <1>1, <1>2, <1>4, FirstFrom
<1> QED BY <1>3, <1>5 DEF P

StopAt(s, bound) == Min({Len(s) + 1} \cup {i \in DOMAIN s : Beyond(s[i].key, bound)})

LEMMA StopAtIs ==
    ASSUME NEW s \in Seq(Rec), Ascends(s), NEW bound \in Seq(Nat)
    PROVE  FoundAt(Len(s), {i \in 1 .. Len(s) : Beyond(s[i].key, bound)}, StopAt(s, bound))
<1> DEFINE P == {i \in 1 .. Len(s) : Beyond(s[i].key, bound)}
<1>1. Len(s) \in Nat /\ DOMAIN s = 1 .. Len(s)
  BY LenProperties
<1>2. ASSUME NEW i \in P, NEW j \in 1 .. Len(s), i < j PROVE j \in P
  <2>1. Precedes(s[i].key, s[j].key)
    BY <1>2 DEF Ascends
  <2>2. s[i].key \in Seq(Nat) /\ s[j].key \in Seq(Nat)
    BY HeldKeys
  <2> QED BY <2>1, <2>2, KeyOrder DEF Beyond
<1>3. StopAt(s, bound) = Min({Len(s) + 1} \cup P)
  BY <1>1 DEF StopAt
<1> HIDE DEF P
<1>4. P \in SUBSET (1 .. Len(s))
  BY DEF P
<1>5. FoundAt(Len(s), P, Min({Len(s) + 1} \cup P))
  BY <1>1, <1>2, <1>4, FirstFrom
<1> QED BY <1>3, <1>5 DEF P

LEMMA ScanIs ==
    ASSUME NEW s \in Seq(Rec), Ascends(s), NEW start \in Seq(Nat), NEW end \in Seq(Nat)
    PROVE  /\ ScanSorted(s, start, end) \in Seq(Rec)
           /\ Ascends(ScanSorted(s, start, end))
           /\ Held(ScanSorted(s, start, end)) = {r \in Held(s) : Within(r, start, end)}
<1> DEFINE f == FirstAt(s, start)
           g == StopAt(s, end)
<1>1. ScanSorted(s, start, end) = SubSeq(s, f, g - 1)
  BY DEF ScanSorted, StopAt
<1>2. FoundAt(Len(s), {i \in 1 .. Len(s) : NotBefore(s[i].key, start)}, f)
  BY FirstAtIs
<1>3. FoundAt(Len(s), {i \in 1 .. Len(s) : Beyond(s[i].key, end)}, g)
  BY StopAtIs
<1>4. Len(s) \in Nat
  BY LenProperties
<1> HIDE DEF f, g
<1>5. f \in 1 .. Len(s) + 1 /\ \A i \in 1 .. Len(s) : NotBefore(s[i].key, start) <=> f <= i
  BY <1>2 DEF FoundAt
<1>6. g \in 1 .. Len(s) + 1 /\ \A i \in 1 .. Len(s) : Beyond(s[i].key, end) <=> g <= i
  BY <1>3 DEF FoundAt
<1>7. g - 1 \in 0 .. Len(s)
  BY <1>4, <1>6
<1>8. /\ SubSeq(s, f, g - 1) \in Seq(Rec) /\ Ascends(SubSeq(s, f, g - 1))
      /\ Held(SubSeq(s, f, g - 1)) = {s[i] : i \in f .. g - 1}
  BY <1>5, <1>7, PieceOfRecords
<1>9. ASSUME NEW i \in 1 .. Len(s) PROVE Within(s[i], start, end) <=> i \in f .. g - 1
  <2>1. ~(g <= i) <=> i <= g - 1
    BY <1>4, <1>6
  <2>2. i \in f .. g - 1 <=> f <= i /\ i <= g - 1
    BY <1>4, <1>5, <1>6
  <2> QED BY <2>1, <2>2, <1>5, <1>6 DEF Within
<1>10. f .. g - 1 \subseteq 1 .. Len(s)
  BY <1>4, <1>5, <1>6
<1>11. {s[i] : i \in f .. g - 1} = {r \in Held(s) : Within(r, start, end)}
  <2> HIDE DEF f
  <2>1. ASSUME NEW x \in {s[i] : i \in f .. g - 1} PROVE x \in Held(s) /\ Within(x, start, end)
    <3>1. PICK i \in f .. g - 1 : x = s[i]
      OBVIOUS
    <3> QED BY <3>1, <1>9, <1>10 DEF Held
  <2>2. ASSUME NEW x \in Held(s), Within(x, start, end) PROVE x \in {s[i] : i \in f .. g - 1}
    <3>1. PICK i \in 1 .. Len(s) : x = s[i]
      BY DEF Held
    <3> QED BY <3>1, <2>2, <1>9
  <2> QED BY <2>1, <2>2
<1> QED BY <1>1, <1>8, <1>11

(* What a lookup answers, if `held' are the records there are.             *)
AnswerOf(held, key, answer) ==
    \/ answer = <<>> /\ \A r \in held : r.key # key
    \/ \E r \in held : r.key = key /\ answer = <<r>>

LEMMA AtIs ==
    ASSUME NEW s \in Seq(Rec), Ascends(s), NEW key \in Seq(Nat), key # <<>>
    PROVE  AnswerOf(Held(s), key, At(s, key))
<1> DEFINE f == FirstAt(s, key)
<1>1. At(s, key) = IF f <= Len(s) /\ s[f].key = key THEN <<s[f]>> ELSE <<>>
  BY DEF At
<1>2. FoundAt(Len(s), {i \in 1 .. Len(s) : NotBefore(s[i].key, key)}, f)
  BY FirstAtIs
<1>3. Len(s) \in Nat
  BY LenProperties
<1> HIDE DEF f
<1>4. f \in 1 .. Len(s) + 1 /\ \A i \in 1 .. Len(s) : NotBefore(s[i].key, key) <=> f <= i
  BY <1>2 DEF FoundAt
<1>5. CASE f <= Len(s) /\ s[f].key = key
  <2>1. f \in 1 .. Len(s)
    BY <1>3, <1>4, <1>5
  <2> QED BY <2>1, <1>1, <1>5 DEF AnswerOf, Held
<1>6. CASE ~(f <= Len(s) /\ s[f].key = key)
  <2>1. ASSUME NEW r \in Held(s), r.key = key PROVE FALSE
    <3>1. PICK i \in 1 .. Len(s) : r = s[i]
      BY DEF Held
    <3>2. f <= i
      BY <2>1, <3>1, <1>4, KeyOrder DEF NotBefore
    <3>3. f < i /\ f \in 1 .. Len(s)
      BY <3>2, <3>1, <2>1, <1>3, <1>4, <1>6
    <3>4. Precedes(s[f].key, s[i].key)
      BY <3>3 DEF Ascends
    <3>5. f <= f
      BY <1>4
    <3>6. NotBefore(s[f].key, key)
      BY <3>3, <3>5, <1>4
    <3> QED BY <3>1, <3>4, <3>6, <2>1 DEF NotBefore
  <2> QED BY <2>1, <1>1, <1>6 DEF AnswerOf
<1> QED BY <1>5, <1>6

LEMMA OneAnswer ==
    ASSUME NEW s \in Seq(Rec), Ascends(s), NEW key, NEW a, NEW b,
           AnswerOf(Held(s), key, a), AnswerOf(Held(s), key, b)
    PROVE  a = b
<1>1. ASSUME NEW i \in 1 .. Len(s), NEW j \in 1 .. Len(s), s[i].key = s[j].key PROVE i = j
  <2>1. Len(s) \in Nat /\ s[i].key \in Seq(Nat) /\ s[j].key \in Seq(Nat)
    BY HeldKeys, LenProperties
  <2>2. i < j \/ j < i \/ i = j
    BY <2>1
  <2>3. ASSUME i < j PROVE FALSE
    BY <2>1, <2>3, <1>1, KeyOrder DEF Ascends
  <2>4. ASSUME j < i PROVE FALSE
    BY <2>1, <2>4, <1>1, KeyOrder DEF Ascends
  <2> QED BY <2>2, <2>3, <2>4
<1>2. ASSUME NEW x \in Held(s), NEW y \in Held(s), x.key = y.key PROVE x = y
  <2>1. PICK i \in 1 .. Len(s) : x = s[i]
    BY DEF Held
  <2>2. PICK j \in 1 .. Len(s) : y = s[j]
    BY DEF Held
  <2> QED BY <2>1, <2>2, <1>1, <1>2
<1> QED BY <1>2 DEF AnswerOf

-----------------------------------------------------------------------------
(* The records handed over, in order and each key once.                    *)

LastOf(rs, i) == \A j \in 1 .. Len(rs) : rs[j].key = rs[i].key => j <= i

Kept(rs) == {rs[i] : i \in {k \in 1 .. Len(rs) : LastOf(rs, k)}}

KeysOf(rs) == {rs[i].key : i \in DOMAIN rs}

LatestOf(rs, key) == rs[Max({i \in DOMAIN rs : rs[i].key = key})]

LEMMA LatestIs ==
    ASSUME NEW rs \in Seq(Rec), NEW key \in KeysOf(rs)
    PROVE  LatestOf(rs, key) \in Kept(rs) /\ LatestOf(rs, key) \in Rec /\ LatestOf(rs, key).key = key
<1> DEFINE S == {i \in DOMAIN rs : rs[i].key = key}
           m == Max(S)
<1>1. Len(rs) \in Nat /\ DOMAIN rs = 1 .. Len(rs)
  BY LenProperties
<1>2. 1 .. Len(rs) \in Indices
  BY <1>1, IntervalIndices
<1>3. S \in Indices /\ S # {}
  <2>1. S \in SUBSET (1 .. Len(rs))
    BY <1>1
  <2>2. S # {}
    BY DEF KeysOf
  <2> HIDE DEF S
  <2> QED BY <2>1, <2>2, <1>2, SubsetIndices
<1>4. m \in S /\ \A y \in S : y <= m
  <2> HIDE DEF S
  <2> QED BY <1>3, MaxIsGreatest
<1> HIDE DEF m
<1>5. m \in 1 .. Len(rs) /\ rs[m].key = key
  BY <1>1, <1>4
<1>6. LastOf(rs, m)
  BY <1>1, <1>4, <1>5 DEF LastOf
<1>7. rs[m] \in Rec
  BY <1>5, HeldKeys
<1>8. LatestOf(rs, key) = rs[m]
  BY DEF LatestOf, m
<1> QED BY <1>5, <1>6, <1>7, <1>8 DEF Kept

LEMMA OneLatest ==
    ASSUME NEW rs \in Seq(Rec), NEW x \in Kept(rs), NEW y \in Kept(rs), x.key = y.key
    PROVE  x = y
<1>1. PICK i \in 1 .. Len(rs) : x = rs[i] /\ LastOf(rs, i)
  BY DEF Kept
<1>2. PICK j \in 1 .. Len(rs) : y = rs[j] /\ LastOf(rs, j)
  BY DEF Kept
<1>3. i <= j /\ j <= i
  BY <1>1, <1>2 DEF LastOf
<1>4. Len(rs) \in Nat
  BY LenProperties
<1>5. i = j
  BY <1>3, <1>4
<1> QED BY <1>1, <1>2, <1>5

LEMMA KeptKeys ==
    ASSUME NEW rs \in Seq(Rec), NEW x \in Kept(rs)
    PROVE  x \in Rec /\ x.key \in KeysOf(rs) /\ x = LatestOf(rs, x.key)
<1>1. PICK i \in 1 .. Len(rs) : x = rs[i] /\ LastOf(rs, i)
  BY DEF Kept
<1>2. x \in Rec /\ x.key \in KeysOf(rs)
  <2>1. DOMAIN rs = 1 .. Len(rs)
    BY LenProperties
  <2> QED BY <2>1, <1>1, HeldKeys DEF KeysOf
<1>3. LatestOf(rs, x.key) \in Kept(rs) /\ LatestOf(rs, x.key).key = x.key
  BY <1>2, LatestIs
<1> QED BY <1>2, <1>3, OneLatest

LEMMA KeysType ==
    ASSUME NEW rs \in Seq(Rec)
    PROVE  IsFiniteSet(KeysOf(rs)) /\ KeysOf(rs) \in SUBSET Seq(Nat)
<1>1. Len(rs) \in Nat /\ DOMAIN rs = 1 .. Len(rs)
  BY LenProperties
<1>2. IsFiniteSet(1 .. Len(rs))
  BY <1>1, FS_Interval
<1>3. [i \in 1 .. Len(rs) |-> rs[i].key] \in Surjection(1 .. Len(rs), KeysOf(rs))
  BY <1>1 DEF Surjection, KeysOf
<1>4. IsFiniteSet(KeysOf(rs))
  BY <1>2, <1>3, FS_Surjection
<1>5. \A i \in DOMAIN rs : rs[i].key \in Seq(Nat)
  BY <1>1, HeldKeys
<1> QED BY <1>4, <1>5 DEF KeysOf

(* Some of the keys in order, and the record of each.                      *)
LEMMA ListedRecords ==
    ASSUME NEW rs \in Seq(Rec), NEW K \in SUBSET KeysOf(rs),
           NEW s, DOMAIN s = DOMAIN Listed(K, Precedes), s = [n \in DOMAIN s |-> s[n]],
           \A n \in DOMAIN s : s[n] = LatestOf(rs, Listed(K, Precedes)[n])
    PROVE  s \in Seq(Rec) /\ Ascends(s) /\ Held(s) = {r \in Kept(rs) : r.key \in K}
<1> DEFINE keys == Listed(K, Precedes)
           n == Cardinality(K)
<1>1. K \in SUBSET Seq(Nat) /\ IsFiniteSet(K)
  BY KeysType, FS_Subset
<1>2. ListOf(K, ByBytes(K), keys)
  BY <1>1, StringsListed
<1>3. n \in Nat
  BY <1>1, FS_CardinalityType
<1> HIDE DEF n
<1>4. /\ keys \in [1 .. n -> K]
      /\ \A x \in K : \E i \in 1 .. n : keys[i] = x
      /\ \A i, j \in 1 .. n : i < j => <<keys[i], keys[j]>> \in ByBytes(K)
  BY <1>2 DEF ListOf, n
<1>5. DOMAIN s = 1 .. n /\ \A i \in 1 .. n : s[i] = LatestOf(rs, keys[i])
  BY <1>4
<1> HIDE DEF keys
<1>6. \A i \in 1 .. n : s[i] \in Kept(rs) /\ s[i] \in Rec /\ s[i].key = keys[i] /\ keys[i] \in K
  BY <1>4, <1>5, LatestIs
<1>7. s = [i \in 1 .. n |-> s[i]]
  BY <1>5
<1>8. s \in [1 .. n -> Rec]
  BY <1>6, <1>7
<1>9. s \in Seq(Rec) /\ Len(s) = n
  BY <1>3, <1>8, FunctionIsSequence
<1>10. Ascends(s)
  BY <1>4, <1>6, <1>9 DEF Ascends, ByBytes
<1>11. ASSUME NEW x \in Held(s) PROVE x \in Kept(rs) /\ x.key \in K
  BY <1>6, <1>9 DEF Held
<1>12. ASSUME NEW x \in Kept(rs), x.key \in K PROVE x \in Held(s)
  <2>1. PICK i \in 1 .. n : keys[i] = x.key
    BY <1>4, <1>12
  <2>2. s[i] = x
    BY <2>1, <1>6, OneLatest
  <2> QED BY <2>1, <2>2, <1>9 DEF Held
<1> QED BY <1>9, <1>10, <1>11, <1>12

LEMMA NormalizedIs ==
    ASSUME NEW rs \in Seq(Rec)
    PROVE  Normalized(rs) \in Seq(Rec) /\ Ascends(Normalized(rs)) /\ Held(Normalized(rs)) = Kept(rs)
<1> DEFINE K == KeysOf(rs)
           s == [k \in DOMAIN Listed(K, Precedes) |-> LatestOf(rs, Listed(K, Precedes)[k])]
<1>1. Normalized(rs) = s
  BY DEF Normalized, KeysOf, LatestOf, Latest
<1>2. s \in Seq(Rec) /\ Ascends(s) /\ Held(s) = {r \in Kept(rs) : r.key \in K}
  BY ListedRecords
<1>3. {r \in Kept(rs) : r.key \in K} = Kept(rs)
  BY KeptKeys
<1> HIDE DEF s, K
<1> QED BY <1>1, <1>2, <1>3

LEMMA HandedIs ==
    ASSUME given \in Seq(Rec), NEW key
    PROVE  AnswerOf(Kept(given), key, Handed(key))
<1>1. CASE key \in KeysOf(given)
  <2>1. Handed(key) = <<LatestOf(given, key)>>
    BY <1>1 DEF Handed, LatestOf, KeysOf
  <2> QED BY <2>1, <1>1, LatestIs DEF AnswerOf
<1>2. CASE key \notin KeysOf(given)
  <2>1. Handed(key) = <<>>
    BY <1>2 DEF Handed, KeysOf
  <2> QED BY <2>1, <1>2, KeptKeys DEF AnswerOf
<1> QED BY <1>1, <1>2

LEMMA HandedInIs ==
    ASSUME given \in Seq(Rec), NEW start, NEW end
    PROVE  /\ HandedIn(start, end) \in Seq(Rec) /\ Ascends(HandedIn(start, end))
           /\ Held(HandedIn(start, end)) = {r \in Kept(given) : Within(r, start, end)}
<1> DEFINE K == {k \in KeysOf(given) : InRange(k, start, end)}
           s == [i \in DOMAIN Listed(K, Precedes) |-> Handed(Listed(K, Precedes)[i])[1]]
<1>1. HandedIn(start, end) = s
  BY DEF HandedIn, KeysOf
<1>2. ASSUME NEW k \in KeysOf(given) PROVE Handed(k)[1] = LatestOf(given, k)
  BY <1>2 DEF Handed, LatestOf, KeysOf
<1>3. \A i \in DOMAIN Listed(K, Precedes) : Listed(K, Precedes)[i] \in K
  <2>1. K \in SUBSET Seq(Nat) /\ IsFiniteSet(K)
    BY KeysType, FS_Subset
  <2> HIDE DEF K
  <2>2. ListOf(K, ByBytes(K), Listed(K, Precedes))
    BY <2>1, StringsListed
  <2> QED BY <2>2 DEF ListOf
<1>4. \A i \in DOMAIN s : s[i] = LatestOf(given, Listed(K, Precedes)[i])
  BY <1>2, <1>3
<1>5. DOMAIN s = DOMAIN Listed(K, Precedes) /\ s = [n \in DOMAIN s |-> s[n]]
  OBVIOUS
<1>6. K \in SUBSET KeysOf(given)
  OBVIOUS
<1>7. {r \in Kept(given) : r.key \in K} = {r \in Kept(given) : Within(r, start, end)}
  BY KeptKeys DEF InRange, Within
<1> HIDE DEF K, s
<1>8. s \in Seq(Rec) /\ Ascends(s) /\ Held(s) = {r \in Kept(given) : r.key \in K}
  BY <1>4, <1>5, <1>6, ListedRecords
<1> QED BY <1>1, <1>7, <1>8

-----------------------------------------------------------------------------
(* Blocks: where they end.                                                 *)

EndOf(rs, i) ==
    Max({n \in i .. Len(rs) : \A m \in i + 1 .. n : Fits(SubSeq(rs, i, m))})

PieceFrom(rs, i) == SubSeq(rs, i, EndOf(rs, i))

LEMMA EndIs ==
    ASSUME NEW rs \in Seq(Rec), NEW i \in 1 .. Len(rs)
    PROVE  EndOf(rs, i) \in i .. Len(rs)
<1> DEFINE S == {n \in i .. Len(rs) : \A m \in i + 1 .. n : Fits(SubSeq(rs, i, m))}
<1>1. Len(rs) \in Nat /\ i \in Nat
  BY LenProperties
<1>2. i .. Len(rs) \in Indices
  BY <1>1, IntervalIndices
<1>3. S \in SUBSET (i .. Len(rs))
  OBVIOUS
<1>4. i \in S
  BY <1>1
<1>5. EndOf(rs, i) = Max(S)
  BY DEF EndOf
<1> HIDE DEF S
<1>6. S \in Indices /\ S # {}
  BY <1>2, <1>3, <1>4, SubsetIndices
<1>7. Max(S) \in S
  BY <1>6, MaxIsGreatest
<1> QED BY <1>3, <1>5, <1>7

Cuts(rs, f) ==
    /\ f[1] = SplitDataBlocks(rs)
    /\ \A i \in 1 .. Len(rs) + 1 :
          f[i] = IF i > Len(rs) THEN <<>> ELSE <<PieceFrom(rs, i)>> \o f[EndOf(rs, i) + 1]

LEMMA CutsExist ==
    ASSUME NEW rs \in Seq(Rec)
    PROVE  \E f : Cuts(rs, f)
<1> DEFINE n == Len(rs) + 1
           T == {PieceFrom(rs, i) : i \in 1 .. n}
           S == Seq(T)
           Of(g) == [i \in 1 .. n |->
                        IF i > Len(rs) THEN <<>> ELSE <<PieceFrom(rs, i)>> \o g[EndOf(rs, i) + 1]]
           h == CHOOSE g : g = Of(g)
           stop == {i \in 1 .. n : i > Len(rs)}
           base == [i \in 1 .. n |-> <<>>]
           jump == [i \in 1 .. n |-> EndOf(rs, i) + 1]
           step == [i \in 1 .. n |-> [x \in S |-> <<PieceFrom(rs, i)>> \o x]]
<1>1. SplitDataBlocks(rs) = h[1]
  BY Zenon DEF SplitDataBlocks, PieceFrom, EndOf
<1>2. Len(rs) \in Nat /\ n \in Nat /\ 1 \in 1 .. n
  BY LenProperties
<1>3. \A i \in 1 .. n : i \notin stop => i \in 1 .. Len(rs)
  BY <1>2
<1>5. \A i \in 1 .. n : i \notin stop => jump[i] \in (i + 1) .. n
  <2> SUFFICES ASSUME NEW i \in 1 .. n, i \notin stop PROVE jump[i] \in (i + 1) .. n
    OBVIOUS
  <2>1. EndOf(rs, i) \in i .. Len(rs)
    BY <1>3, EndIs
  <2>2. jump[i] = EndOf(rs, i) + 1
    OBVIOUS
  <2> HIDE DEF jump
  <2> QED BY <1>2, <2>1, <2>2
<1>6. \A i \in 1 .. n, x \in S : step[i][x] \in S
  <2> SUFFICES ASSUME NEW i \in 1 .. n, NEW x \in S PROVE step[i][x] \in S
    OBVIOUS
  <2>1. PieceFrom(rs, i) \in T
    OBVIOUS
  <2> HIDE DEF T
  <2>2. <<PieceFrom(rs, i)>> \in S
    BY <2>1, OneElement
  <2>3. <<PieceFrom(rs, i)>> \o x \in S
    BY <2>2, ConcatProperties
  <2> QED BY <2>3
<1>7. Jumps(n, S, stop, base, jump, step)
  <2>1. \A i \in 1 .. n : i \in stop => base[i] \in S
    <3> HIDE DEF T
    <3>1. <<>> \in S
      OBVIOUS
    <3> QED BY <3>1
  <2> HIDE DEF n, S, stop, base, jump, step
  <2> QED BY <1>5, <1>6, <2>1, Zenon DEF Jumps
<1>8. PICK f \in [1..n -> S] : Follows(f, n, stop, base, jump, step)
  <2> HIDE DEF n, S, stop, base, jump, step
  <2> QED BY <1>2, <1>7, JumpRecursion
<1> HIDE DEF T
<1>9. ASSUME NEW i \in 1 .. n
      PROVE  f[i] = IF i > Len(rs) THEN <<>> ELSE <<PieceFrom(rs, i)>> \o f[EndOf(rs, i) + 1]
  <2>1. f[i] = IF i \in stop THEN base[i] ELSE step[i][f[jump[i]]]
    <3> HIDE DEF n, S, stop, base, jump, step
    <3> QED BY <1>8 DEF Follows
  <2>2. i \in stop <=> i > Len(rs)
    OBVIOUS
  <2>3. base[i] = <<>>
    OBVIOUS
  <2>4. i \notin stop => step[i][f[jump[i]]] = <<PieceFrom(rs, i)>> \o f[EndOf(rs, i) + 1]
    <3> SUFFICES ASSUME i \notin stop
                 PROVE  step[i][f[jump[i]]] = <<PieceFrom(rs, i)>> \o f[EndOf(rs, i) + 1]
      OBVIOUS
    <3>1. jump[i] \in 1 .. n /\ jump[i] = EndOf(rs, i) + 1
      BY <1>2, <1>5
    <3>2. f[jump[i]] \in S
      BY <1>8, <3>1
    <3>3. \A x \in S : step[i][x] = <<PieceFrom(rs, i)>> \o x
      OBVIOUS
    <3> HIDE DEF n, S, stop, base, jump, step
    <3> QED BY <3>1, <3>2, <3>3
  <2> HIDE DEF n, S, stop, base, jump, step
  <2> QED BY <2>1, <2>2, <2>3, <2>4
<1>10. f = Of(f)
  <2>1. \A i \in 1 .. n : f[i] = Of(f)[i]
    BY <1>9
  <2>2. f = [i \in 1 .. n |-> f[i]]
    BY <1>8
  <2>3. Of(f) = [i \in 1 .. n |-> Of(f)[i]]
    BY Zenon
  <2> HIDE DEF Of
  <2> QED BY <2>1, <2>2, <2>3
<1>11. h = Of(h)
  <2> HIDE DEF Of
  <2> QED BY <1>10
<1>12. \A i \in 1 .. n :
         h[i] = IF i > Len(rs) THEN <<>> ELSE <<PieceFrom(rs, i)>> \o h[EndOf(rs, i) + 1]
  <2> SUFFICES ASSUME NEW i \in 1 .. n
               PROVE  h[i] = IF i > Len(rs) THEN <<>> ELSE <<PieceFrom(rs, i)>> \o h[EndOf(rs, i) + 1]
    OBVIOUS
  <2>1. Of(h)[i] = IF i > Len(rs) THEN <<>> ELSE <<PieceFrom(rs, i)>> \o h[EndOf(rs, i) + 1]
    <3> HIDE DEF h
    <3> QED BY Zenon
  <2>2. h[i] = Of(h)[i]
    <3> HIDE DEF h, Of
    <3> QED BY <1>11, Zenon
  <2> HIDE DEF h, Of
  <2> QED BY <2>1, <2>2
<1> HIDE DEF h
<1>13. Cuts(rs, h)
  BY <1>1, <1>12, Zenon DEF Cuts
<1> QED BY <1>13

(* Blocks in order, with the records of rs from the i-th on among them.    *)
Blocks(rs, i, blocks) ==
    /\ blocks \in Seq(Seq(Rec))
    /\ \A b \in 1 .. Len(blocks) : blocks[b] # <<>> /\ Ascends(blocks[b])
    /\ \A b, c \in 1 .. Len(blocks) : b < c => AllBefore(Held(blocks[b]), Held(blocks[c]))
    /\ \A b \in 1 .. Len(blocks) : Held(blocks[b]) \subseteq {rs[j] : j \in i .. Len(rs)}
    /\ \A j \in i .. Len(rs) : \E b \in 1 .. Len(blocks) : rs[j] \in Held(blocks[b])

LEMMA BlocksEnd ==
    ASSUME NEW rs \in Seq(Rec), Ascends(rs), NEW i \in 1 .. Len(rs) + 1, i > Len(rs)
    PROVE  Blocks(rs, i, <<>>)
<1>1. Len(rs) \in Nat
  BY LenProperties
<1>2. i .. Len(rs) = {}
  BY <1>1
<1>3. <<>> \in Seq(Seq(Rec)) /\ 1 .. Len(<<>>) = {}
  OBVIOUS
<1> QED BY <1>2, <1>3 DEF Blocks

LEMMA BlocksGoOn ==
    ASSUME NEW rs \in Seq(Rec), Ascends(rs), NEW i \in 1 .. Len(rs), NEW e \in i .. Len(rs),
           NEW blocks, Blocks(rs, e + 1, blocks)
    PROVE  Blocks(rs, i, <<SubSeq(rs, i, e)>> \o blocks)
<1> DEFINE first == SubSeq(rs, i, e)
           all == <<first>> \o blocks
           m == Len(blocks)
<1>1. Len(rs) \in Nat
  BY LenProperties
<1>2. i \in 1 .. Len(rs) + 1 /\ e \in 0 .. Len(rs)
  BY <1>1
<1>3. /\ first \in Seq(Rec) /\ Ascends(first)
      /\ Held(first) = {rs[j] : j \in i .. e}
  BY <1>2, PieceOfRecords
<1>4. first # <<>>
  <2>1. rs[i] \in Held(first)
    BY <1>1, <1>3
  <2>2. Held(<<>>) = {}
    BY DEF Held
  <2> QED BY <2>1, <2>2
<1> HIDE DEF first
<1>5. blocks \in Seq(Seq(Rec)) /\ m \in Nat
  BY LenProperties DEF Blocks
<1>6. <<first>> \in Seq(Seq(Rec)) /\ Len(<<first>>) = 1 /\ <<first>>[1] = first
  BY <1>3
<1>7. /\ all \in Seq(Seq(Rec)) /\ Len(all) = 1 + m
      /\ \A k \in 1 .. 1 + m : all[k] = IF k <= 1 THEN <<first>>[k] ELSE blocks[k - 1]
  BY <1>5, <1>6, ConcatProperties
<1> HIDE DEF all, m
<1>8. 1 \in 1 .. 1 + m /\ all[1] = first
  BY <1>5, <1>6, <1>7
<1>9. \A k \in 1 .. 1 + m : k # 1 => k - 1 \in 1 .. m /\ all[k] = blocks[k - 1]
  <2> TAKE k \in 1 .. 1 + m
  <2> HAVE k # 1
  <2>1. ~(k <= 1) /\ k - 1 \in 1 .. m
    BY <1>5
  <2> QED BY <2>1, <1>7
<1>10. /\ \A b \in 1 .. m : blocks[b] # <<>> /\ Ascends(blocks[b])
       /\ \A b, c \in 1 .. m : b < c => AllBefore(Held(blocks[b]), Held(blocks[c]))
       /\ \A b \in 1 .. m : Held(blocks[b]) \subseteq {rs[j] : j \in e + 1 .. Len(rs)}
       /\ \A j \in e + 1 .. Len(rs) : \E b \in 1 .. m : rs[j] \in Held(blocks[b])
  BY DEF Blocks, m
<1>11. \A b \in 1 .. Len(all) : all[b] # <<>> /\ Ascends(all[b])
  BY <1>3, <1>4, <1>7, <1>8, <1>9, <1>10
<1>12. ASSUME NEW b \in 1 .. Len(all), NEW c \in 1 .. Len(all), b < c
       PROVE  AllBefore(Held(all[b]), Held(all[c]))
  <2>1. c # 1
    BY <1>12, <1>5, <1>7
  <2>2. c - 1 \in 1 .. m /\ all[c] = blocks[c - 1]
    BY <2>1, <1>7, <1>9
  <2>3. CASE b = 1
    <3>1. ASSUME NEW j \in i .. e, NEW k \in e + 1 .. Len(rs) PROVE Precedes(rs[j].key, rs[k].key)
      <4>1. j \in 1 .. Len(rs) /\ k \in 1 .. Len(rs) /\ j < k
        BY <1>1
      <4> QED BY <4>1 DEF Ascends
    <3>2. Held(all[c]) \subseteq {rs[j] : j \in e + 1 .. Len(rs)}
      BY <2>2, <1>10
    <3>3. Held(all[b]) = {rs[j] : j \in i .. e}
      BY <2>3, <1>3, <1>8
    <3> QED BY <3>1, <3>2, <3>3 DEF AllBefore
  <2>4. CASE b # 1
    <3>1. b - 1 \in 1 .. m /\ all[b] = blocks[b - 1]
      BY <2>4, <1>7, <1>9
    <3>2. b - 1 < c - 1
      BY <1>12, <1>5, <1>7
    <3> QED BY <3>1, <3>2, <2>2, <1>10
  <2> QED BY <2>3, <2>4
<1>13. ASSUME NEW b \in 1 .. Len(all), NEW x \in Held(all[b]) PROVE x \in {rs[j] : j \in i .. Len(rs)}
  <2>1. CASE b = 1
    <3>1. x \in {rs[j] : j \in i .. e}
      BY <2>1, <1>3, <1>8, <1>13
    <3>2. i .. e \subseteq i .. Len(rs)
      BY <1>1
    <3> QED BY <3>1, <3>2
  <2>2. CASE b # 1
    <3>1. x \in {rs[j] : j \in e + 1 .. Len(rs)}
      BY <2>2, <1>7, <1>9, <1>10, <1>13
    <3>2. e + 1 .. Len(rs) \subseteq i .. Len(rs)
      BY <1>1
    <3> QED BY <3>1, <3>2
  <2> QED BY <2>1, <2>2
<1>14. ASSUME NEW j \in i .. Len(rs) PROVE \E b \in 1 .. Len(all) : rs[j] \in Held(all[b])
  <2>1. CASE j <= e
    <3>1. j \in i .. e
      BY <2>1, <1>1
    <3>2. rs[j] \in Held(all[1])
      BY <3>1, <1>3, <1>8
    <3> QED BY <3>2, <1>7, <1>8
  <2>2. CASE ~(j <= e)
    <3>1. j \in e + 1 .. Len(rs)
      BY <2>2, <1>1
    <3>2. PICK b \in 1 .. m : rs[j] \in Held(blocks[b])
      BY <3>1, <1>10
    <3>3. b + 1 \in 1 .. 1 + m /\ b + 1 # 1 /\ b + 1 - 1 = b
      BY <1>5
    <3>4. all[b + 1] = blocks[b]
      BY <3>3, <1>9
    <3> QED BY <3>2, <3>3, <3>4, <1>7
  <2> QED BY <2>1, <2>2
<1>15. Blocks(rs, i, all)
  BY <1>7, <1>11, <1>12, <1>13, <1>14 DEF Blocks
<1> QED BY <1>15 DEF all, first

LEMMA SplitIs ==
    ASSUME NEW rs \in Seq(Rec), Ascends(rs)
    PROVE  Blocks(rs, 1, SplitDataBlocks(rs))
<1>1. PICK f : Cuts(rs, f)
  BY CutsExist
<1>2. Len(rs) \in Nat
  BY LenProperties
<1> DEFINE n == Len(rs) + 1
           bad == {i \in 1 .. n : ~Blocks(rs, i, f[i])}
<1>3. bad = {}
  <2> SUFFICES ASSUME bad # {} PROVE FALSE
    OBVIOUS
  <2>1. 1 .. n \in Indices
    BY <1>2, IntervalIndices
  <2>2. bad \in SUBSET (1 .. n)
    OBVIOUS
  <2> DEFINE i == Max(bad)
  <2>3. i \in bad /\ \A y \in bad : y <= i
    <3> HIDE DEF bad, n
    <3>1. bad \in Indices
      BY <2>1, <2>2, SubsetIndices
    <3> QED BY <3>1, MaxIsGreatest
  <2> HIDE DEF i
  <2>4. i \in 1 .. n /\ ~Blocks(rs, i, f[i])
    BY <2>3
  <2>5. f[i] = IF i > Len(rs) THEN <<>> ELSE <<PieceFrom(rs, i)>> \o f[EndOf(rs, i) + 1]
    BY <1>1, <2>4 DEF Cuts
  <2>6. CASE i > Len(rs)
    BY <2>4, <2>5, <2>6, BlocksEnd
  <2>7. CASE ~(i > Len(rs))
    <3>1. i \in 1 .. Len(rs)
      BY <2>4, <2>7, <1>2
    <3>2. EndOf(rs, i) \in i .. Len(rs)
      BY <3>1, EndIs
    <3>3. EndOf(rs, i) + 1 \in 1 .. n /\ ~(EndOf(rs, i) + 1 <= i)
      BY <3>1, <3>2, <1>2
    <3>4. EndOf(rs, i) + 1 \notin bad
      <4> HIDE DEF bad
      <4> QED BY <3>3, <2>3
    <3>5. Blocks(rs, EndOf(rs, i) + 1, f[EndOf(rs, i) + 1])
      BY <3>3, <3>4
    <3>6. Blocks(rs, i, <<SubSeq(rs, i, EndOf(rs, i))>> \o f[EndOf(rs, i) + 1])
      BY <3>1, <3>2, <3>5, BlocksGoOn
    <3> QED BY <3>6, <2>4, <2>5, <2>7 DEF PieceFrom
  <2> QED BY <2>6, <2>7
<1>4. Blocks(rs, 1, f[1])
  BY <1>2, <1>3
<1> QED BY <1>4, <1>1 DEF Cuts

-----------------------------------------------------------------------------
(* What was encoded is decoded.                                            *)

BeforeIn(g, n) == IF g[n - 1] = <<>> THEN <<>> ELSE Last(g[n - 1]).key

Grows(encoded, g) ==
    \A n \in 0 .. Len(encoded) :
       g[n] = IF n = 0 THEN <<>>
              ELSE Append(g[n - 1], [key  |-> KeyOf(encoded[n], BeforeIn(g, n)),
                                     text |-> encoded[n].text])

LEMMA GrownIs ==
    ASSUME NEW encoded, NEW p, p = [n \in 0 .. Len(encoded) |-> p[n]], Grows(encoded, p)
    PROVE  \E g : g[Len(encoded)] = DecodeDataBlock(encoded) /\ Grows(encoded, g)
<1> DEFINE Of(g) == [n \in 0 .. Len(encoded) |->
                        IF n = 0 THEN <<>>
                        ELSE Append(g[n - 1], [key  |-> KeyOf(encoded[n], BeforeIn(g, n)),
                                               text |-> encoded[n].text])]
           h == CHOOSE g : g = Of(g)
<1>1. DecodeDataBlock(encoded) = h[Len(encoded)]
  BY Zenon DEF DecodeDataBlock, BeforeIn
<1>2. p = Of(p)
  <2>1. \A n \in 0 .. Len(encoded) : p[n] = Of(p)[n]
    BY DEF Grows
  <2>2. Of(p) = [n \in 0 .. Len(encoded) |-> Of(p)[n]]
    BY Zenon
  <2> HIDE DEF Of
  <2> QED BY <2>1, <2>2
<1>3. h = Of(h)
  <2> HIDE DEF Of
  <2> QED BY <1>2
<1>4. \A n \in 0 .. Len(encoded) : h[n] = Of(h)[n]
  <2> HIDE DEF h, Of
  <2> QED BY <1>3, Zenon
<1> HIDE DEF h
<1>5. Grows(encoded, h)
  BY <1>4, Zenon DEF Grows
<1> QED BY <1>1, <1>5

LEMMA KeyRestored ==
    ASSUME NEW a \in Seq(Nat), NEW b \in Seq(Nat), NEW c \in Nat, c = 0 \/ c = SharedLen(b, a)
    PROVE  SubSeq(a, 1, c) \o SubSeq(b, c + 1, Len(b)) = b
<1>1. Len(a) \in Nat /\ Len(b) \in Nat
  BY LenProperties
<1>2. /\ c <= Len(b) /\ c <= Len(a)
      /\ \A i \in 1 .. c : b[i] = a[i]
  <2>1. CASE c = 0
    BY <2>1, <1>1
  <2>2. CASE c = SharedLen(b, a)
    BY <2>2, <1>1, SharedIs
  <2> QED BY <2>1, <2>2
<1>3. \A i \in 1 .. c : i \in 1 .. Len(a) /\ i \in 1 .. Len(b) /\ a[i] \in Nat /\ b[i] \in Nat
  <2>1. \A i \in 1 .. c : i \in 1 .. Len(a) /\ i \in 1 .. Len(b)
    BY <1>1, <1>2
  <2> QED BY <2>1, ElementOfSeq
<1>4. /\ SubSeq(a, 1, c) \in Seq(Nat)
      /\ Len(SubSeq(a, 1, c)) = IF 1 <= c THEN c - 1 + 1 ELSE 0
      /\ \A i \in 1 .. c - 1 + 1 : SubSeq(a, 1, c)[i] = a[1 + i - 1]
  BY <1>3, SubSeqProperties
<1>5. /\ SubSeq(b, 1, c) \in Seq(Nat)
      /\ Len(SubSeq(b, 1, c)) = IF 1 <= c THEN c - 1 + 1 ELSE 0
      /\ \A i \in 1 .. c - 1 + 1 : SubSeq(b, 1, c)[i] = b[1 + i - 1]
  BY <1>3, SubSeqProperties
<1>6. Len(SubSeq(a, 1, c)) = c /\ Len(SubSeq(b, 1, c)) = c
  BY <1>4, <1>5
<1>7. \A i \in 1 .. c : SubSeq(a, 1, c)[i] = SubSeq(b, 1, c)[i]
  <2> TAKE i \in 1 .. c
  <2>1. i \in 1 .. c - 1 + 1 /\ 1 + i - 1 = i
    OBVIOUS
  <2> QED BY <2>1, <1>2, <1>4, <1>5
<1>8. SubSeq(a, 1, c) = SubSeq(b, 1, c)
  BY <1>4, <1>5, <1>6, <1>7, SeqEqual
<1>9. SubSeq(b, 1, c) \o SubSeq(b, c + 1, Len(b)) = SubSeq(b, 1, Len(b))
  <2>1. 1 \in 1 .. Len(b) + 1 /\ c \in 1 - 1 .. Len(b) /\ Len(b) \in c .. Len(b)
    BY <1>1, <1>2
  <2> QED BY <2>1, ConcatAdjacentSubSeq
<1> QED BY <1>8, <1>9, SubSeqFull

LEMMA SharedAtIs ==
    ASSUME NEW s \in Seq(Rec), NEW n \in 1 .. Len(s)
    PROVE  /\ SharedAt(s, n) \in Nat
           /\ SharedAt(s, n) = 0 \/ (n # 1 /\ SharedAt(s, n) = SharedLen(s[n].key, s[n - 1].key))
<1>1. Len(s) \in Nat /\ Interval \in Nat \ {0}
  BY LenProperties, TableFormatAssumption
<1>2. CASE n = 1
  <2>1. (1 - 1) % Interval = 0
    BY <1>1, Division
  <2> QED BY <2>1, <1>2 DEF SharedAt
<1>3. CASE n # 1
  <2>1. n - 1 \in 1 .. Len(s)
    BY <1>1, <1>3
  <2>2. s[n].key \in Seq(Nat) /\ s[n - 1].key \in Seq(Nat)
    BY <2>1, HeldKeys
  <2>3. SharedLen(s[n].key, s[n - 1].key) \in 0 .. Len(s[n].key) /\ Len(s[n].key) \in Nat
    BY <2>2, SharedIs, LenProperties
  <2>4. SharedLen(s[n].key, s[n - 1].key) \in Nat
    BY <2>3
  <2>5. CASE (n - 1) % Interval = 0
    BY <2>5 DEF SharedAt
  <2>6. CASE (n - 1) % Interval # 0
    BY <2>4, <2>6, <1>3 DEF SharedAt
  <2> QED BY <2>5, <2>6
<1> QED BY <1>2, <1>3

LEMMA EncodedIs ==
    ASSUME NEW s \in Seq(Rec)
    PROVE  /\ Len(EncodeDataBlock(s)) = Len(s)
           /\ \A n \in 1 .. Len(s) :
                 /\ EncodeDataBlock(s)[n].shared = SharedAt(s, n)
                 /\ EncodeDataBlock(s)[n].suffix = SubSeq(s[n].key, SharedAt(s, n) + 1, Len(s[n].key))
                 /\ EncodeDataBlock(s)[n].text = s[n].text
<1>1. Len(s) \in Nat /\ DOMAIN s = 1 .. Len(s)
  BY LenProperties
<1> DEFINE e == EncodeDataBlock(s)
           T == {e[n] : n \in 1 .. Len(s)}
<1>2. e = [n \in 1 .. Len(s) |->
             [shared |-> SharedAt(s, n),
              suffix |-> SubSeq(s[n].key, SharedAt(s, n) + 1, Len(s[n].key)),
              text   |-> s[n].text]]
  BY <1>1 DEF EncodeDataBlock
<1> HIDE DEF e
<1>3. e \in [1 .. Len(s) -> T]
  BY <1>2
<1>4. Len(e) = Len(s)
  <2> HIDE DEF T
  <2> QED BY <1>1, <1>3, FunctionIsSequence
<1> QED BY <1>2, <1>4 DEF e

LEMMA BeginningGrows ==
    ASSUME NEW s \in Seq(Rec), NEW n \in 1 .. Len(s)
    PROVE  /\ SubSeq(s, 1, n - 1) \in Seq(Rec)
           /\ Append(SubSeq(s, 1, n - 1), s[n]) = SubSeq(s, 1, n)
           /\ n = 1 => SubSeq(s, 1, n - 1) = <<>>
           /\ n # 1 => /\ SubSeq(s, 1, n - 1) # <<>>
                       /\ Last(SubSeq(s, 1, n - 1)) = s[n - 1]
<1>1. Len(s) \in Nat
  BY LenProperties
<1>2. SubSeq(s, 1, n) = SubSeq(s, 1, n - 1) \o <<s[n]>>
  <2>1. 1 \in 1 .. Len(s) /\ n \in 1 .. Len(s)
    BY <1>1
  <2> QED BY <2>1, SubSeqRecursiveSecond
<1>3. \A i \in 1 .. n - 1 : i \in 1 .. Len(s) /\ s[i] \in Rec
  <2>1. \A i \in 1 .. n - 1 : i \in 1 .. Len(s)
    BY <1>1
  <2> QED BY <2>1, HeldKeys
<1> DEFINE t == SubSeq(s, 1, n - 1)
<1>4. /\ t \in Seq(Rec)
      /\ Len(t) = IF 1 <= n - 1 THEN n - 1 - 1 + 1 ELSE 0
      /\ \A i \in 1 .. n - 1 - 1 + 1 : t[i] = s[1 + i - 1]
  BY <1>1, <1>3, SubSeqProperties
<1> HIDE DEF t
<1>5. Append(t, s[n]) = t \o <<s[n]>>
  BY <1>4, HeldKeys, AppendIsConcat
<1>6. n = 1 => t = <<>>
  BY <1>4
<1>7. ASSUME n # 1 PROVE t # <<>> /\ Last(t) = s[n - 1]
  <2>1. Len(t) = n - 1 /\ n - 1 \in 1 .. n - 1 - 1 + 1 /\ 1 + (n - 1) - 1 = n - 1
    BY <1>1, <1>4, <1>7
  <2>2. t[n - 1] = s[n - 1]
    BY <2>1, <1>4
  <2>3. t # <<>>
    BY <2>1, <1>7
  <2> QED BY <2>1, <2>2, <2>3 DEF Last
<1> QED BY <1>2, <1>4, <1>5, <1>6, <1>7 DEF t

LEMMA DecodesBlock ==
    ASSUME NEW s \in Seq(Rec)
    PROVE  DecodeDataBlock(EncodeDataBlock(s)) = s
<1> DEFINE e == EncodeDataBlock(s)
           p == [n \in 0 .. Len(e) |-> SubSeq(s, 1, n)]
<1>1. Len(s) \in Nat
  BY LenProperties
<1>2. /\ Len(e) = Len(s)
      /\ \A n \in 1 .. Len(s) :
            /\ e[n].shared = SharedAt(s, n)
            /\ e[n].suffix = SubSeq(s[n].key, SharedAt(s, n) + 1, Len(s[n].key))
            /\ e[n].text = s[n].text
  BY EncodedIs
<1> HIDE DEF e
<1>3. \A n \in 0 .. Len(s) : p[n] = SubSeq(s, 1, n)
  BY <1>2
<1>4. p = [n \in 0 .. Len(e) |-> p[n]]
  OBVIOUS
<1> HIDE DEF p
<1>5. ASSUME NEW n \in 1 .. Len(s), NEW g, g[n - 1] = SubSeq(s, 1, n - 1)
      PROVE  Append(g[n - 1], [key |-> KeyOf(e[n], BeforeIn(g, n)), text |-> e[n].text])
                = SubSeq(s, 1, n)
  <2>1. s[n] \in Rec /\ s[n].key \in Seq(Nat)
    BY HeldKeys
  <2>2. KeyOf(e[n], BeforeIn(g, n)) =
           SubSeq(BeforeIn(g, n), 1, SharedAt(s, n)) \o SubSeq(s[n].key, SharedAt(s, n) + 1, Len(s[n].key))
    BY <1>2 DEF KeyOf
  <2>3. BeforeIn(g, n) \in Seq(Nat) /\ (n # 1 => BeforeIn(g, n) = s[n - 1].key)
    <3>1. CASE n = 1
      <4>1. BeforeIn(g, n) = <<>>
        BY <3>1, <1>5, BeginningGrows DEF BeforeIn
      <4> QED BY <4>1, <3>1
    <3>2. CASE n # 1
      <4>1. BeforeIn(g, n) = s[n - 1].key
        BY <3>2, <1>5, BeginningGrows DEF BeforeIn
      <4>2. n - 1 \in 1 .. Len(s)
        BY <3>2, <1>1
      <4> QED BY <4>1, <4>2, HeldKeys
    <3> QED BY <3>1, <3>2
  <2>4. /\ SharedAt(s, n) \in Nat
        /\ SharedAt(s, n) = 0 \/ SharedAt(s, n) = SharedLen(s[n].key, BeforeIn(g, n))
    <3>1. /\ SharedAt(s, n) \in Nat
          /\ SharedAt(s, n) = 0 \/ (n # 1 /\ SharedAt(s, n) = SharedLen(s[n].key, s[n - 1].key))
      BY SharedAtIs
    <3> QED BY <3>1, <2>3
  <2>5. KeyOf(e[n], BeforeIn(g, n)) = s[n].key
    BY <2>1, <2>2, <2>3, <2>4, KeyRestored
  <2>6. [key |-> s[n].key, text |-> s[n].text] = s[n]
    BY <2>1 DEF Rec
  <2>7. Append(SubSeq(s, 1, n - 1), s[n]) = SubSeq(s, 1, n)
    BY BeginningGrows
  <2> QED BY <2>5, <2>6, <2>7, <1>2, <1>5
<1>6. SubSeq(s, 1, 0) = <<>>
  BY SubSeqEmpty
<1>7. Grows(e, p)
  <2> SUFFICES ASSUME NEW n \in 0 .. Len(s)
               PROVE  p[n] = IF n = 0 THEN <<>>
                             ELSE Append(p[n - 1], [key  |-> KeyOf(e[n], BeforeIn(p, n)),
                                                    text |-> e[n].text])
    BY <1>2 DEF Grows
  <2>1. CASE n = 0
    BY <2>1, <1>3, <1>6
  <2>2. CASE n # 0
    <3>1. n \in 1 .. Len(s) /\ n - 1 \in 0 .. Len(s)
      BY <2>2, <1>1
    <3>2. p[n - 1] = SubSeq(s, 1, n - 1)
      BY <3>1, <1>3
    <3> QED BY <3>1, <3>2, <2>2, <1>3, <1>5
  <2> QED BY <2>1, <2>2
<1>8. PICK g : g[Len(e)] = DecodeDataBlock(e) /\ Grows(e, g)
  BY <1>4, <1>7, GrownIs
<1> DEFINE bad == {n \in 0 .. Len(s) : g[n] # SubSeq(s, 1, n)}
<1>9. bad = {}
  <2> SUFFICES ASSUME bad # {} PROVE FALSE
    OBVIOUS
  <2>1. bad \in SUBSET Nat
    OBVIOUS
  <2> DEFINE n == Min(bad)
  <2>2. n \in bad /\ \A y \in bad : n <= y
    <3> HIDE DEF bad
    <3> QED BY <2>1, LeastOfNaturals
  <2> HIDE DEF n
  <2>3. n \in 0 .. Len(s) /\ g[n] # SubSeq(s, 1, n)
    BY <2>2
  <2>4. g[n] = IF n = 0 THEN <<>>
               ELSE Append(g[n - 1], [key  |-> KeyOf(e[n], BeforeIn(g, n)), text |-> e[n].text])
    BY <1>2, <1>8, <2>3 DEF Grows
  <2>5. CASE n = 0
    BY <2>3, <2>4, <2>5, <1>6
  <2>6. CASE n # 0
    <3>1. n \in 1 .. Len(s) /\ n - 1 \in 0 .. Len(s) /\ ~(n <= n - 1)
      BY <2>3, <2>6, <1>1
    <3>2. n - 1 \notin bad
      <4> HIDE DEF bad
      <4> QED BY <3>1, <2>2
    <3>3. g[n - 1] = SubSeq(s, 1, n - 1)
      BY <3>1, <3>2
    <3> QED BY <3>1, <3>3, <2>3, <2>4, <2>6, <1>5
  <2> QED BY <2>5, <2>6
<1>10. g[Len(s)] = SubSeq(s, 1, Len(s))
  BY <1>1, <1>9
<1> QED BY <1>2, <1>8, <1>10, SubSeqFull DEF e

-----------------------------------------------------------------------------
(* The table that was written.                                             *)

BlockAt(b) == DecodeDataBlock(file[b].entries)

InBlocks(from) == {r \in Rec : \E b \in from .. Len(file) : r \in Held(BlockAt(b))}

BlockIs(b) ==
    /\ BlockAt(b) \in Seq(Rec) /\ Ascends(BlockAt(b))
    /\ Held(BlockAt(b)) \subseteq Held(Records)
    /\ file[b].first \in Seq(Nat) /\ file[b].last \in Seq(Nat)
    /\ \E r \in Held(BlockAt(b)) : r.key = file[b].first
    /\ \E r \in Held(BlockAt(b)) : r.key = file[b].last
    /\ \A r \in Held(BlockAt(b)) : ~Precedes(r.key, file[b].first) /\ ~Precedes(file[b].last, r.key)

TableBuilt ==
    /\ Records \in Seq(Rec) /\ Ascends(Records) /\ Held(Records) = Kept(given)
    /\ Len(file) \in Nat /\ DOMAIN file = 1 .. Len(file)
    /\ \A b \in 1 .. Len(file) : BlockIs(b)
    /\ \A b, c \in 1 .. Len(file) : b < c => AllBefore(Held(BlockAt(b)), Held(BlockAt(c)))
    /\ Held(Records) = InBlocks(1)

LEMMA EndsOf ==
    ASSUME NEW s \in Seq(Rec), s # <<>>, Ascends(s)
    PROVE  /\ s[1] \in Held(s) /\ s[Len(s)] \in Held(s)
           /\ \A r \in Held(s) : ~Precedes(r.key, s[1].key) /\ ~Precedes(s[Len(s)].key, r.key)
<1>1. Len(s) \in Nat /\ Len(s) # 0
  BY EmptySeq, LenProperties
<1>2. 1 \in 1 .. Len(s) /\ Len(s) \in 1 .. Len(s)
  BY <1>1
<1>3. ASSUME NEW r \in Held(s)
      PROVE  ~Precedes(r.key, s[1].key) /\ ~Precedes(s[Len(s)].key, r.key)
  <2>1. PICK i \in 1 .. Len(s) : r = s[i]
    BY DEF Held
  <2>2. s[i].key \in Seq(Nat) /\ s[1].key \in Seq(Nat) /\ s[Len(s)].key \in Seq(Nat)
    BY <1>2, HeldKeys
  <2>3. ~Precedes(r.key, s[1].key)
    <3>1. CASE i = 1
      BY <3>1, <2>1, <2>2, KeyOrder
    <3>2. CASE i # 1
      <4>1. 1 < i
        BY <1>1, <3>2
      <4>2. Precedes(s[1].key, s[i].key)
        BY <1>2, <4>1 DEF Ascends
      <4> QED BY <4>2, <2>1, <2>2, KeyOrder
    <3> QED BY <3>1, <3>2
  <2>4. ~Precedes(s[Len(s)].key, r.key)
    <3>1. CASE i = Len(s)
      BY <3>1, <2>1, <2>2, KeyOrder
    <3>2. CASE i # Len(s)
      <4>1. i < Len(s)
        BY <1>1, <3>2
      <4>2. Precedes(s[i].key, s[Len(s)].key)
        BY <1>2, <4>1 DEF Ascends
      <4> QED BY <4>2, <2>1, <2>2, KeyOrder
    <3> QED BY <3>1, <3>2
  <2> QED BY <2>3, <2>4
<1> QED BY <1>2, <1>3 DEF Held

LEMMA BuiltIs ==
    ASSUME NEW rs \in Seq(Rec), Ascends(rs)
    PROVE  LET blocks == SplitDataBlocks(rs)
               t == Built(rs)
           IN  /\ Len(t) = Len(blocks) /\ DOMAIN t = 1 .. Len(t) /\ Len(t) \in Nat
               /\ \A b \in 1 .. Len(t) :
                     /\ DecodeDataBlock(t[b].entries) = blocks[b]
                     /\ blocks[b] \in Seq(Rec)
                     /\ t[b].first = blocks[b][1].key
                     /\ t[b].last = blocks[b][Len(blocks[b])].key
<1> DEFINE blocks == SplitDataBlocks(rs)
           t == Built(rs)
           T == {t[b] : b \in 1 .. Len(blocks)}
<1>1. Blocks(rs, 1, blocks)
  BY SplitIs
<1>2. t = [b \in DOMAIN blocks |->
             [entries |-> EncodeDataBlock(blocks[b]),
              first   |-> blocks[b][1].key,
              last    |-> blocks[b][Len(blocks[b])].key]]
  BY DEF Built
<1> HIDE DEF blocks, t
<1>3. blocks \in Seq(Seq(Rec)) /\ Len(blocks) \in Nat /\ DOMAIN blocks = 1 .. Len(blocks)
  <2>1. blocks \in Seq(Seq(Rec))
    BY <1>1 DEF Blocks
  <2> QED BY <2>1, LenProperties
<1>4. t \in [1 .. Len(blocks) -> T]
  BY <1>2, <1>3
<1>5. Len(t) = Len(blocks) /\ DOMAIN t = 1 .. Len(t)
  <2> HIDE DEF T
  <2> QED BY <1>3, <1>4, FunctionIsSequence
<1>6. ASSUME NEW b \in 1 .. Len(t)
      PROVE  /\ DecodeDataBlock(t[b].entries) = blocks[b]
             /\ blocks[b] \in Seq(Rec)
             /\ t[b].first = blocks[b][1].key
             /\ t[b].last = blocks[b][Len(blocks[b])].key
  <2>1. blocks[b] \in Seq(Rec)
    BY <1>3, <1>5, ElementOfSeq
  <2>2. t[b] = [entries |-> EncodeDataBlock(blocks[b]),
                first   |-> blocks[b][1].key,
                last    |-> blocks[b][Len(blocks[b])].key]
    BY <1>2, <1>3, <1>5
  <2>3. DecodeDataBlock(EncodeDataBlock(blocks[b])) = blocks[b]
    BY <2>1, DecodesBlock
  <2> QED BY <2>1, <2>2, <2>3
<1> QED BY <1>3, <1>5, <1>6 DEF blocks, t

LEMMA TableIs ==
    ASSUME given \in Seq(Rec), file = Built(Normalized(given))
    PROVE  TableBuilt
<1> DEFINE R == Records
           blocks == SplitDataBlocks(R)
<1>1. R \in Seq(Rec) /\ Ascends(R) /\ Held(R) = Kept(given)
  BY NormalizedIs DEF Records
<1>2. /\ Len(file) = Len(blocks) /\ DOMAIN file = 1 .. Len(file) /\ Len(file) \in Nat
      /\ \A b \in 1 .. Len(file) :
            /\ DecodeDataBlock(file[b].entries) = blocks[b]
            /\ blocks[b] \in Seq(Rec)
            /\ file[b].first = blocks[b][1].key
            /\ file[b].last = blocks[b][Len(blocks[b])].key
  <2>1. file = Built(R)
    BY DEF Records
  <2> HIDE DEF R
  <2> QED BY <1>1, <2>1, BuiltIs
<1>3. Blocks(R, 1, blocks)
  <2> HIDE DEF R
  <2> QED BY <1>1, SplitIs
<1> HIDE DEF blocks, R
<1>4. /\ \A b \in 1 .. Len(file) : blocks[b] # <<>> /\ Ascends(blocks[b])
      /\ \A b, c \in 1 .. Len(file) : b < c => AllBefore(Held(blocks[b]), Held(blocks[c]))
      /\ \A b \in 1 .. Len(file) : Held(blocks[b]) \subseteq {R[j] : j \in 1 .. Len(R)}
      /\ \A j \in 1 .. Len(R) : \E b \in 1 .. Len(file) : R[j] \in Held(blocks[b])
  BY <1>2, <1>3 DEF Blocks
<1>5. \A b \in 1 .. Len(file) : BlockAt(b) = blocks[b]
  BY <1>2 DEF BlockAt
<1>6. \A b \in 1 .. Len(file) : Held(BlockAt(b)) \subseteq Held(R)
  BY <1>4, <1>5 DEF Held
<1>7. ASSUME NEW b \in 1 .. Len(file) PROVE BlockIs(b)
  <2>1. blocks[b] \in Seq(Rec) /\ blocks[b] # <<>> /\ Ascends(blocks[b])
    BY <1>2, <1>4
  <2>2. /\ blocks[b][1] \in Held(blocks[b]) /\ blocks[b][Len(blocks[b])] \in Held(blocks[b])
        /\ \A r \in Held(blocks[b]) :
              ~Precedes(r.key, blocks[b][1].key) /\ ~Precedes(blocks[b][Len(blocks[b])].key, r.key)
    BY <2>1, EndsOf
  <2>3. file[b].first = blocks[b][1].key /\ file[b].last = blocks[b][Len(blocks[b])].key
    BY <1>2
  <2>4. \A r \in Held(blocks[b]) : r.key \in Seq(Nat)
    BY <2>1, HeldKeys DEF Held
  <2>5. Held(blocks[b]) \subseteq Held(Records)
    BY <1>5, <1>6 DEF R
  <2> DEFINE B == blocks[b]
  <2>6. BlockAt(b) = B
    BY <1>5
  <2> HIDE DEF B
  <2> QED BY <2>1, <2>2, <2>3, <2>4, <2>5, <2>6 DEF BlockIs, B
<1>8. \A b, c \in 1 .. Len(file) : b < c => AllBefore(Held(BlockAt(b)), Held(BlockAt(c)))
  BY <1>4, <1>5
<1>9. ASSUME NEW r \in Held(R) PROVE r \in InBlocks(1)
  <2>1. PICK j \in 1 .. Len(R) : r = R[j]
    BY DEF Held
  <2>2. r \in Rec
    BY <2>1, <1>1, HeldKeys
  <2> QED BY <2>1, <2>2, <1>4, <1>5 DEF InBlocks
<1>10. ASSUME NEW r \in InBlocks(1) PROVE r \in Held(R)
  BY <1>6 DEF InBlocks
<1>11. Held(R) = InBlocks(1)
  BY <1>9, <1>10
<1> QED BY <1>1, <1>2, <1>7, <1>8, <1>11 DEF TableBuilt, R

LEMMA JoinedBlocks ==
    ASSUME NEW ss \in Seq(Seq(Rec)),
           \A b \in 1 .. Len(ss) : Ascends(ss[b]),
           \A b, c \in 1 .. Len(ss) : b < c => AllBefore(Held(ss[b]), Held(ss[c]))
    PROVE  /\ FlattenSeq(ss) \in Seq(Rec) /\ Ascends(FlattenSeq(ss))
           /\ Held(FlattenSeq(ss)) = {r \in Rec : \E b \in 1 .. Len(ss) : r \in Held(ss[b])}
<1>1. PICK p : Joins(Rec, ss, p)
  BY JoinsExist
<1>2. FlattenSeq(ss) = p[Len(ss)]
  BY <1>1, FlattenIs
<1>3. Len(ss) \in Nat
  BY LenProperties
<1>4. /\ p \in [0 .. Len(ss) -> Seq(Rec)] /\ p[0] = <<>>
      /\ \A k \in 1 .. Len(ss) : p[k] = p[k - 1] \o ss[k]
  BY <1>1 DEF Joins
<1> DEFINE Among(k) == {r \in Rec : \E b \in 1 .. k : r \in Held(ss[b])}
           Good(k) == Ascends(p[k]) /\ Held(p[k]) = Among(k)
           bad == {k \in 0 .. Len(ss) : ~Good(k)}
<1>5. bad = {}
  <2> SUFFICES ASSUME bad # {} PROVE FALSE
    OBVIOUS
  <2>1. bad \in SUBSET Nat
    OBVIOUS
  <2> DEFINE k == Min(bad)
  <2>2. k \in bad /\ \A y \in bad : k <= y
    <3> HIDE DEF bad
    <3> QED BY <2>1, LeastOfNaturals
  <2> HIDE DEF k
  <2>3. k \in 0 .. Len(ss) /\ ~Good(k)
    BY <2>2
  <2>4. CASE k = 0
    <3>1. Ascends(<<>>) /\ Held(<<>>) = {}
      BY DEF Ascends, Held
    <3>2. Among(0) = {}
      OBVIOUS
    <3> QED BY <3>1, <3>2, <2>3, <2>4, <1>4
  <2>5. CASE k # 0
    <3>1. k \in 1 .. Len(ss) /\ k - 1 \in 0 .. Len(ss) /\ ~(k <= k - 1)
      BY <2>3, <2>5, <1>3
    <3>2. k - 1 \notin bad
      <4> HIDE DEF bad
      <4> QED BY <3>1, <2>2
    <3>3. Good(k - 1)
      BY <3>1, <3>2
    <3>4. p[k - 1] \in Seq(Rec) /\ ss[k] \in Seq(Rec) /\ p[k] = p[k - 1] \o ss[k]
      BY <3>1, <1>4, ElementOfSeq
    <3>5. AllBefore(Held(p[k - 1]), Held(ss[k]))
      <4> SUFFICES ASSUME NEW x \in Among(k - 1), NEW y \in Held(ss[k]) PROVE Precedes(x.key, y.key)
        BY <3>3 DEF AllBefore
      <4>1. PICK b \in 1 .. k - 1 : x \in Held(ss[b])
        OBVIOUS
      <4>2. b \in 1 .. Len(ss) /\ b < k
        BY <3>1, <1>3
      <4> QED BY <4>1, <4>2, <3>1 DEF AllBefore
    <3>6. Ascends(p[k])
      BY <3>1, <3>3, <3>4, <3>5, AscendsTogether
    <3>7. Held(p[k]) = Among(k - 1) \cup Held(ss[k])
      BY <3>3, <3>4, HeldTogether
    <3>8. \A r \in Held(ss[k]) : r \in Rec
      BY <3>4, HeldKeys DEF Held
    <3>9. 1 .. k = (1 .. k - 1) \cup {k}
      BY <3>1
    <3>10. Among(k) = Among(k - 1) \cup Held(ss[k])
      BY <3>8, <3>9
    <3> QED BY <3>6, <3>7, <3>10, <2>3
  <2> QED BY <2>4, <2>5
<1>6. Len(ss) \in 0 .. Len(ss)
  BY <1>3
<1>7. Good(Len(ss))
  BY <1>5, <1>6
<1> QED BY <1>2, <1>4, <1>6, <1>7

LEMMA BlockFound ==
    ASSUME TableBuilt, NEW key \in Seq(Nat), NEW r \in Held(Records), r.key = key
    PROVE  /\ BlockOf(key) \in 1 .. Len(file) /\ r \in Held(BlockAt(BlockOf(key)))
           /\ ~Precedes(key, file[BlockOf(key)].first)
<1> DEFINE P == {b \in 1 .. Len(file) : ~Precedes(file[b].last, key)}
<1>1. Len(file) \in Nat /\ DOMAIN file = 1 .. Len(file) /\ \A b \in 1 .. Len(file) : BlockIs(b)
  BY DEF TableBuilt
<1>2. ASSUME NEW b \in 1 .. Len(file), NEW c \in 1 .. Len(file), b < c,
             NEW x \in Held(BlockAt(c))
      PROVE  Precedes(file[b].last, x.key)
  <2>1. PICK y \in Held(BlockAt(b)) : y.key = file[b].last
    BY <1>1 DEF BlockIs
  <2>2. AllBefore(Held(BlockAt(b)), Held(BlockAt(c)))
    BY <1>2 DEF TableBuilt
  <2> QED BY <2>1, <2>2 DEF AllBefore
<1>3. ASSUME NEW b \in P, NEW c \in 1 .. Len(file), b < c PROVE c \in P
  <2>1. PICK x \in Held(BlockAt(c)) : x.key = file[c].last
    BY <1>1 DEF BlockIs
  <2>2. Precedes(file[b].last, file[c].last)
    BY <2>1, <1>2, <1>3
  <2>3. file[b].last \in Seq(Nat) /\ file[c].last \in Seq(Nat)
    BY <1>1 DEF BlockIs
  <2> QED BY <2>2, <2>3, KeyOrder
<1>4. BlockOf(key) = Min({Len(file) + 1} \cup P)
  BY <1>1 DEF BlockOf
<1>5. P \in SUBSET (1 .. Len(file))
  OBVIOUS
<1> DEFINE b == BlockOf(key)
<1>6. FoundAt(Len(file), P, b)
  <2> HIDE DEF P
  <2>1. FoundAt(Len(file), P, Min({Len(file) + 1} \cup P))
    BY <1>1, <1>3, <1>5, FirstFrom
  <2> QED BY <2>1, <1>4
<1> HIDE DEF b
<1>7. b \in 1 .. Len(file) + 1 /\ \A i \in 1 .. Len(file) : i \in P <=> b <= i
  BY <1>6 DEF FoundAt
<1>8. PICK c \in 1 .. Len(file) : r \in Held(BlockAt(c))
  BY DEF TableBuilt, InBlocks
<1>9. c \in P
  BY <1>1, <1>8 DEF BlockIs
<1>10. b <= c /\ b \in 1 .. Len(file)
  BY <1>1, <1>7, <1>9
<1>11. b \in P
  BY <1>7, <1>10, <1>1
<1>12. b = c
  <2> SUFFICES ASSUME b # c PROVE FALSE
    OBVIOUS
  <2>1. b < c
    BY <1>1, <1>10
  <2>2. Precedes(file[b].last, key)
    BY <2>1, <1>2, <1>8, <1>10
  <2> QED BY <2>2, <1>11
<1>13. ~Precedes(key, file[b].first)
  BY <1>1, <1>8, <1>10, <1>12 DEF BlockIs
<1> QED BY <1>8, <1>10, <1>12, <1>13 DEF b

LEMMA GetRecordIs ==
    ASSUME TableBuilt, NEW key \in Seq(Nat), key # <<>>, NEW chance \in BOOLEAN
    PROVE  \/ GetRecord(key, chance) = Failed /\ opened /\ damaged # {}
           \/ AnswerOf(Held(Records), key, GetRecord(key, chance))
<1> DEFINE b == BlockOf(key)
           foreign == key \notin {r.key : r \in ToSet(Records)} /\ ~chance
           outside == b > Len(file) \/ Precedes(key, file[b].first)
<1>1. Records \in Seq(Rec) /\ Ascends(Records) /\ Len(file) \in Nat /\ \A c \in 1 .. Len(file) : BlockIs(c)
  BY DEF TableBuilt
<1>2. GetRecord(key, chance) =
         IF foreign THEN <<>>
         ELSE IF ~opened THEN At(Records, key)
         ELSE IF outside THEN <<>>
         ELSE IF b \in damaged THEN Failed
         ELSE At(BlockAt(b), key)
  BY Zenon DEF GetRecord, BlockAt
<1>3. ASSUME NEW r \in Held(Records), r.key = key
      PROVE  /\ ~foreign
             /\ b \in 1 .. Len(file) /\ r \in Held(BlockAt(b)) /\ ~outside
  <2>1. ToSet(Records) = Held(Records)
    BY <1>1, LenProperties DEF ToSet, Held
  <2>2. b \in 1 .. Len(file) /\ r \in Held(BlockAt(b)) /\ ~Precedes(key, file[b].first)
    BY <1>3, BlockFound
  <2>3. ~(b > Len(file))
    BY <2>2, <1>1
  <2> QED BY <2>1, <2>2, <2>3, <1>3
<1>4. CASE foreign
  BY <1>2, <1>3, <1>4 DEF AnswerOf
<1>5. CASE ~foreign /\ ~opened
  BY <1>1, <1>2, <1>5, AtIs
<1>6. CASE ~foreign /\ opened /\ outside
  BY <1>2, <1>3, <1>6 DEF AnswerOf
<1>7. CASE ~foreign /\ opened /\ ~outside /\ b \in damaged
  BY <1>2, <1>7
<1>8. CASE ~foreign /\ opened /\ ~outside /\ b \notin damaged
  <2>1. GetRecord(key, chance) = At(BlockAt(b), key)
    BY <1>2, <1>8, Zenon
  <2>2. b \in 1 .. Len(file)
    <3>1. b \in 1 .. Len(file) + 1
      <4>1. b = Min({Len(file) + 1} \cup {c \in DOMAIN file : ~Precedes(file[c].last, key)})
        BY DEF BlockOf
      <4>2. {Len(file) + 1} \cup {c \in DOMAIN file : ~Precedes(file[c].last, key)} \in SUBSET (1 .. Len(file) + 1)
        BY <1>1 DEF TableBuilt
      <4> DEFINE S == {Len(file) + 1} \cup {c \in DOMAIN file : ~Precedes(file[c].last, key)}
      <4>3. S # {} /\ S \in SUBSET (1 .. Len(file) + 1) /\ b = Min(S)
        BY <4>1, <4>2
      <4> HIDE DEF S, b
      <4>4. S \in SUBSET Nat
        BY <4>3, <1>1
      <4>5. Min(S) \in S
        BY <4>3, <4>4, LeastOfNaturals
      <4> QED BY <4>3, <4>5
    <3> HIDE DEF b
    <3>2. ~(b > Len(file))
      BY <1>8
    <3> QED BY <3>1, <3>2, <1>1
  <2> HIDE DEF b, outside, foreign
  <2>3. BlockAt(b) \in Seq(Rec) /\ Ascends(BlockAt(b)) /\ Held(BlockAt(b)) \subseteq Held(Records)
    BY <2>2, <1>1 DEF BlockIs
  <2>4. AnswerOf(Held(BlockAt(b)), key, At(BlockAt(b), key))
    BY <2>3, AtIs
  <2>5. \A r \in Held(Records) : r.key = key => r \in Held(BlockAt(b))
    BY <1>3
  <2>6. AnswerOf(Held(Records), key, At(BlockAt(b), key))
    BY <2>3, <2>4, <2>5 DEF AnswerOf
  <2> QED BY <2>1, <2>6
<1> QED BY <1>4, <1>5, <1>6, <1>7, <1>8

ReadsRange(held, start, end, answer) ==
    /\ answer \in Seq(Rec) /\ Ascends(answer)
    /\ Held(answer) = {r \in held : Within(r, start, end)}

(* No record of a block that is not needed is in the range.                *)
LEMMA NeededIs ==
    ASSUME TableBuilt, NEW start \in Seq(Nat), NEW end \in Seq(Nat), NEW b \in 1 .. Len(file),
           NEW r \in Held(BlockAt(b)), Within(r, start, end)
    PROVE  BlockNeeded(b, start, end)
<1>1. BlockIs(b)
  BY DEF TableBuilt
<1>2. r.key \in Seq(Nat) /\ ~Precedes(r.key, file[b].first) /\ ~Precedes(file[b].last, r.key)
  <2>1. BlockAt(b) \in Seq(Rec)
    BY <1>1 DEF BlockIs
  <2> QED BY <2>1, <1>1, HeldKeys DEF BlockIs, Held
<1>3. file[b].first \in Seq(Nat) /\ file[b].last \in Seq(Nat)
  BY <1>1 DEF BlockIs
<1>4. NotBefore(file[b].last, start)
  BY <1>2, <1>3, KeyOrder DEF Within, NotBefore
<1>5. ~Beyond(file[b].first, end)
  BY <1>2, <1>3, KeyOrder DEF Within, Beyond
<1> QED BY <1>4, <1>5 DEF BlockNeeded

LEMMA EmptyRangeIs ==
    ASSUME NEW start \in Seq(Nat), NEW end \in Seq(Nat), NEW s \in Seq(Rec), s # <<>>, Ascends(s),
           \/ EmptyRange(start, end)
           \/ ~NotBefore(Last(s).key, start)
           \/ Beyond(s[1].key, end),
           NEW r \in Held(s)
    PROVE  ~Within(r, start, end)
<1>1. /\ s[1] \in Held(s) /\ s[Len(s)] \in Held(s)
      /\ \A x \in Held(s) : ~Precedes(x.key, s[1].key) /\ ~Precedes(s[Len(s)].key, x.key)
  BY EndsOf
<1>2. \A x \in Held(s) : x.key \in Seq(Nat)
  BY HeldKeys DEF Held
<1>3. s[1].key \in Seq(Nat) /\ s[Len(s)].key \in Seq(Nat) /\ r.key \in Seq(Nat)
  BY <1>1, <1>2
<1>4. ~Precedes(r.key, s[1].key) /\ ~Precedes(s[Len(s)].key, r.key)
  BY <1>1
<1>5. CASE EmptyRange(start, end)
  BY <1>3, <1>5, KeyOrder DEF EmptyRange, Beyond, Within, NotBefore
<1>6. CASE ~NotBefore(Last(s).key, start)
  <2>1. ~NotBefore(s[Len(s)].key, start)
    BY <1>6 DEF Last
  <2> QED BY <2>1, <1>3, <1>4, KeyOrder DEF Within, NotBefore
<1>7. CASE Beyond(s[1].key, end)
  BY <1>3, <1>4, <1>7, KeyOrder DEF Within, Beyond
<1> QED BY <1>5, <1>6, <1>7

LEMMA NothingRead ==
    ASSUME NEW held, NEW start, NEW end, \A r \in held : ~Within(r, start, end)
    PROVE  ReadsRange(held, start, end, <<>>)
<1>1. Held(<<>>) = {} /\ Ascends(<<>>) /\ <<>> \in Seq(Rec)
  BY DEF Held, Ascends
<1> QED BY <1>1 DEF ReadsRange

LEMMA ScanTableIs ==
    ASSUME TableBuilt, Records # <<>>, NEW start \in Seq(Nat), NEW end \in Seq(Nat)
    PROVE  \/ ScanTable(start, end) = Failed /\ opened /\ damaged # {}
           \/ ReadsRange(Held(Records), start, end, ScanTable(start, end))
<1> DEFINE needed == {b \in DOMAIN file : BlockNeeded(b, start, end)}
           pieces == [b \in DOMAIN file |->
                         IF b \in needed THEN ScanSorted(BlockAt(b), start, end) ELSE <<>>]
           apart == EmptyRange(start, end) \/ ~KeyRangesOverlap(start, end)
<1>1. ScanTable(start, end) =
         IF apart THEN <<>>
         ELSE IF ~opened THEN ScanSorted(Records, start, end)
         ELSE IF needed \cap damaged # {} THEN Failed
         ELSE FlattenSeq(pieces)
  BY Zenon DEF ScanTable, BlockAt
<1>2. /\ Records \in Seq(Rec) /\ Ascends(Records)
      /\ Len(file) \in Nat /\ DOMAIN file = 1 .. Len(file)
      /\ \A b \in 1 .. Len(file) : BlockIs(b)
      /\ \A b, c \in 1 .. Len(file) : b < c => AllBefore(Held(BlockAt(b)), Held(BlockAt(c)))
      /\ Held(Records) = InBlocks(1)
  BY DEF TableBuilt
<1>3. CASE apart
  <2>1. \A r \in Held(Records) : ~Within(r, start, end)
    <3>1. EmptyRange(start, end) \/ ~NotBefore(Last(Records).key, start) \/ Beyond(Records[1].key, end)
      BY <1>3 DEF KeyRangesOverlap
    <3> QED BY <3>1, <1>2, EmptyRangeIs
  <2>2. ScanTable(start, end) = <<>>
    BY <1>1, <1>3, Zenon
  <2> QED BY <2>1, <2>2, NothingRead
<1>4. CASE ~apart /\ ~opened
  <2>1. ScanTable(start, end) = ScanSorted(Records, start, end)
    BY <1>1, <1>4, Zenon
  <2> QED BY <2>1, <1>2, ScanIs DEF ReadsRange
<1>5. CASE ~apart /\ opened /\ needed \cap damaged # {}
  <2>1. ScanTable(start, end) = Failed
    BY <1>1, <1>5, Zenon
  <2>2. damaged # {}
    BY <1>5
  <2> QED BY <2>1, <2>2, <1>5
<1>6. CASE ~apart /\ opened /\ ~(needed \cap damaged # {})
  <2>1. ScanTable(start, end) = FlattenSeq(pieces)
    BY <1>1, <1>6, Zenon
  <2>2. \A b \in 1 .. Len(file) : b \in needed <=> BlockNeeded(b, start, end)
    BY <1>2
  <2>3. \A b \in 1 .. Len(file) :
           pieces[b] = IF b \in needed THEN ScanSorted(BlockAt(b), start, end) ELSE <<>>
    BY <1>2
  <2>4. pieces = [b \in 1 .. Len(file) |-> pieces[b]]
    BY <1>2
  <2> HIDE DEF pieces, needed
  <2>5. \A b \in 1 .. Len(file) : ReadsRange(Held(BlockAt(b)), start, end, pieces[b])
    <3> TAKE b \in 1 .. Len(file)
    <3>1. BlockAt(b) \in Seq(Rec) /\ Ascends(BlockAt(b))
      BY <1>2 DEF BlockIs
    <3>2. CASE b \in needed
      <4>1. pieces[b] = ScanSorted(BlockAt(b), start, end)
        BY <2>3, <3>2
      <4> QED BY <4>1, <3>1, ScanIs DEF ReadsRange
    <3>3. CASE b \notin needed
      <4>1. pieces[b] = <<>>
        BY <2>3, <3>3
      <4>2. \A r \in Held(BlockAt(b)) : ~Within(r, start, end)
        BY <2>2, <3>3, NeededIs
      <4> QED BY <4>1, <4>2, NothingRead
    <3> QED BY <3>2, <3>3
  <2>6. \A b \in 1 .. Len(file) :
           /\ pieces[b] \in Seq(Rec) /\ Ascends(pieces[b])
           /\ Held(pieces[b]) = {r \in Held(BlockAt(b)) : Within(r, start, end)}
    BY <2>5 DEF ReadsRange
  <2>7. pieces \in [1 .. Len(file) -> Seq(Rec)]
    BY <2>4, <2>6
  <2>8. pieces \in Seq(Seq(Rec)) /\ Len(pieces) = Len(file)
    BY <2>7, <1>2, FunctionIsSequence
  <2>9. \A b, c \in 1 .. Len(file) : b < c => AllBefore(Held(pieces[b]), Held(pieces[c]))
    BY <2>6, <1>2 DEF AllBefore
  <2>10. /\ FlattenSeq(pieces) \in Seq(Rec) /\ Ascends(FlattenSeq(pieces))
         /\ Held(FlattenSeq(pieces)) = {r \in Rec : \E b \in 1 .. Len(pieces) : r \in Held(pieces[b])}
    BY <2>6, <2>8, <2>9, JoinedBlocks
  <2>11. {r \in Rec : \E b \in 1 .. Len(file) : r \in Held(pieces[b])}
            = {r \in Held(Records) : Within(r, start, end)}
    BY <2>6, <1>2 DEF InBlocks
  <2> QED BY <2>1, <2>8, <2>10, <2>11 DEF ReadsRange
<1> QED BY <1>3, <1>4, <1>5, <1>6, Zenon

(* Nothing is damaged or read before there is a table.                     *)
TableInv ==
    /\ given \in Seq(Rec)
    /\ given # <<>> => file = Built(Normalized(given))
    /\ damaged \subseteq 0 .. Len(file)
    /\ opened => 0 \notin damaged
    /\ given = <<>> => ~opened /\ damaged = {} /\ iterator = NoIterator /\ yielded = <<>>

LEMMA RecordsThere ==
    ASSUME TableInv, given # <<>>
    PROVE  TableBuilt /\ Records # <<>>
<1>1. TableBuilt
  BY TableIs DEF TableInv
<1>2. Len(given) \in Nat /\ DOMAIN given = 1 .. Len(given) /\ 1 \in 1 .. Len(given)
  <2>1. Len(given) \in Nat \ {0}
    BY EmptySeq DEF TableInv
  <2> QED BY <2>1, LenProperties DEF TableInv
<1>3. LatestOf(given, given[1].key) \in Kept(given)
  <2>1. given[1].key \in KeysOf(given)
    BY <1>2 DEF KeysOf
  <2> QED BY <2>1, LatestIs DEF TableInv
<1>4. Records # <<>>
  <2>1. Held(<<>>) = {}
    BY DEF Held
  <2> QED BY <2>1, <1>1, <1>3 DEF TableBuilt
<1> QED BY <1>1, <1>4

LEMMA SameRange ==
    ASSUME TableInv, given # <<>>, NEW start, NEW end, NEW answer,
           ReadsRange(Held(Records), start, end, answer)
    PROVE  answer = HandedIn(start, end)
<1>1. Held(Records) = Kept(given) /\ given \in Seq(Rec)
  BY RecordsThere DEF TableBuilt, TableInv
<1>2. /\ HandedIn(start, end) \in Seq(Rec) /\ Ascends(HandedIn(start, end))
      /\ Held(HandedIn(start, end)) = {r \in Kept(given) : Within(r, start, end)}
  BY <1>1, HandedInIs
<1> QED BY <1>1, <1>2, SameHeld DEF ReadsRange

LEMMA BoundType ==
    /\ \A key \in TableKey : key \in Seq(Nat) /\ key # <<>>
    /\ \A bound \in Bound : bound \in Seq(Nat)
<1>1. \A key \in TableKey : key \in Seq(Nat) /\ key # <<>>
  BY TableFormatAssumption
<1>2. <<>> \in Seq(Nat)
  OBVIOUS
<1> QED BY <1>1, <1>2 DEF Bound

LEMMA LookupRight ==
    ASSUME TableInv, given # <<>>, NEW key \in TableKey, NEW chance \in BOOLEAN
    PROVE  \/ GetRecord(key, chance) = Failed /\ opened /\ damaged # {}
           \/ GetRecord(key, chance) = Handed(key)
<1>1. TableBuilt /\ given \in Seq(Rec)
  BY RecordsThere DEF TableInv
<1>2. \/ GetRecord(key, chance) = Failed /\ opened /\ damaged # {}
      \/ AnswerOf(Held(Records), key, GetRecord(key, chance))
  BY <1>1, BoundType, GetRecordIs
<1>3. AnswerOf(Held(Records), key, Handed(key))
  BY <1>1, HandedIs DEF TableBuilt
<1>4. Records \in Seq(Rec) /\ Ascends(Records)
  BY <1>1 DEF TableBuilt
<1> QED BY <1>2, <1>3, <1>4, OneAnswer

LEMMA ScanRight ==
    ASSUME TableInv, given # <<>>, NEW start \in Bound, NEW end \in Bound
    PROVE  \/ ScanTable(start, end) = Failed /\ opened /\ damaged # {}
           \/ ScanTable(start, end) = HandedIn(start, end)
<1>1. TableBuilt /\ Records # <<>>
  BY RecordsThere
<1>2. \/ ScanTable(start, end) = Failed /\ opened /\ damaged # {}
      \/ ReadsRange(Held(Records), start, end, ScanTable(start, end))
  BY <1>1, BoundType, ScanTableIs
<1> QED BY <1>2, SameRange

LEMMA NotFailed ==
    ASSUME NEW s \in Seq(Rec)
    PROVE  s # Failed
<1> SUFFICES ASSUME s = Failed PROVE FALSE
  OBVIOUS
<1>1. Len(Failed) = 1 /\ Failed[1] = [key |-> <<>>]
  BY DEF Failed
<1>2. 1 \in 1 .. Len(s) /\ s[1].key = <<>>
  BY <1>1
<1> QED BY <1>2, HeldKeys

LEMMA VerifyRight ==
    ASSUME TableInv, given # <<>>
    PROVE  Verified <=> ~opened \/ damaged = {}
<1> DEFINE s == ScanTable(<<>>, <<>>)
<1>1. TableBuilt /\ Records # <<>> /\ <<>> \in Bound /\ <<>> \in Seq(Nat)
  BY RecordsThere DEF Bound
<1>2. Records \in Seq(Rec) /\ Ascends(Records) /\ Len(file) \in Nat /\ DOMAIN file = 1 .. Len(file)
  BY <1>1 DEF TableBuilt
<1>3. \A r \in Held(Records) : Within(r, <<>>, <<>>)
  BY DEF Within, NotBefore, Beyond
<1>4. CASE ~opened \/ damaged = {}
  <2>1. ReadsRange(Held(Records), <<>>, <<>>, s)
    BY <1>1, <1>4, ScanTableIs
  <2>2. s = Records
    <3>1. {r \in Held(Records) : Within(r, <<>>, <<>>)} = Held(Records)
      BY <1>3
    <3> HIDE DEF s
    <3> QED BY <2>1, <3>1, <1>2, SameHeld DEF ReadsRange
  <2>3. Records # Failed
    BY <1>2, NotFailed
  <2>4. Len(Records) \in Nat
    BY <1>2, LenProperties
  <2>5. \A i \in 2 .. Len(Records) : Precedes(Records[i - 1].key, Records[i].key)
    <3> TAKE i \in 2 .. Len(Records)
    <3>1. i - 1 \in 1 .. Len(Records) /\ i \in 1 .. Len(Records) /\ i - 1 < i
      BY <2>4
    <3> QED BY <3>1, <1>2 DEF Ascends
  <2>6. Verified <=> /\ s # Failed
                     /\ Len(s) = Len(Records)
                     /\ \A i \in 2 .. Len(s) : Precedes(s[i - 1].key, s[i].key)
                     /\ s # <<>> => s[1].key = Records[1].key /\ Last(s).key = Last(Records).key
    BY Zenon DEF Verified
  <2> HIDE DEF s
  <2>7. Verified
    BY <2>2, <2>3, <2>5, <2>6
  <2> QED BY <2>7, <1>4
<1>5. CASE opened /\ damaged # {}
  <2>1. PICK d \in damaged : d \in 1 .. Len(file)
    <3>1. PICK d \in damaged : TRUE
      BY <1>5
    <3>2. d \in 0 .. Len(file) /\ d # 0
      BY <1>5, <3>1 DEF TableInv
    <3> QED BY <3>1, <3>2, <1>2
  <2>2. BlockNeeded(d, <<>>, <<>>)
    BY DEF BlockNeeded, NotBefore, Beyond
  <2>3. ~EmptyRange(<<>>, <<>>) /\ KeyRangesOverlap(<<>>, <<>>)
    BY <1>1 DEF EmptyRange, KeyRangesOverlap, NotBefore, Beyond
  <2> DEFINE needed == {b \in DOMAIN file : BlockNeeded(b, <<>>, <<>>)}
             pieces == [b \in DOMAIN file |->
                           IF b \in needed THEN ScanSorted(BlockAt(b), <<>>, <<>>) ELSE <<>>]
  <2>4. s = IF EmptyRange(<<>>, <<>>) \/ ~KeyRangesOverlap(<<>>, <<>>) THEN <<>>
            ELSE IF ~opened THEN ScanSorted(Records, <<>>, <<>>)
            ELSE IF needed \cap damaged # {} THEN Failed
            ELSE FlattenSeq(pieces)
    BY Zenon DEF ScanTable, BlockAt
  <2>5. needed \cap damaged # {}
    BY <2>1, <2>2, <1>2
  <2>6. s = Failed
    <3> HIDE DEF s, needed, pieces
    <3> QED BY <2>3, <2>4, <2>5, <1>5, Zenon
  <2>7. ~Verified
    BY <2>6, Zenon DEF Verified
  <2> QED BY <2>7, <1>5
<1> QED BY <1>4, <1>5

LEMMA AnswersFollow == TableInv => TableAnswers
<1> SUFFICES ASSUME TableInv, given # <<>>, iterator = NoIterator
             PROVE  LET intact == ~opened \/ damaged = {} IN
                    /\ \A key \in TableKey, chance \in BOOLEAN :
                          GetRecord(key, chance) \in
                              {Handed(key)} \cup IF intact THEN {} ELSE {Failed}
                    /\ \A start, end \in Bound :
                          ScanTable(start, end) \in
                              {HandedIn(start, end)} \cup IF intact THEN {} ELSE {Failed}
                    /\ Verified <=> intact
  BY Zenon DEF TableAnswers
<1> DEFINE intact == ~opened \/ damaged = {}
           Extra == IF intact THEN {} ELSE {Failed}
<1>1. opened /\ damaged # {} => Failed \in Extra
  OBVIOUS
<1> HIDE DEF Extra
<1>2. ASSUME NEW key \in TableKey, NEW chance \in BOOLEAN
      PROVE  GetRecord(key, chance) \in {Handed(key)} \cup Extra
  BY <1>1, LookupRight
<1>3. ASSUME NEW start \in Bound, NEW end \in Bound
      PROVE  ScanTable(start, end) \in {HandedIn(start, end)} \cup Extra
  BY <1>1, ScanRight
<1>4. Verified <=> intact
  BY VerifyRight
<1> QED BY <1>2, <1>3, <1>4 DEF Extra

-----------------------------------------------------------------------------
(* Steps keep what the answers rest on.                                    *)

LEMMA RecordType ==
    /\ Record \subseteq Rec
    /\ \A rs \in BoundedSeq(Record, MaxRecords) : rs \in Seq(Rec)
<1>1. Record \subseteq Rec
  BY TableFormatAssumption DEF Record, Rec
<1>2. ASSUME NEW rs \in BoundedSeq(Record, MaxRecords) PROVE rs \in Seq(Rec)
  <2>1. PICK m \in 0 .. MaxRecords : rs \in [1 .. m -> Record]
    BY DEF BoundedSeq, SeqOf
  <2>2. rs \in [1 .. m -> Rec] /\ m \in Nat
    BY <2>1, <1>1, TableFormatAssumption
  <2> QED BY <2>2, FunctionIsSequence
<1> QED BY <1>1, <1>2

LEMMA TableStarts == TableInit => TableInv
<1> SUFFICES ASSUME TableInit PROVE TableInv
  OBVIOUS
<1>1. <<>> \in Seq(Rec)
  OBVIOUS
<1> QED BY <1>1 DEF TableInit, TableInv

LEMMA TableKeeps ==
    ASSUME TableInv, [TableNext]_tableVars
    PROVE  TableInv'
<1>1. CASE UNCHANGED tableVars
  BY <1>1 DEF TableInv, tableVars
<1>2. ASSUME NEW rs \in BoundedSeq(Record, MaxRecords), WriteSStable(rs) PROVE TableInv'
  <2>1. given = <<>> /\ given' = rs /\ file' = Built(Normalized(rs))
        /\ opened' = opened /\ damaged' = damaged /\ iterator' = iterator /\ yielded' = yielded
    BY <1>2 DEF WriteSStable
  <2>2. rs \in Seq(Rec)
    BY RecordType
  <2>3. ~opened /\ damaged = {} /\ iterator = NoIterator /\ yielded = <<>>
    BY <2>1 DEF TableInv
  <2> QED BY <2>1, <2>2, <2>3 DEF TableInv
<1>3. CASE DamageFile
  <2>1. given # <<>> /\ ~opened /\ given' = given /\ file' = file /\ opened' = opened
    BY <1>3 DEF DamageFile
  <2>2. PICK part \in 0 .. Len(file) : damaged' = {part}
    BY <1>3 DEF DamageFile
  <2> QED BY <2>1, <2>2 DEF TableInv
<1>4. CASE OpenSStable
  BY <1>4 DEF OpenSStable, TableInv
<1>5. ASSUME NEW start \in Bound, NEW end \in Bound, NewIterator(start, end) PROVE TableInv'
  <2>1. given # <<>> /\ given' = given /\ file' = file /\ opened' = opened /\ damaged' = damaged
    BY <1>5 DEF NewIterator
  <2> QED BY <2>1 DEF TableInv
<1>6. CASE NextRecord
  <2>1. iterator.at = "record" /\ given' = given /\ file' = file /\ opened' = opened /\ damaged' = damaged
    BY <1>6 DEF NextRecord
  <2>2. iterator # NoIterator
    BY <2>1 DEF NoIterator
  <2> QED BY <2>1, <2>2 DEF TableInv
<1>7. CASE CloseIterator
  BY <1>7 DEF CloseIterator, TableInv
<1> QED BY <1>1, <1>2, <1>3, <1>4, <1>5, <1>6, <1>7 DEF TableNext

(* A lookup and a scan of a table answer the last record that was handed   *)
(* to the writer for a key (normalizeRecords), whatever blocks, restart    *)
(* points and damage there are, or else an error; and Verify finds exactly *)
(* the files that are damaged.                                             *)
THEOREM TablesAnswerRight == TableSpec => []TableAnswers
<1>1. TableInv /\ [TableNext]_tableVars => TableInv'
  BY TableKeeps
<1> QED BY <1>1, TableStarts, AnswersFollow, PTL DEF TableSpec

-----------------------------------------------------------------------------
(* The iterator: which block it loads next.                                *)

Iter(at, s, e, b, rs, i) ==
    [at |-> at, start |-> s, end |-> e, block |-> b, records |-> rs, index |-> i]

FirstIn(b, s) == FirstAt(BlockAt(b), s)

StopsAt(s, e) ==
    {b \in 1 .. Len(file) + 1 :
        \/ b > Len(file)
        \/ BlockNeeded(b, s, e) /\ (b \in damaged \/ ~(FirstIn(b, s) > Len(BlockAt(b))))}

LoadAt(it, b) ==
    IF b > Len(file) THEN [it EXCEPT !.at = "end", !.block = b]
    ELSE IF b \in damaged THEN [it EXCEPT !.at = "error", !.block = b + 1]
    ELSE Here([it EXCEPT !.block = b + 1, !.records = BlockAt(b), !.index = FirstIn(b, it.start)])

Loads(it, h) ==
    \A b \in 1 .. Len(file) + 1 :
       h[b] = IF b \in StopsAt(it.start, it.end) THEN LoadAt(it, b) ELSE h[b + 1]

LEMMA LoadsExist ==
    ASSUME TableBuilt, NEW it
    PROVE  \E h : /\ Loads(it, h)
                  /\ PositionCurrent(it) =
                        IF it.index <= Len(it.records) THEN Here(it)
                        ELSE IF ~opened THEN [it EXCEPT !.at = "end"]
                        ELSE h[it.block]
<1> DEFINE n == Len(file) + 1
           S == {LoadAt(it, b) : b \in 1 .. n}
           Of(g) == [b \in 1 .. n |->
                        IF b > Len(file) THEN [it EXCEPT !.at = "end", !.block = b]
                        ELSE IF ~BlockNeeded(b, it.start, it.end) THEN g[b + 1]
                        ELSE IF b \in damaged THEN [it EXCEPT !.at = "error", !.block = b + 1]
                        ELSE IF FirstIn(b, it.start) > Len(BlockAt(b)) THEN g[b + 1]
                        ELSE Here([it EXCEPT !.block = b + 1, !.records = BlockAt(b),
                                             !.index = FirstIn(b, it.start)])]
           h == CHOOSE g : g = Of(g)
           stop == StopsAt(it.start, it.end)
           base == [b \in 1 .. n |-> LoadAt(it, b)]
           jump == [b \in 1 .. n |-> b + 1]
           step == [b \in 1 .. n |-> [x \in S |-> x]]
<1>1. PositionCurrent(it) = IF it.index <= Len(it.records) THEN Here(it)
                            ELSE IF ~opened THEN [it EXCEPT !.at = "end"]
                            ELSE h[it.block]
  BY Zenon DEF PositionCurrent, FirstIn, BlockAt
<1>2. Len(file) \in Nat /\ n \in Nat
  BY DEF TableBuilt
<1>3. ASSUME NEW b \in 1 .. n, NEW g
      PROVE  Of(g)[b] = IF b \in stop THEN LoadAt(it, b) ELSE g[b + 1]
  <2>1. Of(g)[b] =
           IF b > Len(file) THEN [it EXCEPT !.at = "end", !.block = b]
           ELSE IF ~BlockNeeded(b, it.start, it.end) THEN g[b + 1]
           ELSE IF b \in damaged THEN [it EXCEPT !.at = "error", !.block = b + 1]
           ELSE IF FirstIn(b, it.start) > Len(BlockAt(b)) THEN g[b + 1]
           ELSE Here([it EXCEPT !.block = b + 1, !.records = BlockAt(b),
                                !.index = FirstIn(b, it.start)])
    BY Zenon
  <2>2. LoadAt(it, b) =
           IF b > Len(file) THEN [it EXCEPT !.at = "end", !.block = b]
           ELSE IF b \in damaged THEN [it EXCEPT !.at = "error", !.block = b + 1]
           ELSE Here([it EXCEPT !.block = b + 1, !.records = BlockAt(b),
                                !.index = FirstIn(b, it.start)])
    BY Zenon DEF LoadAt
  <2>3. b \in stop <=> \/ b > Len(file)
                       \/ BlockNeeded(b, it.start, it.end)
                          /\ (b \in damaged \/ ~(FirstIn(b, it.start) > Len(BlockAt(b))))
    BY Zenon DEF StopsAt
  <2> DEFINE A == [it EXCEPT !.at = "end", !.block = b]
             B == [it EXCEPT !.at = "error", !.block = b + 1]
             C == Here([it EXCEPT !.block = b + 1, !.records = BlockAt(b), !.index = FirstIn(b, it.start)])
             G == g[b + 1]
             X == Of(g)[b]
             Y == LoadAt(it, b)
             p == b > Len(file)
             q == BlockNeeded(b, it.start, it.end)
             r == b \in damaged
             t == FirstIn(b, it.start) > Len(BlockAt(b))
             z == b \in stop
  <2>4. /\ X = IF p THEN A ELSE IF ~q THEN G ELSE IF r THEN B ELSE IF t THEN G ELSE C
        /\ Y = IF p THEN A ELSE IF r THEN B ELSE C
        /\ z <=> p \/ (q /\ (r \/ ~t))
    BY <2>1, <2>2, <2>3, Zenon
  <2> HIDE DEF A, B, C, G, X, Y, p, q, r, t, z
  <2>5. X = IF z THEN Y ELSE G
    BY <2>4, Zenon
  <2> QED BY <2>5 DEF X, Y, G, z
<1> HIDE DEF Of, stop
<1>4. n \in stop
  BY <1>2 DEF stop, StopsAt
<1>5. \A b \in 1 .. n : b \notin stop => jump[b] \in (b + 1) .. n
  <2> SUFFICES ASSUME NEW b \in 1 .. n, b \notin stop PROVE b + 1 \in (b + 1) .. n
    OBVIOUS
  <2> QED BY <1>2, <1>4
<1>6. Jumps(n, S, stop, base, jump, step)
  <2>1. \A b \in 1 .. n : b \in stop => base[b] \in S
    OBVIOUS
  <2>2. \A b \in 1 .. n, x \in S : b \notin stop => step[b][x] \in S
    OBVIOUS
  <2> HIDE DEF n, S, base, jump, step
  <2> QED BY <1>5, <2>1, <2>2, Zenon DEF Jumps
<1>7. PICK f \in [1..n -> S] : Follows(f, n, stop, base, jump, step)
  <2> HIDE DEF n, S, base, jump, step
  <2> QED BY <1>2, <1>6, JumpRecursion
<1>8. ASSUME NEW b \in 1 .. n PROVE f[b] = IF b \in stop THEN LoadAt(it, b) ELSE f[b + 1]
  <2>1. f[b] = IF b \in stop THEN base[b] ELSE step[b][f[jump[b]]]
    <3> HIDE DEF n, S, base, jump, step
    <3> QED BY <1>7 DEF Follows
  <2>2. base[b] = LoadAt(it, b)
    OBVIOUS
  <2>3. b \notin stop => step[b][f[jump[b]]] = f[b + 1]
    <3> SUFFICES ASSUME b \notin stop PROVE step[b][f[jump[b]]] = f[b + 1]
      OBVIOUS
    <3>1. jump[b] = b + 1
      OBVIOUS
    <3>2. jump[b] \in 1 .. n
      BY <1>2, <1>5
    <3>3. f[b + 1] \in S
      <4> HIDE DEF n, S, jump
      <4> QED BY <1>7, <3>1, <3>2
    <3>4. \A x \in S : step[b][x] = x
      OBVIOUS
    <3> HIDE DEF n, S, base, jump, step
    <3> QED BY <3>1, <3>3, <3>4
  <2> HIDE DEF n, S, base, jump, step
  <2> QED BY <2>1, <2>2, <2>3
<1>9. f = Of(f)
  <2>1. \A b \in 1 .. n : f[b] = Of(f)[b]
    BY <1>3, <1>8
  <2>2. f = [b \in 1 .. n |-> f[b]]
    BY <1>7
  <2>3. Of(f) = [b \in 1 .. n |-> Of(f)[b]]
    BY Zenon DEF Of
  <2> QED BY <2>1, <2>2, <2>3
<1>10. h = Of(h)
  BY <1>9
<1>11. \A b \in 1 .. n : h[b] = IF b \in stop THEN LoadAt(it, b) ELSE h[b + 1]
  <2> SUFFICES ASSUME NEW b \in 1 .. n
               PROVE  h[b] = IF b \in stop THEN LoadAt(it, b) ELSE h[b + 1]
    OBVIOUS
  <2>1. Of(h)[b] = IF b \in stop THEN LoadAt(it, b) ELSE h[b + 1]
    BY <1>3
  <2>2. h[b] = Of(h)[b]
    <3> HIDE DEF h
    <3> QED BY <1>10, Zenon
  <2> HIDE DEF h
  <2> QED BY <2>1, <2>2
<1> HIDE DEF h
<1>12. Loads(it, h)
  BY <1>11, Zenon DEF Loads, stop
<1> QED BY <1>1, <1>12

(* The block the iterator comes to, and those it passes on the way.        *)
ComesTo(it, c) ==
    /\ c \in it.block .. Len(file) + 1
    /\ c \in StopsAt(it.start, it.end)
    /\ \A d \in it.block .. c - 1 : d \notin StopsAt(it.start, it.end)
    /\ PositionCurrent(it) = LoadAt(it, c)

LEMMA NextBlock ==
    ASSUME TableBuilt, NEW it, it.block \in 1 .. Len(file) + 1, opened,
           ~(it.index <= Len(it.records))
    PROVE  \E c : ComesTo(it, c)
<1>1. PICK h : /\ Loads(it, h)
               /\ PositionCurrent(it) =
                     IF it.index <= Len(it.records) THEN Here(it)
                     ELSE IF ~opened THEN [it EXCEPT !.at = "end"]
                     ELSE h[it.block]
  BY LoadsExist
<1>2. PositionCurrent(it) = h[it.block]
  BY <1>1, Zenon
<1>3. Len(file) \in Nat
  BY DEF TableBuilt
<1> DEFINE k == it.block
           n == Len(file) + 1
           S == {b \in k .. n : b \in StopsAt(it.start, it.end)}
           c == Min(S)
<1>4. n \in S
  BY <1>3 DEF StopsAt
<1>5. S \in SUBSET Nat
  BY <1>3
<1>6. c \in S /\ \A y \in S : c <= y
  <2> HIDE DEF S
  <2> QED BY <1>4, <1>5, LeastOfNaturals
<1> HIDE DEF c
<1>7. c \in k .. n /\ c \in StopsAt(it.start, it.end)
  BY <1>6
<1>8. ASSUME NEW d \in k .. c - 1 PROVE d \notin StopsAt(it.start, it.end)
  <2>1. d \in k .. n /\ ~(c <= d)
    BY <1>3, <1>7
  <2>2. d \notin S
    <3> HIDE DEF S
    <3> QED BY <2>1, <1>6
  <2> QED BY <2>1, <2>2
<1> HIDE DEF S
<1>9. \A b \in 1 .. n : h[b] = IF b \in StopsAt(it.start, it.end) THEN LoadAt(it, b) ELSE h[b + 1]
  BY <1>1, Zenon DEF Loads
<1> DEFINE bad == {d \in k .. c : h[d] # LoadAt(it, c)}
<1>10. bad = {}
  <2> SUFFICES ASSUME bad # {} PROVE FALSE
    OBVIOUS
  <2>1. k .. c \in Indices
    BY <1>3, <1>7, IntervalIndices
  <2>2. bad \in SUBSET (k .. c)
    OBVIOUS
  <2> DEFINE d == Max(bad)
  <2>3. d \in bad /\ \A y \in bad : y <= d
    <3> HIDE DEF bad, k
    <3>1. bad \in Indices
      BY <2>1, <2>2, SubsetIndices
    <3> QED BY <3>1, MaxIsGreatest
  <2> HIDE DEF d
  <2>4. d \in k .. c /\ h[d] # LoadAt(it, c)
    BY <2>3
  <2>5. d \in 1 .. n
    BY <1>3, <1>7, <2>4
  <2>6. d # c
    BY <2>4, <2>5, <1>7, <1>9
  <2>7. d \in k .. c - 1 /\ d + 1 \in k .. c /\ ~(d + 1 <= d)
    BY <1>3, <1>7, <2>4, <2>6
  <2>8. h[d] = h[d + 1]
    BY <2>5, <2>7, <1>8, <1>9
  <2>9. d + 1 \notin bad
    <3> HIDE DEF bad
    <3> QED BY <2>3, <2>7
  <2> QED BY <2>4, <2>7, <2>8, <2>9
<1>11. h[k] = LoadAt(it, c)
  <2>1. k \in k .. c
    BY <1>3, <1>7
  <2> QED BY <2>1, <1>10
<1>12. ComesTo(it, c)
  BY <1>2, <1>7, <1>8, <1>11 DEF ComesTo
<1> QED BY <1>12

-----------------------------------------------------------------------------
(* The records in the range that was asked for, and how far the iterator   *)
(* is: `done' are those behind it.                                         *)
Asked(s, e) == {r \in Held(Records) : Within(r, s, e)}

Frontier(s, e, b, rs, i, done) ==
    /\ s \in Seq(Nat) /\ e \in Seq(Nat)
    /\ rs \in Seq(Rec) /\ Ascends(rs) /\ Held(rs) \subseteq Held(Records)
    /\ i \in 1 .. Len(rs) + 1 /\ b \in 1 .. Len(file) + 1
    /\ done \subseteq Asked(s, e)
    /\ \A r \in Asked(s, e) : \/ r \in done
                              \/ \E j \in i .. Len(rs) : r = rs[j]
                              \/ opened /\ r \in InBlocks(b)
    /\ \A j \in i .. Len(rs) : NotBefore(rs[j].key, s)
    /\ \A j \in i .. Len(rs), y \in done : Precedes(y.key, rs[j].key)
    /\ opened => AllBefore(done, InBlocks(b)) /\ AllBefore(Held(rs), InBlocks(b))

LEMMA RecordKeys ==
    ASSUME TableBuilt, NEW r \in Held(Records)
    PROVE  r \in Rec /\ r.key \in Seq(Nat)
<1>1. Records \in Seq(Rec)
  BY DEF TableBuilt
<1> QED BY <1>1, HeldKeys DEF Held

LEMMA FrontierLower ==
    ASSUME TableBuilt, NEW s, NEW e, NEW b, NEW rs, NEW i, NEW done, Frontier(s, e, b, rs, i, done)
    PROVE  LowerPart(done, Asked(s, e))
<1>1. done \subseteq Asked(s, e)
  BY DEF Frontier
<1>2. ASSUME NEW x \in done, NEW y \in Asked(s, e), Precedes(y.key, x.key) PROVE y \in done
  <2>1. x.key \in Seq(Nat) /\ y.key \in Seq(Nat)
    BY <1>1, RecordKeys DEF Asked
  <2>2. ~Precedes(x.key, y.key)
    BY <1>2, <2>1, KeyOrder
  <2>3. \/ y \in done
        \/ \E j \in i .. Len(rs) : y = rs[j]
        \/ opened /\ y \in InBlocks(b)
    BY DEF Frontier
  <2>4. ASSUME NEW j \in i .. Len(rs), y = rs[j] PROVE FALSE
    BY <2>2, <2>4 DEF Frontier
  <2>5. ASSUME opened, y \in InBlocks(b) PROVE FALSE
    BY <2>2, <2>5 DEF Frontier, AllBefore
  <2> QED BY <2>3, <2>4, <2>5
<1> QED BY <1>1, <1>2 DEF LowerPart

LEMMA FrontierBeyond ==
    ASSUME TableBuilt, NEW s, NEW e, NEW b, NEW rs, NEW i, NEW done, Frontier(s, e, b, rs, i, done),
           i <= Len(rs), Beyond(rs[i].key, e)
    PROVE  done = Asked(s, e)
<1>1. /\ done \subseteq Asked(s, e) /\ rs \in Seq(Rec) /\ Ascends(rs) /\ e \in Seq(Nat)
      /\ i \in 1 .. Len(rs) + 1
  BY DEF Frontier
<1>2. Len(rs) \in Nat
  BY <1>1, LenProperties
<1>3. i \in 1 .. Len(rs)
  BY <1>1, <1>2
<1>4. rs[i].key \in Seq(Nat) /\ rs[i] \in Held(rs)
  BY <1>1, <1>3, HeldKeys
<1>5. ASSUME NEW r \in Asked(s, e), r \notin done PROVE FALSE
  <2>1. r.key \in Seq(Nat) /\ ~Beyond(r.key, e)
    BY RecordKeys DEF Asked, Within
  <2>2. \/ \E j \in i .. Len(rs) : r = rs[j]
        \/ opened /\ r \in InBlocks(b)
    BY <1>5 DEF Frontier
  <2>3. ~Precedes(rs[i].key, r.key) /\ rs[i].key # r.key
    BY <1>1, <1>4, <2>1, KeyOrder DEF Beyond
  <2>4. ASSUME NEW j \in i .. Len(rs), r = rs[j] PROVE FALSE
    <3>1. i # j
      BY <2>3, <2>4
    <3>2. j \in 1 .. Len(rs) /\ i < j
      BY <3>1, <1>2, <1>3
    <3>3. Precedes(rs[i].key, rs[j].key)
      BY <3>2, <1>1, <1>3 DEF Ascends
    <3> QED BY <3>3, <2>3, <2>4
  <2>5. ASSUME opened, r \in InBlocks(b) PROVE FALSE
    <3>1. AllBefore(Held(rs), InBlocks(b))
      BY <2>5 DEF Frontier
    <3> QED BY <3>1, <1>4, <2>3, <2>5 DEF AllBefore
  <2> QED BY <2>2, <2>4, <2>5
<1> QED BY <1>1, <1>5

LEMMA FrontierTakes ==
    ASSUME TableBuilt, NEW s, NEW e, NEW b, NEW rs, NEW i, NEW done, Frontier(s, e, b, rs, i, done),
           i <= Len(rs), ~Beyond(rs[i].key, e)
    PROVE  /\ rs[i] \in Asked(s, e) /\ rs[i] \in Rec
           /\ \A y \in done : Precedes(y.key, rs[i].key)
           /\ Frontier(s, e, b, rs, i + 1, done \cup {rs[i]})
<1>1. /\ done \subseteq Asked(s, e) /\ rs \in Seq(Rec) /\ Ascends(rs) /\ Held(rs) \subseteq Held(Records)
      /\ i \in 1 .. Len(rs) + 1
      /\ s \in Seq(Nat) /\ e \in Seq(Nat) /\ b \in 1 .. Len(file) + 1
  BY DEF Frontier
<1>2. Len(rs) \in Nat
  BY <1>1, LenProperties
<1>3. i \in 1 .. Len(rs) /\ i \in i .. Len(rs) /\ i + 1 \in 1 .. Len(rs) + 1
  BY <1>1, <1>2
<1>4. rs[i] \in Rec /\ rs[i] \in Held(rs)
  BY <1>1, <1>3, HeldKeys
<1>5. rs[i] \in Asked(s, e)
  <2>1. NotBefore(rs[i].key, s)
    BY <1>3 DEF Frontier
  <2> QED BY <2>1, <1>1, <1>4 DEF Asked, Within
<1>6. \A y \in done : Precedes(y.key, rs[i].key)
  BY <1>3 DEF Frontier
<1>7. i .. Len(rs) = {i} \cup (i + 1 .. Len(rs))
  BY <1>2, <1>3
<1>8. \A j \in i + 1 .. Len(rs) : Precedes(rs[i].key, rs[j].key)
  <2> TAKE j \in i + 1 .. Len(rs)
  <2>1. j \in 1 .. Len(rs) /\ i < j
    BY <1>2, <1>3
  <2> QED BY <2>1, <1>1, <1>3 DEF Ascends
<1>9. \A r \in Asked(s, e) : \/ r \in done
                             \/ \E j \in i .. Len(rs) : r = rs[j]
                             \/ opened /\ r \in InBlocks(b)
  BY DEF Frontier
<1>10. \A r \in Asked(s, e) : \/ r \in done \cup {rs[i]}
                              \/ \E j \in i + 1 .. Len(rs) : r = rs[j]
                              \/ opened /\ r \in InBlocks(b)
  BY <1>7, <1>9
<1>11. /\ \A j \in i + 1 .. Len(rs) : NotBefore(rs[j].key, s)
       /\ \A j \in i + 1 .. Len(rs), y \in done \cup {rs[i]} : Precedes(y.key, rs[j].key)
  BY <1>7, <1>8 DEF Frontier
<1>12. opened => AllBefore(done \cup {rs[i]}, InBlocks(b)) /\ AllBefore(Held(rs), InBlocks(b))
  BY <1>4 DEF Frontier, AllBefore
<1>13. Frontier(s, e, b, rs, i + 1, done \cup {rs[i]})
  BY <1>1, <1>3, <1>5, <1>10, <1>11, <1>12 DEF Frontier
<1> QED BY <1>4, <1>5, <1>6, <1>13

LEMMA FrontierOver ==
    ASSUME NEW s, NEW e, NEW b, NEW rs, NEW i, NEW done, Frontier(s, e, b, rs, i, done),
           ~(i <= Len(rs)), ~opened
    PROVE  done = Asked(s, e)
<1>1. rs \in Seq(Rec) /\ i \in 1 .. Len(rs) + 1 /\ done \subseteq Asked(s, e)
  BY DEF Frontier
<1>2. Len(rs) \in Nat
  BY <1>1, LenProperties
<1>3. i .. Len(rs) = {}
  BY <1>1, <1>2
<1> QED BY <1>1, <1>3 DEF Frontier

(* Blocks that are passed hold nothing that was asked for.                 *)
LEMMA FrontierPasses ==
    ASSUME TableBuilt, NEW s, NEW e, NEW b, NEW rs, NEW i, NEW done, Frontier(s, e, b, rs, i, done),
           ~(i <= Len(rs)), NEW c \in b .. Len(file) + 1,
           \A d \in b .. c - 1 : d \notin StopsAt(s, e)
    PROVE  \A r \in Asked(s, e) : r \in done \/ r \in InBlocks(c)
<1>1. rs \in Seq(Rec) /\ i \in 1 .. Len(rs) + 1 /\ b \in 1 .. Len(file) + 1 /\ s \in Seq(Nat) /\ e \in Seq(Nat)
  BY DEF Frontier
<1>2. Len(rs) \in Nat /\ Len(file) \in Nat /\ \A d \in 1 .. Len(file) : BlockIs(d)
  BY <1>1, LenProperties DEF TableBuilt
<1>3. i .. Len(rs) = {}
  BY <1>1, <1>2
<1> SUFFICES ASSUME NEW r \in Asked(s, e), r \notin done PROVE r \in InBlocks(c)
  OBVIOUS
<1>4. r \in InBlocks(b)
  BY <1>3 DEF Frontier
<1>5. PICK d \in b .. Len(file) : r \in Held(BlockAt(d))
  BY <1>4 DEF InBlocks
<1>6. r \in Rec /\ Within(r, s, e)
  BY RecordKeys DEF Asked
<1>7. d \in 1 .. Len(file)
  BY <1>1, <1>2
<1>8. ~(d \in b .. c - 1)
  <2> SUFFICES ASSUME d \in b .. c - 1 PROVE FALSE
    OBVIOUS
  <2>1. d \notin StopsAt(s, e)
    OBVIOUS
  <2>2. BlockNeeded(d, s, e)
    BY <1>1, <1>5, <1>6, <1>7, NeededIs
  <2>3. d \in 1 .. Len(file) + 1
    BY <1>2, <1>7
  <2>4. FirstIn(d, s) > Len(BlockAt(d))
    BY <2>1, <2>2, <2>3 DEF StopsAt
  <2>5. BlockAt(d) \in Seq(Rec) /\ Ascends(BlockAt(d))
    BY <1>2, <1>7 DEF BlockIs
  <2>6. FoundAt(Len(BlockAt(d)), {j \in 1 .. Len(BlockAt(d)) : NotBefore(BlockAt(d)[j].key, s)}, FirstIn(d, s))
    BY <1>1, <2>5, FirstAtIs DEF FirstIn
  <2>7. PICK j \in 1 .. Len(BlockAt(d)) : r = BlockAt(d)[j]
    BY <1>5 DEF Held
  <2>8. FirstIn(d, s) <= j /\ FirstIn(d, s) \in 1 .. Len(BlockAt(d)) + 1
    BY <1>6, <2>6, <2>7 DEF FoundAt, Within
  <2>9. Len(BlockAt(d)) \in Nat
    BY <2>5, LenProperties
  <2> QED BY <2>4, <2>7, <2>8, <2>9
<1>9. d \in c .. Len(file)
  BY <1>1, <1>2, <1>5, <1>8
<1> QED BY <1>5, <1>6, <1>9 DEF InBlocks

LEMMA FrontierLoads ==
    ASSUME TableBuilt, NEW s, NEW e, NEW b, NEW rs, NEW i, NEW done, Frontier(s, e, b, rs, i, done),
           ~(i <= Len(rs)), opened, NEW c \in b .. Len(file),
           \A d \in b .. c - 1 : d \notin StopsAt(s, e)
    PROVE  Frontier(s, e, c + 1, BlockAt(c), FirstIn(c, s), done)
<1>1. /\ rs \in Seq(Rec) /\ i \in 1 .. Len(rs) + 1 /\ b \in 1 .. Len(file) + 1
      /\ s \in Seq(Nat) /\ e \in Seq(Nat) /\ done \subseteq Asked(s, e)
      /\ AllBefore(done, InBlocks(b))
  BY DEF Frontier
<1>2. Len(file) \in Nat /\ \A d \in 1 .. Len(file) : BlockIs(d)
  BY DEF TableBuilt
<1>3. c \in b .. Len(file) + 1 /\ c \in 1 .. Len(file) /\ c + 1 \in 1 .. Len(file) + 1
  BY <1>1, <1>2
<1>4. \A r \in Asked(s, e) : r \in done \/ r \in InBlocks(c)
  BY <1>3, FrontierPasses
<1> DEFINE B == BlockAt(c)
           f == FirstIn(c, s)
<1>5. B \in Seq(Rec) /\ Ascends(B) /\ Held(B) \subseteq Held(Records)
  BY <1>2, <1>3 DEF BlockIs
<1>6. FoundAt(Len(B), {j \in 1 .. Len(B) : NotBefore(B[j].key, s)}, f)
  BY <1>1, <1>5, FirstAtIs DEF FirstIn
<1>7. InBlocks(c) \subseteq Held(B) \cup InBlocks(c + 1)
  <2>1. c .. Len(file) = {c} \cup (c + 1 .. Len(file))
    BY <1>2, <1>3
  <2> QED BY <2>1 DEF InBlocks
<1>8. AllBefore(Held(B), InBlocks(c + 1))
  <2> SUFFICES ASSUME NEW x \in Held(B), NEW y \in InBlocks(c + 1) PROVE Precedes(x.key, y.key)
    BY DEF AllBefore
  <2>1. PICK d \in c + 1 .. Len(file) : y \in Held(BlockAt(d))
    BY DEF InBlocks
  <2>2. d \in 1 .. Len(file) /\ c < d
    BY <1>2, <1>3
  <2>3. AllBefore(Held(B), Held(BlockAt(d)))
    BY <2>2, <1>3 DEF TableBuilt
  <2> QED BY <2>1, <2>3 DEF AllBefore
<1>9. Held(B) \subseteq InBlocks(b) /\ InBlocks(c + 1) \subseteq InBlocks(b)
  <2>1. c \in b .. Len(file) /\ c + 1 .. Len(file) \subseteq b .. Len(file)
    BY <1>1, <1>2
  <2>2. \A r \in Held(B) : r \in Rec
    BY <1>5, RecordKeys
  <2> QED BY <2>1, <2>2 DEF InBlocks
<1>10. Len(B) \in Nat
  BY <1>5, LenProperties
<1> HIDE DEF B, f
<1>11. f \in 1 .. Len(B) + 1 /\ \A j \in 1 .. Len(B) : NotBefore(B[j].key, s) <=> f <= j
  BY <1>6 DEF FoundAt
<1>12. f .. Len(B) \subseteq 1 .. Len(B) /\ \A j \in f .. Len(B) : f <= j
  BY <1>10, <1>11
<1>13. \A j \in f .. Len(B) : NotBefore(B[j].key, s) /\ B[j] \in Held(B)
  BY <1>11, <1>12 DEF Held
<1>14. ASSUME NEW r \in Asked(s, e)
       PROVE  \/ r \in done
              \/ \E j \in f .. Len(B) : r = B[j]
              \/ r \in InBlocks(c + 1)
  <2>1. CASE r \in Held(B)
    <3>1. PICK j \in 1 .. Len(B) : r = B[j]
      BY <2>1 DEF Held
    <3>2. f <= j
      BY <3>1, <1>11 DEF Asked, Within
    <3>3. j \in f .. Len(B)
      BY <3>1, <3>2, <1>10, <1>11
    <3> QED BY <3>1, <3>3
  <2>2. CASE r \notin Held(B)
    BY <2>2, <1>4, <1>7
  <2> QED BY <2>1, <2>2
<1>15. \A j \in f .. Len(B), y \in done : Precedes(y.key, B[j].key)
  BY <1>1, <1>9, <1>13 DEF AllBefore
<1>16. AllBefore(done, InBlocks(c + 1))
  BY <1>1, <1>9 DEF AllBefore
<1>17. Frontier(s, e, c + 1, B, f, done)
  BY <1>1, <1>3, <1>5, <1>8, <1>11, <1>13, <1>14, <1>15, <1>16 DEF Frontier, B, f
<1> QED BY <1>17 DEF B, f

(* Where the iterator may stand when it has yielded `done'.                *)
Placed(it, done) ==
    /\ it.start \in Seq(Nat) /\ it.end \in Seq(Nat)
    /\ \/ /\ it = Iter("record", it.start, it.end, it.block, it.records, it.index)
          /\ Frontier(it.start, it.end, it.block, it.records, it.index, done)
          /\ it.index <= Len(it.records)
          /\ ~Beyond(it.records[it.index].key, it.end)
       \/ it.at = "end" /\ done = Asked(it.start, it.end)
       \/ /\ it.at = "error" /\ opened /\ damaged # {}
          /\ LowerPart(done, Asked(it.start, it.end))

LEMMA HerePlaced ==
    ASSUME TableBuilt, NEW at, NEW s, NEW e, NEW b, NEW rs, NEW i, NEW done,
           Frontier(s, e, b, rs, i, done), i <= Len(rs)
    PROVE  Placed(Here(Iter(at, s, e, b, rs, i)), done)
<1> DEFINE it == Iter(at, s, e, b, rs, i)
<1>1. /\ it.records = rs /\ it.index = i /\ it.end = e
      /\ [it EXCEPT !.at = "end"] = Iter("end", s, e, b, rs, i)
      /\ [it EXCEPT !.at = "record"] = Iter("record", s, e, b, rs, i)
  BY DEF Iter
<1>2. Here(it) = IF Beyond(rs[i].key, e) THEN Iter("end", s, e, b, rs, i) ELSE Iter("record", s, e, b, rs, i)
  BY <1>1 DEF Here
<1> HIDE DEF it
<1>3. s \in Seq(Nat) /\ e \in Seq(Nat)
  BY DEF Frontier
<1>4. CASE Beyond(rs[i].key, e)
  <2>1. done = Asked(s, e)
    BY <1>4, FrontierBeyond
  <2>2. Here(it) = Iter("end", s, e, b, rs, i)
    BY <1>2, <1>4
  <2>3. Placed(Iter("end", s, e, b, rs, i), done)
    BY <1>3, <2>1 DEF Placed, Iter
  <2> QED BY <2>2, <2>3 DEF it
<1>5. CASE ~Beyond(rs[i].key, e)
  <2>1. Here(it) = Iter("record", s, e, b, rs, i)
    BY <1>2, <1>5
  <2> DEFINE jt == Iter("record", s, e, b, rs, i)
  <2>2. jt.start = s /\ jt.end = e /\ jt.block = b /\ jt.records = rs /\ jt.index = i
    BY DEF Iter
  <2>3. jt = Iter("record", jt.start, jt.end, jt.block, jt.records, jt.index)
    BY <2>2
  <2> HIDE DEF jt
  <2>4. Placed(jt, done)
    BY <1>3, <1>5, <2>2, <2>3 DEF Placed
  <2> QED BY <2>1, <2>4 DEF jt, it
<1> QED BY <1>4, <1>5

(* The two ways loadNextBlock changes an iterator.                         *)
Ending(it, x, y) == [it EXCEPT !.at = x, !.block = y]
Holding(it, x, y, z) == [it EXCEPT !.block = x, !.records = y, !.index = z]

LEMMA IterEnding ==
    ASSUME NEW at, NEW s, NEW e, NEW b, NEW rs, NEW i, NEW x, NEW y
    PROVE  Ending(Iter(at, s, e, b, rs, i), x, y) = Iter(x, s, e, y, rs, i)
<1> DEFINE it == Iter(at, s, e, b, rs, i)
           it1 == Iter(x, s, e, b, rs, i)
<1>1. [it EXCEPT !.at = x] = it1
  BY DEF Iter
<1>2. [it1 EXCEPT !.block = y] = Iter(x, s, e, y, rs, i)
  BY DEF Iter
<1> HIDE DEF it, it1
<1>3. [it EXCEPT !.at = x, !.block = y] = [[it EXCEPT !.at = x] EXCEPT !.block = y]
  OBVIOUS
<1>4. [it EXCEPT !.at = x, !.block = y] = Iter(x, s, e, y, rs, i)
  BY <1>1, <1>2, <1>3, Zenon
<1> QED BY <1>4, Zenon DEF it, Ending

LEMMA IterHolding ==
    ASSUME NEW at, NEW s, NEW e, NEW b, NEW rs, NEW i, NEW x, NEW y, NEW z
    PROVE  Holding(Iter(at, s, e, b, rs, i), x, y, z) = Iter(at, s, e, x, y, z)
<1> DEFINE it == Iter(at, s, e, b, rs, i)
           it1 == Iter(at, s, e, x, rs, i)
           it2 == Iter(at, s, e, x, y, i)
<1>1. [it EXCEPT !.block = x] = it1
  BY DEF Iter
<1>2. [it1 EXCEPT !.records = y] = it2
  BY DEF Iter
<1>3. [it2 EXCEPT !.index = z] = Iter(at, s, e, x, y, z)
  BY DEF Iter
<1> HIDE DEF it, it1, it2
<1>4. [it EXCEPT !.block = x, !.records = y, !.index = z]
        = [[[it EXCEPT !.block = x] EXCEPT !.records = y] EXCEPT !.index = z]
  OBVIOUS
<1>5. [it EXCEPT !.block = x, !.records = y, !.index = z] = Iter(at, s, e, x, y, z)
  BY <1>1, <1>2, <1>3, <1>4, Zenon
<1> QED BY <1>5, Zenon DEF it, Holding

LEMMA LoadPlaced ==
    ASSUME TableBuilt, NEW at, NEW s, NEW e, NEW b, NEW rs, NEW i, NEW done,
           Frontier(s, e, b, rs, i, done), ~(i <= Len(rs)), opened,
           NEW c, ComesTo(Iter(at, s, e, b, rs, i), c)
    PROVE  Placed(LoadAt(Iter(at, s, e, b, rs, i), c), done)
<1> DEFINE it == Iter(at, s, e, b, rs, i)
<1>1. it.start = s /\ it.end = e /\ it.block = b
  BY DEF Iter
<1>2. /\ c \in b .. Len(file) + 1 /\ c \in StopsAt(s, e)
      /\ \A d \in b .. c - 1 : d \notin StopsAt(s, e)
  <2> HIDE DEF it
  <2>1. ComesTo(it, c)
    BY DEF it
  <2> QED BY <1>1, <2>1 DEF ComesTo
<1>3. /\ b \in 1 .. Len(file) + 1 /\ Len(file) \in Nat
      /\ s \in Seq(Nat) /\ e \in Seq(Nat) /\ done \subseteq Asked(s, e)
  BY DEF Frontier, TableBuilt
<1>4. /\ Ending(it, "end", c) = Iter("end", s, e, c, rs, i)
      /\ Ending(it, "error", c + 1) = Iter("error", s, e, c + 1, rs, i)
      /\ Holding(it, c + 1, BlockAt(c), FirstIn(c, s)) = Iter(at, s, e, c + 1, BlockAt(c), FirstIn(c, s))
  BY IterEnding, IterHolding
<1> HIDE DEF it
<1>5. LoadAt(it, c) = IF c > Len(file) THEN Iter("end", s, e, c, rs, i)
                      ELSE IF c \in damaged THEN Iter("error", s, e, c + 1, rs, i)
                      ELSE Here(Iter(at, s, e, c + 1, BlockAt(c), FirstIn(c, s)))
  <2>1. LoadAt(it, c) = IF c > Len(file) THEN Ending(it, "end", c)
                        ELSE IF c \in damaged THEN Ending(it, "error", c + 1)
                        ELSE Here(Holding(it, c + 1, BlockAt(c), FirstIn(c, it.start)))
    BY Zenon DEF LoadAt, Ending, Holding
  <2> QED BY <1>1, <1>4, <2>1, Zenon
<1>6. \A r \in Asked(s, e) : r \in done \/ r \in InBlocks(c)
  BY <1>2, FrontierPasses
<1>7. CASE c > Len(file)
  <2>1. InBlocks(c) = {}
    <3>1. c .. Len(file) = {}
      BY <1>2, <1>3, <1>7
    <3> QED BY <3>1 DEF InBlocks
  <2>2. done = Asked(s, e)
    BY <1>3, <1>6, <2>1
  <2>3. LoadAt(it, c) = Iter("end", s, e, c, rs, i)
    BY <1>5, <1>7
  <2>4. Placed(Iter("end", s, e, c, rs, i), done)
    BY <1>3, <2>2 DEF Placed, Iter
  <2> QED BY <2>3, <2>4 DEF it
<1>8. CASE ~(c > Len(file)) /\ c \in damaged
  <2>1. LoadAt(it, c) = Iter("error", s, e, c + 1, rs, i)
    BY <1>5, <1>8
  <2>2. LowerPart(done, Asked(s, e))
    BY FrontierLower
  <2>3. damaged # {}
    BY <1>8
  <2>4. Placed(Iter("error", s, e, c + 1, rs, i), done)
    BY <1>3, <2>2, <2>3 DEF Placed, Iter
  <2> QED BY <2>1, <2>4 DEF it
<1>9. CASE ~(c > Len(file)) /\ c \notin damaged
  <2>1. LoadAt(it, c) = Here(Iter(at, s, e, c + 1, BlockAt(c), FirstIn(c, s)))
    BY <1>5, <1>9
  <2>2. c \in b .. Len(file) /\ c \in 1 .. Len(file)
    BY <1>2, <1>3, <1>9
  <2>3. Frontier(s, e, c + 1, BlockAt(c), FirstIn(c, s), done)
    BY <1>2, <2>2, FrontierLoads
  <2>4. ~(FirstIn(c, s) > Len(BlockAt(c)))
    BY <1>2, <1>9 DEF StopsAt
  <2>5. FirstIn(c, s) <= Len(BlockAt(c))
    <3>1. BlockAt(c) \in Seq(Rec) /\ FirstIn(c, s) \in 1 .. Len(BlockAt(c)) + 1
      BY <2>3 DEF Frontier
    <3>2. Len(BlockAt(c)) \in Nat
      BY <3>1, LenProperties
    <3> QED BY <3>1, <3>2, <2>4
  <2>6. Placed(Here(Iter(at, s, e, c + 1, BlockAt(c), FirstIn(c, s))), done)
    BY <2>3, <2>5, HerePlaced
  <2> QED BY <2>1, <2>6 DEF it
<1> QED BY <1>7, <1>8, <1>9

LEMMA PositionPlaced ==
    ASSUME TableBuilt, NEW at, NEW s, NEW e, NEW b, NEW rs, NEW i, NEW done,
           Frontier(s, e, b, rs, i, done)
    PROVE  Placed(PositionCurrent(Iter(at, s, e, b, rs, i)), done)
<1> DEFINE it == Iter(at, s, e, b, rs, i)
<1>1. /\ it.records = rs /\ it.index = i /\ it.block = b
      /\ [it EXCEPT !.at = "end"] = Iter("end", s, e, b, rs, i)
  BY DEF Iter
<1> HIDE DEF it
<1>2. PICK h : PositionCurrent(it) = IF it.index <= Len(it.records) THEN Here(it)
                                     ELSE IF ~opened THEN [it EXCEPT !.at = "end"]
                                     ELSE h[it.block]
  BY LoadsExist
<1>3. CASE i <= Len(rs)
  <2>1. PositionCurrent(it) = Here(it)
    BY <1>1, <1>2, <1>3
  <2> QED BY <2>1, <1>3, HerePlaced DEF it
<1>4. CASE ~(i <= Len(rs)) /\ ~opened
  <2>1. PositionCurrent(it) = Iter("end", s, e, b, rs, i)
    BY <1>1, <1>2, <1>4
  <2>2. done = Asked(s, e) /\ s \in Seq(Nat) /\ e \in Seq(Nat)
    BY <1>4, FrontierOver DEF Frontier
  <2>3. Placed(Iter("end", s, e, b, rs, i), done)
    BY <2>2 DEF Placed, Iter
  <2> QED BY <2>1, <2>3 DEF it
<1>5. CASE ~(i <= Len(rs)) /\ opened
  <2>1. it.block \in 1 .. Len(file) + 1
    BY <1>1 DEF Frontier
  <2>2. PICK c : ComesTo(it, c)
    BY <1>1, <1>5, <2>1, NextBlock
  <2>3. PositionCurrent(it) = LoadAt(it, c)
    BY <2>2 DEF ComesTo
  <2>4. Placed(LoadAt(it, c), done)
    BY <1>5, <2>2, LoadPlaced DEF it
  <2> QED BY <2>3, <2>4 DEF it
<1> QED BY <1>3, <1>4, <1>5

(* A new iterator has everything before it.                                *)
LEMMA FrontierBegins ==
    ASSUME TableBuilt, NEW s \in Seq(Nat), NEW e \in Seq(Nat)
    PROVE  /\ opened => Frontier(s, e, 1, <<>>, 1, {})
           /\ ~opened => Frontier(s, e, 1, Records, FirstAt(Records, s), {})
<1>1. /\ Records \in Seq(Rec) /\ Ascends(Records) /\ Held(Records) = InBlocks(1)
      /\ Len(file) \in Nat /\ 1 \in 1 .. Len(file) + 1
  BY DEF TableBuilt
<1>2. ASSUME opened PROVE Frontier(s, e, 1, <<>>, 1, {})
  <2>1. <<>> \in Seq(Rec) /\ Len(<<>>) = 0 /\ Held(<<>>) = {} /\ Ascends(<<>>)
    BY DEF Held, Ascends
  <2>2. 1 \in 1 .. Len(<<>>) + 1 /\ 1 .. Len(<<>>) = {}
    BY <2>1
  <2>3. \A r \in Asked(s, e) : r \in InBlocks(1)
    BY <1>1 DEF Asked
  <2>4. AllBefore({}, InBlocks(1))
    BY DEF AllBefore
  <2> QED BY <1>1, <1>2, <2>1, <2>2, <2>3, <2>4 DEF Frontier
<1>3. ASSUME ~opened PROVE Frontier(s, e, 1, Records, FirstAt(Records, s), {})
  <2> DEFINE f == FirstAt(Records, s)
             n == Len(Records)
  <2>1. FoundAt(n, {j \in 1 .. n : NotBefore(Records[j].key, s)}, f)
    BY <1>1, FirstAtIs
  <2>2. n \in Nat
    BY <1>1, LenProperties
  <2> HIDE DEF f
  <2>3. f \in 1 .. n + 1 /\ \A j \in 1 .. n : NotBefore(Records[j].key, s) <=> f <= j
    BY <2>1 DEF FoundAt
  <2>4. \A j \in f .. n : j \in 1 .. n /\ f <= j
    BY <2>2, <2>3
  <2>5. \A j \in f .. n : NotBefore(Records[j].key, s)
    BY <2>3, <2>4
  <2>6. \A r \in Asked(s, e) : \E j \in f .. n : r = Records[j]
    <3> TAKE r \in Asked(s, e)
    <3>1. PICK j \in 1 .. n : r = Records[j]
      BY DEF Asked, Held
    <3>2. f <= j
      BY <3>1, <2>3 DEF Asked, Within
    <3>3. j \in f .. n
      BY <3>1, <3>2, <2>2, <2>3
    <3> QED BY <3>1, <3>3
  <2> QED BY <1>1, <1>3, <2>3, <2>5, <2>6 DEF Frontier, f
<1> QED BY <1>2, <1>3

-----------------------------------------------------------------------------
(* What was yielded is what is behind the iterator.                        *)
IterInv ==
    IF iterator = NoIterator THEN yielded = <<>>
    ELSE yielded \in Seq(Rec) /\ Ascends(yielded) /\ Placed(iterator, Held(yielded))

LEMMA OneMore ==
    ASSUME NEW s \in Seq(Rec), Ascends(s), NEW r \in Rec, \A y \in Held(s) : Precedes(y.key, r.key)
    PROVE  /\ Append(s, r) \in Seq(Rec) /\ Ascends(Append(s, r))
           /\ Held(Append(s, r)) = Held(s) \cup {r}
<1>1. <<r>> \in Seq(Rec) /\ Held(<<r>>) = {r}
  BY DEF Held
<1>2. Ascends(<<r>>)
  BY DEF Ascends
<1>3. Append(s, r) = s \o <<r>>
  OBVIOUS
<1>4. AllBefore(Held(s), Held(<<r>>))
  BY <1>1 DEF AllBefore
<1>5. Ascends(s \o <<r>>)
  BY <1>1, <1>2, <1>4, AscendsTogether
<1>6. Held(s \o <<r>>) = Held(s) \cup {r}
  BY <1>1, HeldTogether
<1>7. Append(s, r) \in Seq(Rec)
  OBVIOUS
<1> QED BY <1>3, <1>5, <1>6, <1>7

LEMMA ThereIs ==
    ASSUME NEW it, NEW done, Placed(it, done)
    PROVE  it # NoIterator
<1>1. it.at # "none"
  <2>1. \A s, e, b, rs, i : Iter("record", s, e, b, rs, i).at = "record"
    BY DEF Iter
  <2>2. CASE it = Iter("record", it.start, it.end, it.block, it.records, it.index)
    BY <2>1, <2>2
  <2>3. CASE it.at = "end" \/ it.at = "error"
    BY <2>3
  <2> QED BY <2>2, <2>3 DEF Placed
<1> QED BY <1>1 DEF NoIterator

(* An iterator over the whole of an empty range is at its end at once.     *)
LEMMA NewPlaced ==
    ASSUME TableInv, NEW start \in Bound, NEW end \in Bound, NewIterator(start, end)
    PROVE  Placed(iterator', {})
<1> DEFINE empty == EmptyRange(start, end) \/ ~KeyRangesOverlap(start, end)
           it == [at |-> "end", start |-> start, end |-> end, block |-> 1,
                  records |-> IF opened THEN <<>> ELSE Records,
                  index |-> IF opened THEN 1 ELSE FirstAt(Records, start)]
<1>1. given # <<>> /\ iterator' = IF empty THEN it ELSE PositionCurrent(it)
  BY Zenon DEF NewIterator
<1>2. TableBuilt /\ Records # <<>>
  BY <1>1, RecordsThere
<1>3. start \in Seq(Nat) /\ end \in Seq(Nat)
  BY BoundType
<1>4. opened => it = Iter("end", start, end, 1, <<>>, 1)
  BY DEF Iter
<1>5. ~opened => it = Iter("end", start, end, 1, Records, FirstAt(Records, start))
  BY DEF Iter
<1>6. it.at = "end" /\ it.start = start /\ it.end = end
  OBVIOUS
<1> HIDE DEF it
<1>7. CASE empty
  <2>1. iterator' = it
    BY <1>1, <1>7, Zenon
  <2>2. \A r \in Held(Records) : ~Within(r, start, end)
    <3>1. Records \in Seq(Rec) /\ Ascends(Records)
      BY <1>2 DEF TableBuilt
    <3>2. EmptyRange(start, end) \/ ~NotBefore(Last(Records).key, start) \/ Beyond(Records[1].key, end)
      BY <1>2, <1>7 DEF KeyRangesOverlap
    <3> QED BY <3>1, <3>2, <1>2, <1>3, EmptyRangeIs
  <2>3. Asked(start, end) = {}
    BY <2>2 DEF Asked
  <2>4. Placed(it, {})
    BY <1>3, <1>6, <2>3 DEF Placed
  <2> QED BY <2>1, <2>4
<1>8. CASE ~empty
  <2>1. iterator' = PositionCurrent(it)
    BY <1>1, <1>8, Zenon
  <2>2. CASE opened
    <3>1. Frontier(start, end, 1, <<>>, 1, {})
      BY <1>2, <1>3, <2>2, FrontierBegins
    <3>2. Placed(PositionCurrent(Iter("end", start, end, 1, <<>>, 1)), {})
      BY <1>2, <3>1, PositionPlaced
    <3> QED BY <2>1, <2>2, <1>4, <3>2
  <2>3. CASE ~opened
    <3>1. Frontier(start, end, 1, Records, FirstAt(Records, start), {})
      BY <1>2, <1>3, <2>3, FrontierBegins
    <3>2. Placed(PositionCurrent(Iter("end", start, end, 1, Records, FirstAt(Records, start))), {})
      BY <1>2, <3>1, PositionPlaced
    <3> QED BY <2>1, <2>3, <1>5, <3>2
  <2> QED BY <2>2, <2>3
<1> QED BY <1>7, <1>8

(* Where the iterator stands at a record.                                  *)
LEMMA RecordPlaced ==
    ASSUME TableBuilt, NEW it, NEW done, Placed(it, done), it.at = "record"
    PROVE  /\ it = Iter("record", it.start, it.end, it.block, it.records, it.index)
           /\ it.records[it.index] \in Asked(it.start, it.end) /\ it.records[it.index] \in Rec
           /\ \A y \in done : Precedes(y.key, it.records[it.index].key)
           /\ Frontier(it.start, it.end, it.block, it.records, it.index + 1,
                       done \cup {it.records[it.index]})
<1>1. /\ it = Iter("record", it.start, it.end, it.block, it.records, it.index)
      /\ Frontier(it.start, it.end, it.block, it.records, it.index, done)
      /\ it.index <= Len(it.records)
      /\ ~Beyond(it.records[it.index].key, it.end)
  BY DEF Placed
<1> QED BY <1>1, FrontierTakes

LEMMA NextPlaced ==
    ASSUME TableInv, IterInv, NextRecord
    PROVE  /\ yielded' \in Seq(Rec) /\ Ascends(yielded')
           /\ Placed(iterator', Held(yielded'))
<1> DEFINE r == iterator.records[iterator.index]
<1>1. /\ iterator.at = "record" /\ yielded' = Append(yielded, r)
      /\ iterator' = PositionCurrent([iterator EXCEPT !.index = @ + 1])
  BY DEF NextRecord
<1>2. iterator # NoIterator
  BY <1>1 DEF NoIterator
<1>3. TableBuilt
  BY <1>2, RecordsThere DEF TableInv
<1>4. yielded \in Seq(Rec) /\ Ascends(yielded) /\ Placed(iterator, Held(yielded))
  BY <1>2 DEF IterInv
<1>5. /\ iterator = Iter("record", iterator.start, iterator.end, iterator.block, iterator.records, iterator.index)
      /\ r \in Rec
      /\ \A y \in Held(yielded) : Precedes(y.key, r.key)
      /\ Frontier(iterator.start, iterator.end, iterator.block, iterator.records, iterator.index + 1,
                  Held(yielded) \cup {r})
  BY <1>1, <1>3, <1>4, RecordPlaced
<1> HIDE DEF r
<1>6. Append(yielded, r) \in Seq(Rec) /\ Ascends(Append(yielded, r)) /\ Held(Append(yielded, r)) = Held(yielded) \cup {r}
  BY <1>4, <1>5, OneMore
<1>7. [iterator EXCEPT !.index = @ + 1] =
         Iter("record", iterator.start, iterator.end, iterator.block, iterator.records, iterator.index + 1)
  <2> DEFINE s == iterator.start
             e == iterator.end
             b == iterator.block
             rs == iterator.records
             i == iterator.index
             it == Iter("record", s, e, b, rs, i)
  <2>1. iterator = it
    BY <1>5
  <2> HIDE DEF s, e, b, rs, i
  <2>2. [it EXCEPT !.index = i + 1] = Iter("record", s, e, b, rs, i + 1) /\ it.index = i
    BY DEF Iter
  <2> HIDE DEF it
  <2>3. [it EXCEPT !.index = @ + 1] = [it EXCEPT !.index = i + 1]
    BY <2>2
  <2>4. [iterator EXCEPT !.index = @ + 1] = [it EXCEPT !.index = @ + 1]
    BY <2>1, Zenon
  <2>5. [iterator EXCEPT !.index = @ + 1] = Iter("record", s, e, b, rs, i + 1)
    BY <2>2, <2>3, <2>4, Zenon
  <2> QED BY <2>5 DEF s, e, b, rs, i
<1>8. Placed(iterator', Held(yielded) \cup {r})
  BY <1>1, <1>3, <1>5, <1>7, PositionPlaced
<1> QED BY <1>1, <1>6, <1>8

LEMMA IterStarts == TableInit => IterInv
  BY DEF TableInit, IterInv

LEMMA IterKeeps ==
    ASSUME TableInv, IterInv, [TableNext]_tableVars
    PROVE  IterInv'
<1>1. CASE UNCHANGED tableVars
  BY <1>1, Zenon DEF IterInv, tableVars, Placed, Frontier, Asked, InBlocks, BlockAt, Records
<1>2. ASSUME NEW rs \in BoundedSeq(Record, MaxRecords), WriteSStable(rs) PROVE IterInv'
  <2>1. given = <<>> /\ iterator' = iterator /\ yielded' = yielded
    BY <1>2 DEF WriteSStable
  <2> QED BY <2>1 DEF TableInv, IterInv
<1>3. CASE DamageFile
  <2>1. iterator = NoIterator /\ iterator' = iterator /\ yielded' = yielded
    BY <1>3 DEF DamageFile
  <2> QED BY <2>1 DEF IterInv
<1>4. CASE OpenSStable
  <2>1. iterator = NoIterator /\ iterator' = iterator /\ yielded' = yielded
    BY <1>4 DEF OpenSStable
  <2> QED BY <2>1 DEF IterInv
<1>5. ASSUME given' = given, file' = file, opened' = opened, damaged' = damaged,
             yielded' \in Seq(Rec), Ascends(yielded'), Placed(iterator', Held(yielded'))
      PROVE  IterInv'
  <2> DEFINE X == iterator'
             Y == yielded'
  <2>1. Placed(X, Held(Y)) /\ Y \in Seq(Rec) /\ Ascends(Y)
    BY <1>5
  <2>2. Placed(iterator, Held(yielded))'
    BY <1>5, <2>1, Zenon DEF Placed, Frontier, Asked, InBlocks, BlockAt, Records
  <2>3. iterator' # NoIterator
    BY <2>1, ThereIs
  <2> QED BY <1>5, <2>2, <2>3 DEF IterInv
<1>6. ASSUME NEW start \in Bound, NEW end \in Bound, NewIterator(start, end) PROVE IterInv'
  <2>1. /\ iterator = NoIterator /\ given' = given /\ file' = file /\ opened' = opened
        /\ damaged' = damaged /\ yielded' = yielded
    BY <1>6 DEF NewIterator
  <2>2. yielded' = <<>>
    BY <2>1 DEF IterInv
  <2>3. <<>> \in Seq(Rec) /\ Ascends(<<>>) /\ Held(<<>>) = {}
    BY DEF Ascends, Held
  <2>4. Placed(iterator', {})
    BY <1>6, NewPlaced
  <2>5. yielded' \in Seq(Rec) /\ Ascends(yielded') /\ Placed(iterator', Held(yielded'))
    BY <2>2, <2>3, <2>4
  <2> QED BY <2>1, <2>5, <1>5
<1>7. CASE NextRecord
  <2>1. given' = given /\ file' = file /\ opened' = opened /\ damaged' = damaged
    BY <1>7 DEF NextRecord
  <2>2. yielded' \in Seq(Rec) /\ Ascends(yielded') /\ Placed(iterator', Held(yielded'))
    BY <1>7, NextPlaced
  <2> QED BY <2>1, <2>2, <1>5
<1>8. CASE CloseIterator
  <2>1. iterator' = NoIterator /\ yielded' = <<>>
    BY <1>8 DEF CloseIterator
  <2> QED BY <2>1 DEF IterInv, NoIterator
<1> QED BY <1>1, <1>2, <1>3, <1>4, <1>6, <1>7, <1>8 DEF TableNext

(* Two sequences that ascend, the one with the first records of the other. *)
LEMMA PrefixIs ==
    ASSUME NEW s \in Seq(Rec), NEW t \in Seq(Rec), Ascends(s), Ascends(t), LowerPart(Held(s), Held(t))
    PROVE  IsPrefix(s, t)
<1>1. BeginsLike(s, t)
  BY BeginningIs
<1>2. Len(s) \in Nat /\ Len(t) \in Nat /\ Len(s) <= Len(t)
  BY <1>1, LenProperties DEF BeginsLike
<1>3. SubSeq(s, 1, Len(s)) = SubSeq(t, 1, Len(s))
  <2>1. \A i \in 1 .. Len(s) : s[i] = t[i]
    BY <1>1 DEF BeginsLike
  <2>2. SubSeq(s, 1, Len(s)) = s
    OBVIOUS
  <2>3. SubSeq(t, 1, Len(s)) \in Seq(Rec) /\ Len(SubSeq(t, 1, Len(s))) = Len(s)
        /\ \A i \in 1 .. Len(s) : SubSeq(t, 1, Len(s))[i] = t[i]
    BY <1>2
  <2> QED BY <2>1, <2>2, <2>3, SeqEqual
<1> QED BY <1>2, <1>3 DEF IsPrefix

LEMMA ExactFollows == TableInv /\ IterInv => IteratorExact
<1> SUFFICES ASSUME TableInv, IterInv, iterator # NoIterator
             PROVE  LET range == HandedIn(iterator.start, iterator.end)
                        seen == IF iterator.at = "record"
                                THEN Append(yielded, iterator.records[iterator.index])
                                ELSE yielded
                    IN /\ IsPrefix(seen, range)
                       /\ iterator.at = "end" => seen = range
                       /\ iterator.at = "error" => opened /\ damaged # {}
  BY Zenon DEF IteratorExact
<1> DEFINE s == iterator.start
           e == iterator.end
           r == iterator.records[iterator.index]
           range == HandedIn(s, e)
           seen == IF iterator.at = "record" THEN Append(yielded, r) ELSE yielded
<1>1. given # <<>> /\ TableBuilt /\ given \in Seq(Rec)
  BY RecordsThere DEF TableInv
<1>2. yielded \in Seq(Rec) /\ Ascends(yielded) /\ Placed(iterator, Held(yielded))
  BY DEF IterInv
<1>3. range \in Seq(Rec) /\ Ascends(range) /\ Held(range) = Asked(s, e)
  <2>1. Held(Records) = Kept(given)
    BY <1>1 DEF TableBuilt
  <2> QED BY <1>1, <2>1, HandedInIs DEF Asked
<1> HIDE DEF s, e, r, range, seen
<1>4. CASE iterator.at = "record"
  <2>1. /\ r \in Rec /\ \A y \in Held(yielded) : Precedes(y.key, r.key)
        /\ Frontier(s, e, iterator.block, iterator.records, iterator.index + 1, Held(yielded) \cup {r})
    BY <1>1, <1>2, <1>4, RecordPlaced DEF r, s, e
  <2>2. seen = Append(yielded, r)
    BY <1>4 DEF seen
  <2>3. seen \in Seq(Rec) /\ Ascends(seen) /\ Held(seen) = Held(yielded) \cup {r}
    BY <1>2, <2>1, <2>2, OneMore
  <2>4. LowerPart(Held(seen), Held(range))
    BY <1>1, <1>3, <2>1, <2>3, FrontierLower
  <2>5. IsPrefix(seen, range)
    BY <1>3, <2>3, <2>4, PrefixIs
  <2> QED BY <1>4, <2>5 DEF seen, range, s, e, r
<1>5. CASE iterator.at # "record"
  <2>1. seen = yielded
    BY <1>5 DEF seen
  <2>2. \/ iterator.at = "end" /\ Held(yielded) = Asked(s, e)
        \/ /\ iterator.at = "error" /\ opened /\ damaged # {}
           /\ LowerPart(Held(yielded), Asked(s, e))
    <3>1. \A b, rs, i : Iter("record", s, e, b, rs, i).at = "record"
      BY DEF Iter
    <3>2. iterator # Iter("record", s, e, iterator.block, iterator.records, iterator.index)
      BY <1>5, <3>1
    <3> QED BY <1>2, <3>2 DEF Placed, s, e
  <2>3. LowerPart(Held(yielded), Held(range))
    BY <1>3, <2>2 DEF LowerPart
  <2>4. IsPrefix(seen, range)
    BY <1>2, <1>3, <2>1, <2>3, PrefixIs
  <2>5. iterator.at = "end" => seen = range
    BY <1>2, <1>3, <2>1, <2>2, SameHeld
  <2>6. iterator.at = "error" => opened /\ damaged # {}
    BY <2>2
  <2> QED BY <2>4, <2>5, <2>6 DEF seen, range, s, e, r
<1> QED BY <1>4, <1>5

(* The records an iterator has yielded, with the one it stands at, are the *)
(* first of its range in order, and all of it once it is at the end: going *)
(* from block to block (positionCurrent, loadNextBlock) it leaves none out *)
(* and repeats none, and it fails only in a damaged file.                  *)
THEOREM IteratorsAreExact == TableSpec => []IteratorExact
<1>1. TableInit => TableInv /\ IterInv
  BY TableStarts, IterStarts
<1>2. TableInv /\ IterInv /\ [TableNext]_tableVars => TableInv' /\ IterInv'
  BY TableKeeps, IterKeeps
<1> QED BY <1>1, <1>2, ExactFollows, PTL DEF TableSpec
=============================================================================
