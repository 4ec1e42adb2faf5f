-------------------------- MODULE SamStoreRecovery --------------------------
(***************************************************************************)
(* What a restart answers.  The log and the tables together hold what the  *)
(* running store answers, whatever is interrupted and whatever fails, with *)
(* two exceptions: a segment that PruneThrough skips because it cannot be  *)
(* removed, and a ReLoad that stops half-way.  For both of them TLC finds  *)
(* a counterexample, so the theorems exclude them (PrunesAndReplays).      *)
(***************************************************************************)
EXTENDS SamStoreProofs, SamStoreContract

PrunesAndReplays == Faults \cap {"remove", "replay"} = {}

-----------------------------------------------------------------------------
(* The inductive invariant, key by key.                                    *)

(* A flush takes the immutables away from the left: position j is the      *)
(* state in which the j oldest are gone, and Cutoff(j) its WAL cutoff.     *)
Positions == 0..Len(immutables)
Cutoff(j) == IF j = 0 THEN covered ELSE immutables[j].cutoff

FrozenAbove(j, k) == Newest(Frozen, {i \in DOMAIN immutables : i > j}, k)
FrozenUpTo(j, k) == Newest(Frozen, {i \in DOMAIN immutables : i <= j}, k)

(* What a caller may be told of k after a crash.                           *)
Allowed(k) ==
    {Answer(Lookup(k))} \cup older[k] \cup {Answer(e) : e \in doubt[k]}

(* What a restart answers when n buffered records reach the file.          *)
Restarted(n, k) ==
    Over(Newest(buffer, 1..n, k),
         Over(Replayed(0, k), OnTables(sstables, k)))

(* The log above a cutoff holds what memory holds above it.                *)
MemoryLogged(k) ==
    \A j \in Positions : Logged(Cutoff(j), k) \in {InMemory(j, k)} \cup doubt[k]

(* Freezing flushes the buffer first.                                      *)
FrozenOnFile(k) ==
    \A j \in Positions :
        FrozenAbove(j, k) # Absent => Replayed(Cutoff(j), k) # Absent

(* A key the log above a cutoff is silent about may be answered from the   *)
(* tables that hold everything up to it.                                   *)
TablesAllowed(k) ==
    \A j \in Positions : Replayed(Cutoff(j), k) = Absent =>
        Answer(Over(FrozenUpTo(j, k), OnTables(sstables, k))) \in Allowed(k)

CrashAllowed(k) ==
    \A n \in 0..Len(buffer) : Answer(Restarted(n, k)) \in Allowed(k)

LeftoverRepeats(k) ==
    Logged(covered, k) = Absent /\ Leftover(k) # Absent =>
        Answer(Leftover(k)) \in {Answer(e) : e \in {OnTables(sstables, k)} \cup doubt[k]}

KeyInv(k) ==
    /\ MemoryLogged(k)
    /\ FrozenOnFile(k)
    /\ TablesAllowed(k)
    /\ CrashAllowed(k)
    /\ LeftoverRepeats(k)

(* Only segment files hold records, and the active one is the last.        *)
LogLayout ==
    /\ \A s \in SegmentID \ live : segments[s] = EmptyLayer
    /\ Running => active \in live /\ \A s \in live : s <= active

(* What an operation in progress has written, and what it still has to do. *)
Operations ==
    /\ at = "written" => files[nextSSTableID] = Head(immutables).data
    /\ at = "compacted" => files[nextSSTableID] = Compacted
    /\ at = "emptied" => Compacted = EmptyLayer
    /\ at = "prune" =>
          /\ manifest.exists
          /\ lock = "publish"
          /\ todo = {} \/ todo = {s \in live : s <= covered}
    /\ ~Running => buffer = <<>>

(* Before the first Manifest a file repeats segments that are still there. *)
FirstFileLogged(k) ==
    ~manifest.exists /\ onDisk # {} /\ files[1][k] # Absent => Replayed(0, k) # Absent

(* A key has buffered writes, or failed ones, and never both.              *)
Uncertain ==
    /\ buffer = <<>> => \A k \in Key : older[k] = {}
    /\ \A k \in Key : doubt[k] = {} \/ older[k] = {}
    /\ ~Running => \A k \in Key : doubt[k] = {}

RecoveryInv ==
    /\ ControlInv
    /\ LogLayout
    /\ Operations
    /\ Uncertain
    /\ Running => \A k \in Key : KeyInv(k) /\ FirstFileLogged(k)

-----------------------------------------------------------------------------
(* Cutting the log and the immutables in two.                              *)

LEMMA CutoffType ==
    ASSUME TypeInv, CutoffsOrdered, NEW j \in Positions
    PROVE  Cutoff(j) \in Nat /\ covered <= Cutoff(j) /\ Cutoff(j) < active
<1>1. covered \in Nat /\ active \in Nat /\ immutables \in Seq(Immutables)
  BY DEF TypeInv, TypeOK, SegmentID
<1>2. CASE j = 0
  BY <1>1, <1>2 DEF Cutoff, CutoffsOrdered
<1>3. CASE j # 0
  <2>1. j \in DOMAIN immutables
    BY <1>1, <1>3 DEF Positions
  <2>2. immutables[j] \in Immutables
    BY <1>1, <2>1
  <2> QED BY <1>3, <2>1, <2>2 DEF Cutoff, CutoffsOrdered, Immutables
<1> QED BY <1>2, <1>3

LEMMA LiveIndices ==
    ASSUME TypeInv, NEW S \in SUBSET live
    PROVE  S \in Indices
<1>1. S \in SUBSET SegmentID
  BY DEF TypeInv, TypeOK
<1> QED BY <1>1, SegmentIndices

LEMMA ReplayedSplit ==
    ASSUME TypeInv, NEW c \in Nat, NEW k
    PROVE  Replayed(0, k)
             = Over(Replayed(c, k), Newest(segments, {s \in live : s <= c}, k))
<1> DEFINE S == {s \in live : s > 0}
           A == {s \in live : s <= c}
           B == {s \in live : s > c}
<1>1. live \subseteq Nat /\ \A s \in live : s > 0
  BY DEF TypeInv, TypeOK, SegmentID
<1>2. S \in Indices /\ S = A \cup B /\ \A a \in A, b \in B : a < b
  <2>1. S \in Indices
    BY LiveIndices
  <2>2. \A s \in live : s <= c \/ s > c
    BY <1>1
  <2>3. \A a \in A, b \in B : a < b
    BY <1>1
  <2> QED BY <1>1, <2>1, <2>2, <2>3
<1>3. Newest(segments, S, k) = Over(Newest(segments, B, k), Newest(segments, A, k))
  <2> HIDE DEF S, A, B
  <2> QED BY <1>2, NewestSplit
<1> QED BY <1>3 DEF Replayed

LEMMA LeftoverSplit ==
    ASSUME TypeInv, NEW k
    PROVE  Replayed(0, k) = Over(Replayed(covered, k), Leftover(k))
<1>1. covered \in Nat
  BY DEF TypeInv, TypeOK
<1> QED BY <1>1, ReplayedSplit DEF Leftover

LEMMA FrozenIndices ==
    ASSUME TypeInv, NEW S \in SUBSET DOMAIN immutables
    PROVE  S \in Indices
BY ListIndices DEF TypeInv, TypeOK

LEMMA FrozenSplit ==
    ASSUME TypeInv, NEW j \in Positions, NEW k
    PROVE  FrozenAbove(0, k) = Over(FrozenAbove(j, k), FrozenUpTo(j, k))
<1> DEFINE S == {i \in DOMAIN immutables : i > 0}
           A == {i \in DOMAIN immutables : i <= j}
           B == {i \in DOMAIN immutables : i > j}
<1>1. DOMAIN immutables = 1..Len(immutables) /\ Len(immutables) \in Nat
  BY DEF TypeInv, TypeOK
<1>2. S \in Indices /\ S = A \cup B /\ \A a \in A, b \in B : a < b
  <2>1. S \in Indices
    BY FrozenIndices
  <2>2. j \in Nat
    BY <1>1 DEF Positions
  <2> QED BY <1>1, <2>1, <2>2
<1>3. Newest(Frozen, S, k) = Over(Newest(Frozen, B, k), Newest(Frozen, A, k))
  <2> HIDE DEF S, A, B
  <2> QED BY <1>2, NewestSplit
<1> QED BY <1>3 DEF FrozenAbove, FrozenUpTo

(* A lookup walks memory down to any position, then what a flush up to it  *)
(* turns into tables.                                                      *)
LEMMA LookupSplit ==
    ASSUME TypeInv, NEW j \in Positions, NEW k
    PROVE  Lookup(k) = Over(InMemory(j, k),
                            Over(FrozenUpTo(j, k), OnTables(sstables, k)))
<1>1. FrozenAbove(0, k) = Over(FrozenAbove(j, k), FrozenUpTo(j, k))
  BY FrozenSplit
<1>2. InMemory(j, k) = Over(mem[k], FrozenAbove(j, k))
      /\ InMemory(0, k) = Over(mem[k], FrozenAbove(0, k))
  BY DEF InMemory, FrozenAbove
<1> QED BY <1>1, <1>2, OverAssociative DEF Lookup

LEMMA DoubtIsEntry ==
    ASSUME TypeInv, NEW k \in Key
    PROVE  Absent \notin doubt[k]
BY LayersAssumption DEF TypeInv, TypeOK, Entry

(* Memory is silent about a key the log is silent about.                   *)
LEMMA SilentLog ==
    ASSUME TypeInv, NEW k \in Key, MemoryLogged(k), NEW j \in Positions,
           Logged(Cutoff(j), k) = Absent
    PROVE  InMemory(j, k) = Absent
BY DoubtIsEntry DEF MemoryLogged

LEMMA FirstPosition ==
    ASSUME TypeInv
    PROVE  0 \in Positions /\ Cutoff(0) = covered
<1>1. Len(immutables) \in Nat
  BY DEF TypeInv, TypeOK
<1> QED BY <1>1 DEF Positions, Cutoff

-----------------------------------------------------------------------------
(* What the invariant says of a restart.                                   *)

LEMMA NothingFrozen ==
    ASSUME TypeInv, NEW j \in Positions, NEW k, FrozenAbove(j, k) = Absent,
           NEW i \in DOMAIN immutables, i > j
    PROVE  immutables[i].data[k] = Absent
<1> DEFINE S == {x \in DOMAIN immutables : x > j}
<1>1. S \in Indices /\ i \in S
  BY FrozenIndices
<1>2. Newest(Frozen, S, k) = Absent
  BY DEF FrozenAbove
<1>3. Frozen[i][k] = Absent
  <2> HIDE DEF S
  <2> QED BY <1>1, <1>2, NewestCases
<1> QED BY <1>3 DEF Frozen

(* Without a Manifest a restart loads the file of the first flush.         *)
LEMMA RestartReadsTables ==
    ASSUME RecoveryInv, Running, NEW k \in Key
    PROVE  Recovered(k) = Over(Replayed(0, k), OnTables(sstables, k))
<1>1. TypeInv /\ ListsAgree /\ FirstFileLogged(k)
  BY DEF RecoveryInv, ControlInv, TablesInv
<1>2. CASE LoadedTables = sstables
  BY <1>2 DEF Recovered
<1>3. CASE LoadedTables # sstables
  <2>1. ~manifest.exists /\ sstables = <<>>
    BY <1>1, <1>3 DEF ListsAgree, LoadedTables
  <2>2. onDisk = {} \/ onDisk = {1}
    BY <1>1, <2>1 DEF TypeInv, FirstFlush
  <2>3. onDisk = {1} /\ LoadedTables = <<1>>
    BY <1>3, <2>1, <2>2, AscendingSmall DEF LoadedTables
  <2>4. OnTables(LoadedTables, k) = files[1][k]
    <3>1. DOMAIN LoadedTables = {1} /\ Tables(LoadedTables)[1] = files[1]
      BY <2>3 DEF Tables
    <3>2. OnTables(LoadedTables, k) = Newest(Tables(LoadedTables), {1}, k)
      BY <3>1 DEF OnTables
    <3>3. Newest(Tables(LoadedTables), {1}, k) = Tables(LoadedTables)[1][k]
      BY NewestOne
    <3> QED BY <3>1, <3>2, <3>3
  <2>5. OnTables(sstables, k) = Absent
    <3>1. DOMAIN sstables = {}
      BY <2>1
    <3> QED BY <3>1, NewestNone DEF OnTables
  <2>6. CASE Replayed(0, k) # Absent
    BY <2>6 DEF Recovered, Over
  <2>7. CASE Replayed(0, k) = Absent
    <3>1. files[1][k] = Absent
      BY <1>1, <2>1, <2>3, <2>7 DEF FirstFileLogged
    <3> QED BY <2>4, <2>5, <3>1 DEF Recovered
  <2> QED BY <2>6, <2>7
<1> QED BY <1>2, <1>3

(* The log, its buffer included, and the tables answer as memory does.     *)
LEMMA LogCompletesKey ==
    ASSUME RecoveryInv, Running, NEW k \in Key
    PROVE  Answer(Over(Logged(0, k), OnTables(sstables, k)))
             \in {Answer(e) : e \in {Lookup(k)} \cup doubt[k]}
<1>1. TypeInv /\ MemoryLogged(k) /\ LeftoverRepeats(k)
  BY DEF RecoveryInv, ControlInv, KeyInv
<1>2. 0 \in Positions /\ Cutoff(0) = covered
  BY <1>1, FirstPosition
<1>3. Logged(0, k) = Over(Logged(covered, k), Leftover(k))
  BY <1>1, LeftoverSplit, OverAssociative DEF Logged
<1>4. CASE Logged(covered, k) # Absent
  <2>1. Logged(0, k) = Logged(covered, k) /\ Logged(0, k) \in {InMemory(0, k)} \cup doubt[k]
    BY <1>1, <1>2, <1>3, <1>4 DEF MemoryLogged, Over
  <2>2. Over(Logged(0, k), OnTables(sstables, k)) = Logged(0, k)
    BY <1>4, <2>1 DEF Over
  <2>3. Logged(0, k) = InMemory(0, k) => Lookup(k) = Logged(0, k)
    BY <1>4, <2>1 DEF Lookup, Over
  <2> QED BY <2>1, <2>2, <2>3
<1>5. CASE Logged(covered, k) = Absent
  <2>1. Lookup(k) = OnTables(sstables, k)
    BY <1>1, <1>2, <1>5, SilentLog DEF Lookup, Over
  <2>2. Logged(0, k) = Leftover(k)
    BY <1>3, <1>5 DEF Over
  <2> QED BY <1>1, <1>5, <2>1, <2>2 DEF LeftoverRepeats, Over
<1> QED BY <1>4, <1>5

LEMMA InvLogCompletes == RecoveryInv => LogCompletes
<1> SUFFICES ASSUME RecoveryInv, Running, NEW k \in Key
             PROVE  Answer(Over(Logged(0, k), OnTables(LoadedTables, k)))
                      \in {Answer(e) : e \in {Lookup(k)} \cup doubt[k]}
  BY DEF LogCompletes
<1>1. Over(Logged(0, k), OnTables(LoadedTables, k)) = Over(Logged(0, k), OnTables(sstables, k))
  BY RestartReadsTables, OverAssociative DEF Logged, Recovered
<1> QED BY <1>1, LogCompletesKey

LEMMA InvLeftoversRepeat == RecoveryInv => LeftoversRepeat
BY DEF RecoveryInv, KeyInv, LeftoverRepeats, LeftoversRepeat

-----------------------------------------------------------------------------
(* What a write to the log changes.                                        *)

LEMMA PrefixIndices ==
    ASSUME NEW data \in Seq(Layer), NEW m \in 0..Len(data), NEW n \in 0..Len(data)
    PROVE  m \in Nat /\ n \in Nat /\ 1..n \in Indices /\ (m + 1)..n \in Indices
<1>1. m \in Nat /\ n \in Nat /\ m + 1 \in Nat
  OBVIOUS
<1> QED BY <1>1, IntervalIndices

(* The segments of the first n records: none below the active one, and in  *)
(* the order of the records.                                               *)
Placed(data, n, place) ==
    /\ n \in 0..Len(data)
    /\ \A i \in 1..n : place[i] \in SegmentID /\ place[i] \in active..active'
    /\ \A i, j \in 1..n : i < j => place[i] <= place[j]
    /\ \A s \in SegmentID, k \in Key :
          segments'[s][k]
            = Over(Newest(data, {i \in 1..n : place[i] = s}, k), segments[s][k])
    /\ \A s \in SegmentID : s < active => segments'[s] = segments[s]

LEMMA PersistPlaces ==
    ASSUME TypeInv, NEW data \in Seq(Layer), NEW n, Persist(data, n)
    PROVE  \E place : Placed(data, n, place)
<1> DEFINE last == IF n < Len(data) THEN n + 1 ELSE n
           I(place, s) == {i \in 1..n : place[i] = s}
<1>1. PICK place \in [1..last -> active..MaxSegment] :
         /\ \A i, j \in 1..last : i < j => place[i] <= place[j]
         /\ segments' = [s \in SegmentID |-> Overlay(segments[s], Merge(data, I(place, s)))]
         /\ active' = IF last = 0 THEN active ELSE place[last]
  BY DEF Persist
<1>2. /\ n \in 0..Len(data) /\ n \in Nat /\ last \in Nat /\ n <= last
      /\ active \in Nat /\ 1 <= active /\ MaxSegment \in Nat
      /\ segments \in [SegmentID -> Layer]
  BY SamStoreAssumption DEF Persist, TypeInv, TypeOK, SegmentID
<1>3. ASSUME NEW i \in 1..n
      PROVE  place[i] \in SegmentID /\ place[i] \in active..active'
  <2>1. i \in 1..last /\ last \in 1..last /\ last # 0 /\ (i = last \/ i < last)
    BY <1>2
  <2>2. place[i] \in active..MaxSegment /\ place[last] \in active..MaxSegment
    BY <1>1, <2>1
  <2>3. place[i] <= place[last]
    BY <1>1, <1>2, <2>1, <2>2
  <2>4. active' = place[last]
    BY <1>1, <2>1
  <2> HIDE DEF last
  <2> QED BY <1>2, <2>2, <2>3, <2>4 DEF SegmentID
<1>4. \A i, j \in 1..n : i < j => place[i] <= place[j]
  <2>1. 1..n \subseteq 1..last
    BY <1>2
  <2> QED BY <1>1, <2>1
<1>5. ASSUME NEW s \in SegmentID, NEW k \in Key
      PROVE  segments'[s][k] = Over(Newest(data, I(place, s), k), segments[s][k])
  BY <1>1 DEF Overlay, Merge
<1>6. ASSUME NEW s \in SegmentID, s < active PROVE segments'[s] = segments[s]
  <2>1. I(place, s) = {}
    <3>1. ASSUME NEW i \in 1..n PROVE place[i] # s
      <4>1. place[i] \in active..active' /\ s \in Nat
        BY <1>3 DEF SegmentID
      <4> QED BY <1>2, <1>6, <4>1
    <3> QED BY <3>1
  <2>2. \A k \in Key : Over(Newest(data, I(place, s), k), segments[s][k]) = segments[s][k]
    <3> HIDE DEF I
    <3> QED BY <2>1, NewestNone, OverAssociative
  <2>3. segments'[s] = [k \in Key |-> segments'[s][k]] /\ segments[s] = [k \in Key |-> segments[s][k]]
    BY <1>1, <1>2 DEF Overlay, Layer
  <2> HIDE DEF I
  <2> QED BY <1>5, <2>2, <2>3
<1>7. Placed(data, n, place)
  BY <1>2, <1>3, <1>4, <1>5, <1>6 DEF Placed
<1> QED BY <1>7

(* The first n records of data end up above the segments that were there,  *)
(* however many rotations separate them.                                   *)
LEMMA PersistLogs ==
    ASSUME TypeInv, LogLayout, Running, NEW data \in Seq(Layer), NEW n,
           Persist(data, n), NEW c \in Nat, c < active, NEW k \in Key
    PROVE  Replayed(c, k)' = Over(Newest(data, 1..n, k), Replayed(c, k))
<1> DEFINE S == {s \in live : s > c}
           T == {s \in live' : s > c}
           D == Newest(data, 1..n, k)
<1>0. PICK place : Placed(data, n, place)
  BY PersistPlaces
<1> DEFINE I(s) == {i \in 1..n : place[i] = s}
<1>1. /\ n \in 0..Len(data) /\ n \in Nat
      /\ active \in Nat /\ live \subseteq SegmentID /\ live' \subseteq SegmentID
      /\ active \in live /\ \A s \in live : s <= active
      /\ live' = live \cup active..active'
      /\ \A s \in SegmentID \ live : segments[s] = EmptyLayer
  <2>1. TypeOK /\ live' \in SUBSET SegmentID
    BY PersistType DEF TypeInv
  <2> QED BY <2>1 DEF Persist, TypeOK, SegmentID, LogLayout
<1>2. S \in Indices /\ T \in Indices /\ S \subseteq T
  BY <1>1, SegmentIndices
<1>3. Replayed(c, k)' = Newest(segments', T, k) /\ Replayed(c, k) = Newest(segments, S, k)
  BY DEF Replayed
<1>4. \A s \in SegmentID : s \notin live => segments[s][k] = Absent
  BY <1>1 DEF EmptyLayer
<1>5. 1..n \in Indices /\ \A s : I(s) \in Indices /\ I(s) \subseteq 1..n
  <2>1. 1..n \in Indices
    BY <1>1, IntervalIndices
  <2> QED BY <2>1, SubsetIndices
<1>6. \A s \in SegmentID : segments'[s][k] = Over(Newest(data, I(s), k), segments[s][k])
  BY <1>0 DEF Placed
<1>7. \A i \in 1..n : i \in I(place[i])
  OBVIOUS
<1>8. \A s : \A i \in I(s) : i \in 1..n /\ place[i] = s
  OBVIOUS
<1>11. \/ /\ \A i \in 1..n : data[i][k] = Absent
          /\ D = Absent
       \/ \E i \in 1..n : /\ data[i][k] # Absent
                          /\ \A j \in 1..n : j > i => data[j][k] = Absent
                          /\ D = data[i][k]
  <2> DEFINE N == 1..n
  <2>1. N \in Indices
    BY <1>5
  <2> HIDE DEF N, S, T, I
  <2>2. \/ /\ \A i \in N : data[i][k] = Absent
           /\ Newest(data, N, k) = Absent
        \/ \E i \in N : /\ data[i][k] # Absent
                        /\ \A j \in N : j > i => data[j][k] = Absent
                        /\ Newest(data, N, k) = data[i][k]
    BY <2>1, NewestCases
  <2> QED BY <2>2 DEF N
<1> HIDE DEF S, T, I, D
<1>9. CASE D = Absent
  <2>1. \A i \in 1..n : data[i][k] = Absent
    BY <1>9, <1>11
  <2>2. \A s : Newest(data, I(s), k) = Absent
    BY <1>5, <1>8, <2>1, NewestAbsent
  <2>3. \A s \in SegmentID : segments'[s][k] = segments[s][k]
    BY <1>6, <2>2, OverAssociative
  <2>4. S \subseteq SegmentID /\ \A s \in T \ S : s \in SegmentID /\ s \notin live
    BY <1>1 DEF S, T
  <2>5. \A s \in T \ S : segments'[s][k] = Absent
    BY <1>4, <2>3, <2>4
  <2>6. Newest(segments', T, k) = Newest(segments', S, k)
    BY <1>2, <2>5, NewestWiden
  <2>7. Newest(segments', S, k) = Newest(segments, S, k)
    BY <1>2, <2>3, <2>4, NewestSame
  <2> QED BY <1>3, <1>9, <2>6, <2>7, OverAssociative DEF D
<1>10. CASE D # Absent
  <2>1. PICK i \in 1..n : /\ data[i][k] # Absent
                          /\ \A j \in 1..n : j > i => data[j][k] = Absent
                          /\ D = data[i][k]
    BY <1>10, <1>11
  <2> DEFINE t == place[i]
  <2>2. /\ t \in SegmentID /\ t \in active..active' /\ t \in Nat /\ active <= t
        /\ i \in I(t)
    BY <1>0, <1>1, <1>7 DEF Placed, SegmentID
  <2>3. t \in T
    BY <1>1, <2>2 DEF T
  <2>4. Newest(data, I(t), k) = data[i][k]
    BY <1>5, <1>8, <2>1, <2>2, NewestIs
  <2>5. segments'[t][k] = D
    BY <1>6, <1>10, <2>1, <2>2, <2>4 DEF Over
  <2>6. ASSUME NEW s \in T, s > t PROVE segments'[s][k] = Absent
    <3>1. s \in SegmentID /\ s \in Nat
      BY <1>1 DEF T, SegmentID
    <3>2. ASSUME NEW j \in I(s) PROVE data[j][k] = Absent
      <4>1. j \in 1..n /\ place[j] = s
        BY <1>8
      <4>2. ~(j < i) /\ j # i
        BY <1>0, <2>2, <2>6, <3>1, <4>1 DEF Placed
      <4>3. j > i
        BY <4>1, <4>2
      <4> QED BY <2>1, <4>1, <4>3
    <3>3. Newest(data, I(s), k) = Absent
      BY <1>5, <3>2, NewestAbsent
    <3>4. s \notin live
      BY <1>1, <2>2, <2>6, <3>1
    <3> QED BY <1>4, <1>6, <3>1, <3>3, <3>4, OverAssociative
  <2> HIDE DEF t, D
  <2>7. Newest(segments', T, k) = segments'[t][k]
    BY <1>2, <1>10, <2>3, <2>5, <2>6, NewestIs
  <2> QED BY <1>3, <1>10, <2>5, <2>7 DEF Over, D
<1> QED BY <1>9, <1>10

(* What is already covered is not written to.                              *)
LEMMA PersistLeftover ==
    ASSUME TypeInv, CutoffsOrdered, NEW data \in Seq(Layer), NEW n,
           Persist(data, n), covered' = covered, NEW k
    PROVE  Leftover(k)' = Leftover(k)
<1> DEFINE S == {s \in live : s <= covered}
<1>0. PICK place : Placed(data, n, place)
  BY PersistPlaces
<1>1. /\ active \in Nat /\ covered \in Nat /\ covered < active
      /\ live \subseteq SegmentID /\ live \subseteq Nat
      /\ live' = live \cup active..active'
  BY DEF TypeInv, TypeOK, SegmentID, CutoffsOrdered, Persist
<1>2. S = {s \in live' : s <= covered}
  <2>1. \A s \in active..active' : ~(s <= covered)
    BY <1>1
  <2> QED BY <1>1, <2>1
<1>3. \A s \in S : segments'[s][k] = segments[s][k]
  <2>1. \A s \in S : s \in SegmentID /\ s < active
    BY <1>1
  <2> QED BY <1>0, <2>1 DEF Placed
<1>4. Newest(segments', S, k) = Newest(segments, S, k)
  <2>1. S \in Indices
    BY LiveIndices
  <2> HIDE DEF S
  <2> QED BY <1>3, <2>1, NewestSame
<1> QED BY <1>2, <1>4 DEF Leftover

LEMMA PersistLayout ==
    ASSUME TypeInv, LogLayout, Running, NEW data \in Seq(Layer), NEW n, Persist(data, n)
    PROVE  LogLayout'
<1>0. PICK place : Placed(data, n, place)
  BY PersistPlaces
<1>1. /\ active \in Nat /\ live \subseteq SegmentID /\ live \subseteq Nat
      /\ active \in live /\ \A s \in live : s <= active
      /\ live' = live \cup active..active'
      /\ active' \in SegmentID /\ active' \in Nat /\ active <= active'
      /\ segments \in [SegmentID -> Layer] /\ segments' \in [SegmentID -> Layer]
  <2>1. TypeOK /\ active' \in SegmentID /\ segments' \in [SegmentID -> Layer]
    BY PersistType DEF TypeInv
  <2>2. active <= active'
    BY PersistAdvances
  <2> QED BY <2>1, <2>2 DEF Persist, TypeOK, SegmentID, LogLayout
<1>2. ASSUME NEW s \in SegmentID \ live' PROVE segments'[s] = EmptyLayer
  <2>1. s \notin live /\ s \notin active..active' /\ segments[s] = EmptyLayer
    BY <1>1 DEF LogLayout
  <2>2. {i \in 1..n : place[i] = s} = {}
    BY <1>0, <2>1 DEF Placed
  <2>3. ASSUME NEW k \in Key PROVE segments'[s][k] = Absent
    <3>1. segments'[s][k] = Over(Newest(data, {i \in 1..n : place[i] = s}, k), segments[s][k])
      BY <1>0 DEF Placed
    <3>2. segments[s][k] = Absent
      BY <2>1 DEF EmptyLayer
    <3> QED BY <2>2, <3>1, <3>2, NewestNone DEF Over
  <2>4. segments'[s] = [k \in Key |-> segments'[s][k]]
    BY <1>1 DEF Layer
  <2> QED BY <2>3, <2>4 DEF EmptyLayer
<1>3. active' \in live' /\ \A s \in live' : s <= active'
  BY <1>1
<1> QED BY <1>2, <1>3 DEF LogLayout

(* Only written keys have an entry among the first n records.              *)
LEMMA WrittenNewest ==
    ASSUME NEW data \in Seq(Layer), NEW n \in 0..Len(data), NEW k
    PROVE  Newest(data, 1..n, k) \in Written(data, k) \cup {Absent}
<1>1. 1..n \in Indices /\ 1..n \subseteq DOMAIN data
  BY PrefixIndices
<1>2. CASE Newest(data, 1..n, k) = Absent
  BY <1>2
<1>3. CASE Newest(data, 1..n, k) # Absent
  <2> DEFINE S == 1..n
  <2>1. S \in Indices /\ S \subseteq DOMAIN data
    BY <1>1
  <2>2. Newest(data, S, k) # Absent
    BY <1>3
  <2> HIDE DEF S
  <2>3. \E i \in S : data[i][k] # Absent /\ Newest(data, S, k) = data[i][k]
    BY <2>1, <2>2, NewestCases
  <2> QED BY <2>1, <2>3 DEF Written, S
<1> QED BY <1>2, <1>3

LEMMA WrittenAll ==
    ASSUME NEW data \in Seq(Layer), NEW k, Written(data, k) # {}
    PROVE  Newest(data, DOMAIN data, k) \in Written(data, k)
<1>1. DOMAIN data = 1..Len(data) /\ Len(data) \in 0..Len(data)
  OBVIOUS
<1>2. Newest(data, DOMAIN data, k) \in Written(data, k) \cup {Absent}
  BY <1>1, WrittenNewest
<1>3. Newest(data, DOMAIN data, k) # Absent
  <2> DEFINE S == DOMAIN data
  <2>1. S \in Indices
    BY ListIndices
  <2>2. \E i \in S : data[i][k] # Absent
    BY DEF Written
  <2> HIDE DEF S
  <2>3. Newest(data, S, k) # Absent
    BY <2>1, <2>2, NewestCases
  <2> QED BY <2>3 DEF S
<1> QED BY <1>2, <1>3

-----------------------------------------------------------------------------
(* The actions, for one key.                                               *)

(* A step that leaves log and memory alone, and the answers of the tables. *)
LEMMA KeyUntouched ==
    ASSUME NEW k \in Key, KeyInv(k),
           UNCHANGED <<segments, live, buffer, mem, immutables, covered>>,
           doubt'[k] = doubt[k], older'[k] = older[k],
           Answer(OnTables(sstables, k)') = Answer(OnTables(sstables, k))
    PROVE  /\ KeyInv(k)'
           /\ Answer(Lookup(k)') = Answer(Lookup(k))
<1>1. Positions' = Positions /\ \A j \in Positions : Cutoff(j)' = Cutoff(j)
  BY DEF Positions, Cutoff
<1>2. \A j : /\ InMemory(j, k)' = InMemory(j, k)
             /\ FrozenAbove(j, k)' = FrozenAbove(j, k)
             /\ FrozenUpTo(j, k)' = FrozenUpTo(j, k)
  BY DEF InMemory, FrozenAbove, FrozenUpTo, Frozen
<1>3. /\ \A c : Replayed(c, k)' = Replayed(c, k) /\ Logged(c, k)' = Logged(c, k)
      /\ Leftover(k)' = Leftover(k)
  BY DEF Replayed, Logged, Leftover
<1>4. \A e : Answer(Over(e, OnTables(sstables, k)')) = Answer(Over(e, OnTables(sstables, k)))
  BY AnswerOver
<1>5. Answer(Lookup(k)') = Answer(Lookup(k))
  BY <1>2, <1>4 DEF Lookup
<1>6. Allowed(k)' = Allowed(k)
  BY <1>5 DEF Allowed
<1>7. \A n : Answer(Restarted(n, k)') = Answer(Restarted(n, k))
  BY <1>3, <1>4, OverAssociative DEF Restarted
<1>8. MemoryLogged(k)'
  BY <1>1, <1>2, <1>3 DEF KeyInv, MemoryLogged
<1>9. FrozenOnFile(k)'
  BY <1>1, <1>2, <1>3 DEF KeyInv, FrozenOnFile
<1>10. TablesAllowed(k)'
  BY <1>1, <1>2, <1>3, <1>4, <1>6 DEF KeyInv, TablesAllowed
<1>11. CrashAllowed(k)'
  BY <1>6, <1>7 DEF KeyInv, CrashAllowed
<1>12. LeftoverRepeats(k)'
  BY <1>3 DEF KeyInv, LeftoverRepeats
<1> QED BY <1>5, <1>8, <1>9, <1>10, <1>11, <1>12 DEF KeyInv

(* Records that are buffered already reach the file, and stay in the       *)
(* buffer: WALFlushFails.                                                  *)
LEMMA KeyFlushFails ==
    ASSUME RecoveryInv, Running, NEW k \in Key, WALFlushFails
    PROVE  KeyInv(k)' /\ Lookup(k)' = Lookup(k)
<1>1. PICK n \in 0..Len(buffer) : Persist(buffer, n)
  BY DEF WALFlushFails
<1>2. /\ TypeInv /\ LogLayout /\ CutoffsOrdered /\ KeyInv(k)
      /\ buffer \in Seq(Layer)
  BY DEF RecoveryInv, ControlInv, TypeInv, TypeOK
<1>3. /\ UNCHANGED <<files, mem, immutables, sstables, covered, doubt, older>>
      /\ buffer' = buffer
  BY DEF WALFlushFails, Restored, memVars, tabVars, history
<1>4. Positions' = Positions /\ \A j \in Positions : Cutoff(j)' = Cutoff(j)
  BY <1>3 DEF Positions, Cutoff
<1>5. /\ OnTables(sstables, k)' = OnTables(sstables, k)
      /\ Lookup(k)' = Lookup(k)
      /\ \A j : /\ InMemory(j, k)' = InMemory(j, k)
                /\ FrozenAbove(j, k)' = FrozenAbove(j, k)
                /\ FrozenUpTo(j, k)' = FrozenUpTo(j, k)
  BY <1>3 DEF OnTables, Tables, Lookup, InMemory, FrozenAbove, FrozenUpTo, Frozen
<1>6. Allowed(k)' = Allowed(k)
  BY <1>3, <1>5 DEF Allowed
<1> DEFINE B(m) == Newest(buffer, 1..m, k)
           All == Newest(buffer, DOMAIN buffer, k)
<1>7. All = Absent => B(n) = Absent
  <2>1. DOMAIN buffer \in Indices /\ 1..n \subseteq DOMAIN buffer /\ 1..n \in Indices
    BY <1>2, ListIndices, PrefixIndices
  <2>2. All = Absent => \A i \in DOMAIN buffer : buffer[i][k] = Absent
    BY <2>1, NewestCases
  <2> QED BY <2>1, <2>2, NewestAbsent
<1>8. \A c \in Nat : c < active => Replayed(c, k)' = Over(B(n), Replayed(c, k))
  BY <1>1, <1>2, PersistLogs
<1>9. \A c \in Nat : c < active => Logged(c, k)' = Logged(c, k)
  <2> SUFFICES ASSUME NEW c \in Nat, c < active PROVE Logged(c, k)' = Logged(c, k)
    OBVIOUS
  <2>1. Logged(c, k)' = Over(All, Over(B(n), Replayed(c, k)))
    BY <1>3, <1>8 DEF Logged
  <2> QED BY <1>7, <2>1 DEF Logged, Over
<1>10. \A j \in Positions : Cutoff(j) \in Nat /\ Cutoff(j) < active
  BY <1>2, CutoffType
<1>11. MemoryLogged(k)'
  BY <1>2, <1>3, <1>4, <1>5, <1>9, <1>10 DEF KeyInv, MemoryLogged
<1>12. \A j \in Positions : Replayed(Cutoff(j), k)' = Absent => Replayed(Cutoff(j), k) = Absent
  BY <1>4, <1>8, <1>10 DEF Over
<1>13. FrozenOnFile(k)'
  BY <1>2, <1>4, <1>5, <1>12 DEF KeyInv, FrozenOnFile
<1>14. TablesAllowed(k)'
  BY <1>2, <1>4, <1>5, <1>6, <1>12 DEF KeyInv, TablesAllowed
<1>15. CrashAllowed(k)'
  <2> SUFFICES ASSUME NEW m \in 0..Len(buffer)
               PROVE  Answer(Restarted(m, k)') \in Allowed(k)
    BY <1>3, <1>6 DEF CrashAllowed
  <2>1. 0 < active
    BY <1>2 DEF TypeInv, TypeOK, SegmentID
  <2>2. Restarted(m, k)'
          = Over(B(m), Over(Over(B(n), Replayed(0, k)), OnTables(sstables, k)))
    BY <1>3, <1>5, <1>8, <2>1 DEF Restarted
  <2>3. Restarted(m, k)' = Restarted(m, k) \/ Restarted(m, k)' = Restarted(n, k)
    BY <2>2, OverAssociative DEF Restarted, Over
  <2> QED BY <1>2, <2>3 DEF KeyInv, CrashAllowed
<1>16. LeftoverRepeats(k)'
  <2>1. covered \in Nat /\ covered < active
    BY <1>2 DEF TypeInv, TypeOK, CutoffsOrdered
  <2>2. Leftover(k)' = Leftover(k)
    BY <1>1, <1>2, <1>3, PersistLeftover
  <2> QED BY <1>2, <1>3, <1>5, <1>9, <2>1, <2>2 DEF KeyInv, LeftoverRepeats
<1> QED BY <1>5, <1>11, <1>13, <1>14, <1>15, <1>16 DEF KeyInv

(* The buffer reaches the file as a whole: WALFlush.                       *)
LEMMA KeyFlush ==
    ASSUME RecoveryInv, Running, NEW k \in Key, WALFlush
    PROVE  KeyInv(k)' /\ Lookup(k)' = Lookup(k)
<1>1. Persist(buffer, Len(buffer))
  BY DEF WALFlush
<1>2. /\ TypeInv /\ LogLayout /\ CutoffsOrdered /\ KeyInv(k)
      /\ buffer \in Seq(Layer) /\ DOMAIN buffer = 1..Len(buffer)
  BY DEF RecoveryInv, ControlInv, TypeInv, TypeOK
<1>3. /\ UNCHANGED <<files, mem, immutables, sstables, covered, doubt>>
      /\ buffer' = <<>>
  BY DEF WALFlush, memVars, tabVars
<1>4. Positions' = Positions /\ \A j \in Positions : Cutoff(j)' = Cutoff(j)
  BY <1>3 DEF Positions, Cutoff
<1>5. /\ OnTables(sstables, k)' = OnTables(sstables, k)
      /\ Lookup(k)' = Lookup(k)
      /\ \A j : /\ InMemory(j, k)' = InMemory(j, k)
                /\ FrozenAbove(j, k)' = FrozenAbove(j, k)
                /\ FrozenUpTo(j, k)' = FrozenUpTo(j, k)
  BY <1>3 DEF OnTables, Tables, Lookup, InMemory, FrozenAbove, FrozenUpTo, Frozen
<1>6. \A c \in Nat : c < active => Replayed(c, k)' = Logged(c, k)
  BY <1>1, <1>2, PersistLogs DEF Logged
<1>7. \A c : Logged(c, k)' = Replayed(c, k)'
  <2>1. Newest(buffer', DOMAIN buffer', k) = Absent
    <3>1. DOMAIN buffer' = {}
      BY <1>3
    <3> QED BY <3>1, NewestNone
  <2> QED BY <2>1, OverAssociative DEF Logged
<1>8. \A j \in Positions : Cutoff(j) \in Nat /\ Cutoff(j) < active
  BY <1>2, CutoffType
<1>9. MemoryLogged(k)'
  BY <1>2, <1>3, <1>4, <1>5, <1>6, <1>7, <1>8 DEF KeyInv, MemoryLogged
<1>10. FrozenOnFile(k)'
  BY <1>2, <1>4, <1>5, <1>6, <1>8 DEF KeyInv, FrozenOnFile, Logged, Over
<1>11. {Answer(e) : e \in {Lookup(k)} \cup doubt[k]} \subseteq Allowed(k)'
  BY <1>3, <1>5 DEF Allowed
<1>12. TablesAllowed(k)'
  <2> SUFFICES ASSUME NEW j \in Positions, Logged(Cutoff(j), k) = Absent
               PROVE  Answer(Over(FrozenUpTo(j, k), OnTables(sstables, k))) = Answer(Lookup(k))
    BY <1>4, <1>5, <1>6, <1>8, <1>11 DEF TablesAllowed
  <2>1. InMemory(j, k) = Absent
    BY <1>2, SilentLog DEF KeyInv
  <2> QED BY <1>2, <2>1, LookupSplit, OverAssociative
<1>13. CrashAllowed(k)'
  <2> SUFFICES ASSUME NEW n \in 0..Len(buffer')
               PROVE  Answer(Restarted(n, k)') \in Allowed(k)'
    BY DEF CrashAllowed
  <2>1. 0 < active
    BY <1>2 DEF TypeInv, TypeOK, SegmentID
  <2>2. Newest(buffer', 1..n, k) = Absent
    <3>1. 1..n = {}
      BY <1>3
    <3> QED BY <3>1, NewestNone
  <2>3. Restarted(n, k)' = Over(Logged(0, k), OnTables(sstables, k))
    BY <1>5, <1>6, <2>1, <2>2, OverAssociative DEF Restarted
  <2> QED BY <1>11, <2>3, LogCompletesKey
<1>14. LeftoverRepeats(k)'
  <2>1. covered \in Nat /\ covered < active
    BY <1>2 DEF TypeInv, TypeOK, CutoffsOrdered
  <2>2. Leftover(k)' = Leftover(k)
    BY <1>1, <1>2, <1>3, PersistLeftover
  <2> QED BY <1>2, <1>3, <1>5, <1>6, <1>7, <2>1, <2>2 DEF KeyInv, LeftoverRepeats
<1> QED BY <1>5, <1>9, <1>10, <1>12, <1>13, <1>14 DEF KeyInv

(* Records that bypass the buffer hide what the log held.  They were       *)
(* acknowledged or not: what differs is what memory holds afterwards.      *)
LEMMA KeyDirect ==
    ASSUME RecoveryInv, Running, NEW k \in Key, buffer = <<>>,
           NEW data \in Seq(Layer), NEW n \in 0..Len(data),
           Persist(data, n),
           UNCHANGED <<files, immutables, sstables, covered, buffer>>,
           Newest(data, 1..n, k) # Absent,
           \A j \in Positions :
               Newest(data, 1..n, k) \in {InMemory(j, k)'} \cup doubt'[k]
    PROVE  KeyInv(k)'
<1> DEFINE D == Newest(data, 1..n, k)
<1>1. /\ TypeInv /\ LogLayout /\ CutoffsOrdered /\ KeyInv(k)
  BY DEF RecoveryInv, ControlInv
<1>2. Positions' = Positions /\ \A j \in Positions : Cutoff(j)' = Cutoff(j)
  BY DEF Positions, Cutoff
<1>3. /\ D # Absent
      /\ \A c \in Nat : c < active => Replayed(c, k)' = D
  BY <1>1, PersistLogs DEF Over
<1>4. \A c : Logged(c, k)' = Replayed(c, k)'
  <2>1. Newest(buffer', DOMAIN buffer', k) = Absent
    <3>1. DOMAIN buffer' = {}
      OBVIOUS
    <3> QED BY <3>1, NewestNone
  <2> QED BY <2>1, OverAssociative DEF Logged
<1>5. \A j \in Positions : Cutoff(j) \in Nat /\ Cutoff(j) < active
  BY <1>1, CutoffType
<1>6. MemoryLogged(k)'
  BY <1>2, <1>3, <1>4, <1>5 DEF MemoryLogged
<1>7. FrozenOnFile(k)' /\ TablesAllowed(k)'
  BY <1>2, <1>3, <1>5 DEF FrozenOnFile, TablesAllowed
<1>8. CrashAllowed(k)'
  <2> SUFFICES ASSUME NEW m \in 0..Len(buffer')
               PROVE  Answer(Restarted(m, k)') \in Allowed(k)'
    BY DEF CrashAllowed
  <2>1. 0 < active
    BY <1>1 DEF TypeInv, TypeOK, SegmentID
  <2>2. Newest(buffer', 1..m, k) = Absent
    <3>1. 1..m = {}
      OBVIOUS
    <3> QED BY <3>1, NewestNone
  <2>3. Restarted(m, k)' = D
    BY <1>3, <2>1, <2>2 DEF Restarted, Over
  <2>4. D \in {InMemory(0, k)'} \cup doubt'[k]
    BY <1>1, FirstPosition
  <2>5. D = InMemory(0, k)' => Lookup(k)' = D
    BY <1>3 DEF Lookup, Over
  <2> QED BY <2>3, <2>4, <2>5 DEF Allowed
<1>9. LeftoverRepeats(k)'
  <2>1. covered \in Nat /\ covered < active
    BY <1>1 DEF TypeInv, TypeOK, CutoffsOrdered
  <2> QED BY <1>3, <1>4, <2>1 DEF LeftoverRepeats
<1> QED BY <1>6, <1>7, <1>8, <1>9 DEF KeyInv

(* Records that bypass the buffer and say nothing of k.                    *)
LEMMA KeySilent ==
    ASSUME RecoveryInv, Running, NEW k \in Key,
           NEW data \in Seq(Layer), NEW n \in 0..Len(data),
           Persist(data, n),
           UNCHANGED <<files, immutables, sstables, covered, buffer>>,
           Newest(data, 1..n, k) = Absent,
           mem'[k] = mem[k], doubt'[k] = doubt[k], older'[k] = older[k]
    PROVE  KeyInv(k)' /\ Lookup(k)' = Lookup(k)
<1>1. /\ TypeInv /\ LogLayout /\ CutoffsOrdered /\ KeyInv(k)
  BY DEF RecoveryInv, ControlInv
<1>2. Positions' = Positions /\ \A j \in Positions : Cutoff(j)' = Cutoff(j)
  BY DEF Positions, Cutoff
<1>3. /\ OnTables(sstables, k)' = OnTables(sstables, k)
      /\ Lookup(k)' = Lookup(k)
      /\ \A j : /\ InMemory(j, k)' = InMemory(j, k)
                /\ FrozenAbove(j, k)' = FrozenAbove(j, k)
                /\ FrozenUpTo(j, k)' = FrozenUpTo(j, k)
  BY DEF OnTables, Tables, Lookup, InMemory, FrozenAbove, FrozenUpTo, Frozen
<1>4. Allowed(k)' = Allowed(k)
  BY <1>3 DEF Allowed
<1>5. \A c \in Nat : c < active => Replayed(c, k)' = Replayed(c, k)
  BY <1>1, PersistLogs, OverAssociative
<1>6. \A c \in Nat : c < active => Logged(c, k)' = Logged(c, k)
  BY <1>5 DEF Logged
<1>7. \A j \in Positions : Cutoff(j) \in Nat /\ Cutoff(j) < active
  BY <1>1, CutoffType
<1>8. 0 < active /\ covered \in Nat /\ covered < active
  BY <1>1 DEF TypeInv, TypeOK, SegmentID, CutoffsOrdered
<1>9. \A m : Restarted(m, k)' = Restarted(m, k)
  BY <1>3, <1>5, <1>8 DEF Restarted
<1>10. Leftover(k)' = Leftover(k)
  BY <1>1, PersistLeftover
<1>11. MemoryLogged(k)'
  BY <1>1, <1>2, <1>3, <1>6, <1>7 DEF KeyInv, MemoryLogged
<1>12. FrozenOnFile(k)'
  BY <1>1, <1>2, <1>3, <1>5, <1>7 DEF KeyInv, FrozenOnFile
<1>13. TablesAllowed(k)'
  BY <1>1, <1>2, <1>3, <1>4, <1>5, <1>7 DEF KeyInv, TablesAllowed
<1>14. CrashAllowed(k)'
  BY <1>1, <1>4, <1>9 DEF KeyInv, CrashAllowed
<1>15. LeftoverRepeats(k)'
  BY <1>1, <1>3, <1>6, <1>8, <1>10 DEF KeyInv, LeftoverRepeats
<1> QED BY <1>3, <1>11, <1>12, <1>13, <1>14, <1>15 DEF KeyInv

(* A write puts its records above everything in memory.                    *)
LEMMA WriteLookup ==
    ASSUME RecoveryInv, NEW k \in Key, NEW data \in Seq(Layer), Write(data)
    PROVE  /\ Running
           /\ UNCHANGED <<files, onDisk, manifest, phase, immutables, sstables, covered>>
           /\ mem'[k] = Over(Newest(data, DOMAIN data, k), mem[k])
           /\ \A j : InMemory(j, k)'
                       = Over(Newest(data, DOMAIN data, k), InMemory(j, k))
           /\ Lookup(k)' = Over(Newest(data, DOMAIN data, k), Lookup(k))
<1>1. Running /\ UNCHANGED <<files, onDisk, manifest, phase, immutables, sstables, covered>>
  BY DEF Write, Writable, Running, tabVars
<1>2. mem'[k] = Over(Newest(data, DOMAIN data, k), mem[k])
  BY DEF Write, Overlay, Merge
<1>3. \A j : InMemory(j, k)' = Over(Newest(data, DOMAIN data, k), InMemory(j, k))
  BY <1>1, <1>2, OverAssociative DEF InMemory, Frozen
<1>4. OnTables(sstables, k)' = OnTables(sstables, k)
  BY <1>1 DEF OnTables, Tables
<1>5. Lookup(k)' = Over(Newest(data, DOMAIN data, k), Lookup(k))
  BY <1>3, <1>4, OverAssociative DEF Lookup
<1> QED BY <1>1, <1>2, <1>3, <1>5

(* Records that wait in the buffer: until they are flushed, k may be       *)
(* answered as before them or by any of them.                              *)
LEMMA KeyBuffered ==
    ASSUME RecoveryInv, NEW k \in Key, NEW data \in Seq(Layer), Write(data),
           ~Direct(data)
    PROVE  KeyInv(k)'
<1> DEFINE D == Newest(data, DOMAIN data, k)
           W == Written(data, k)
<1>0. Running
  BY WriteLookup
<1>1. /\ TypeInv /\ KeyInv(k) /\ buffer \in Seq(Layer)
      /\ DOMAIN data = 1..Len(data) /\ DOMAIN buffer = 1..Len(buffer)
      /\ Len(data) \in 0..Len(data) /\ Len(data) \in Nat /\ Len(buffer) \in Nat
  BY <1>0 DEF RecoveryInv, ControlInv, TypeInv, TypeOK
<1>2. /\ UNCHANGED <<files, immutables, sstables, covered>>
      /\ \A j : InMemory(j, k)' = Over(D, InMemory(j, k))
      /\ Lookup(k)' = Over(D, Lookup(k))
  BY WriteLookup
<1>3. UNCHANGED <<segments, live, active>> /\ buffer' = buffer \o data
  BY DEF Write, AppendLog
<1>4. Positions' = Positions /\ \A j \in Positions : Cutoff(j)' = Cutoff(j)
  BY <1>2 DEF Positions, Cutoff
<1>5. /\ OnTables(sstables, k)' = OnTables(sstables, k)
      /\ \A j : /\ FrozenAbove(j, k)' = FrozenAbove(j, k)
                /\ FrozenUpTo(j, k)' = FrozenUpTo(j, k)
      /\ \A c : Replayed(c, k)' = Replayed(c, k)
      /\ Leftover(k)' = Leftover(k)
  BY <1>2, <1>3 DEF OnTables, Tables, FrozenAbove, FrozenUpTo, Frozen, Replayed, Leftover
<1>6. \A c : Logged(c, k)' = Over(D, Logged(c, k))
  <2>1. DOMAIN buffer' = 1..(Len(buffer) + Len(data))
    BY <1>1, <1>3
  <2>2. Newest(buffer', DOMAIN buffer', k) = Over(D, Newest(buffer, DOMAIN buffer, k))
    BY <1>1, <1>3, <2>1, NewestConcat
  <2> QED BY <1>5, <2>2, OverAssociative DEF Logged
<1>7. IF W = {} THEN D = Absent /\ doubt'[k] = doubt[k] /\ older'[k] = older[k]
      ELSE /\ D \in W /\ D # Absent /\ doubt'[k] = {}
           /\ older'[k] = older[k] \cup {Answer(Lookup(k))}
                            \cup {Answer(e) : e \in doubt[k] \cup W}
  <2>1. W = {} => D = Absent
    BY <1>1, WrittenNewest
  <2>2. W # {} => D \in W /\ D # Absent
    BY WrittenAll DEF Written
  <2> QED BY <2>1, <2>2 DEF Write
<1>8. Allowed(k) \subseteq Allowed(k)' /\ \A e \in W : Answer(e) \in Allowed(k)'
  <2>1. CASE W = {}
    BY <1>2, <1>7, <2>1, OverAssociative DEF Allowed
  <2>2. CASE W # {}
    BY <1>7, <2>2 DEF Allowed
  <2> QED BY <2>1, <2>2
<1>9. MemoryLogged(k)'
  BY <1>1, <1>2, <1>4, <1>6, <1>7 DEF KeyInv, MemoryLogged, Over
<1>10. FrozenOnFile(k)'
  BY <1>1, <1>4, <1>5 DEF KeyInv, FrozenOnFile
<1>11. TablesAllowed(k)'
  BY <1>1, <1>4, <1>5, <1>8 DEF KeyInv, TablesAllowed
<1>12. CrashAllowed(k)'
  <2> DEFINE R == Over(Replayed(0, k), OnTables(sstables, k))
  <2> SUFFICES ASSUME NEW n \in 0..Len(buffer')
               PROVE  Answer(Restarted(n, k)') \in Allowed(k)'
    BY DEF CrashAllowed
  <2>1. Restarted(n, k)' = Over(Newest(buffer', 1..n, k), R)
    BY <1>5 DEF Restarted
  <2>2. CASE n \in 0..Len(buffer)
    <3>1. Newest(buffer', 1..n, k) = Newest(buffer, 1..n, k)
      BY <1>1, <1>3, <2>2, NewestPrefix
    <3>2. Restarted(n, k)' = Restarted(n, k)
      BY <2>1, <3>1 DEF Restarted
    <3> QED BY <1>1, <1>8, <2>2, <3>2 DEF KeyInv, CrashAllowed
  <2>3. CASE n \notin 0..Len(buffer)
    <3>1. Len(buffer') = Len(buffer) + Len(data)
      BY <1>1, <1>3
    <3>2. PICK m \in 0..Len(data) : n = Len(buffer) + m
      <4>1. n \in Nat /\ n <= Len(buffer) + Len(data) /\ ~(n <= Len(buffer))
        BY <1>1, <2>3, <3>1
      <4>2. n - Len(buffer) \in 0..Len(data) /\ n = Len(buffer) + (n - Len(buffer))
        BY <1>1, <4>1
      <4> QED BY <4>2
    <3>3. Newest(buffer', 1..n, k)
            = Over(Newest(data, 1..m, k), Newest(buffer, 1..Len(buffer), k))
      BY <1>1, <1>3, <3>2, NewestConcat
    <3>4. Restarted(n, k)' = Over(Newest(data, 1..m, k), Restarted(Len(buffer), k))
      BY <2>1, <3>3, OverAssociative DEF Restarted
    <3>5. Newest(data, 1..m, k) \in W \cup {Absent}
      BY WrittenNewest
    <3>6. Answer(Restarted(Len(buffer), k)) \in Allowed(k)
      BY <1>1 DEF KeyInv, CrashAllowed
    <3> QED BY <1>8, <3>4, <3>5, <3>6 DEF Over
  <2> QED BY <2>2, <2>3
<1>13. LeftoverRepeats(k)'
  BY <1>1, <1>2, <1>5, <1>6, <1>7 DEF KeyInv, LeftoverRepeats, Over
<1> QED BY <1>9, <1>10, <1>11, <1>12, <1>13 DEF KeyInv

(* Put, Delete and WriteBatch.                                             *)
LEMMA KeyWrite ==
    ASSUME RecoveryInv, NEW k \in Key, NEW data \in Seq(Layer), Write(data)
    PROVE  KeyInv(k)'
<1> DEFINE D == Newest(data, DOMAIN data, k)
<1>1. /\ Running
      /\ UNCHANGED <<files, immutables, sstables, covered>>
      /\ mem'[k] = Over(D, mem[k])
      /\ \A j : InMemory(j, k)' = Over(D, InMemory(j, k))
  BY WriteLookup
<1>2. CASE ~Direct(data)
  BY <1>2, KeyBuffered
<1>3. CASE Direct(data)
  <2>1. Persist(data, Len(data))
    BY <1>3 DEF Write, AppendLog
  <2>2. buffer = <<>> /\ buffer' = buffer
    BY <1>3 DEF Write, AppendLog, Drained
  <2>3. /\ DOMAIN data = 1..Len(data) /\ Len(data) \in 0..Len(data)
        /\ D = Newest(data, 1..Len(data), k)
    OBVIOUS
  <2>4. CASE Written(data, k) = {}
    <3>1. D = Absent
      BY <2>3, <2>4, WrittenNewest
    <3>2. mem'[k] = mem[k]
      BY <1>1, <3>1, OverAssociative
    <3>3. doubt'[k] = doubt[k] /\ older'[k] = older[k]
      BY <2>4 DEF Write
    <3> QED BY <1>1, <2>1, <2>2, <2>3, <3>1, <3>2, <3>3, KeySilent
  <2>5. CASE Written(data, k) # {}
    <3>1. D # Absent
      BY <2>5, WrittenAll DEF Written
    <3>2. \A j \in Positions : D \in {InMemory(j, k)'} \cup doubt'[k]
      BY <1>1, <3>1 DEF Over
    <3> QED BY <1>1, <2>1, <2>2, <2>3, <3>1, <3>2, KeyDirect
  <2> QED BY <2>4, <2>5
<1> QED BY <1>2, <1>3

(* A write that returns an error leaves memory alone.                      *)
LEMMA KeyWriteFails ==
    ASSUME RecoveryInv, NEW k \in Key, NEW data \in Seq(Layer), WriteFails(data)
    PROVE  /\ KeyInv(k)'
           /\ Running /\ Lookup(k)' = Lookup(k)
           /\ doubt[k] \subseteq doubt'[k] /\ older'[k] = older[k]
<1>1. PICK n \in 0..Len(data) :
          /\ Persist(data, n)
          /\ doubt' = [x \in Key |-> doubt[x] \cup Written(SubSeq(data, 1, n), x)]
  BY DEF WriteFails
<1>2. /\ Running
      /\ UNCHANGED <<files, mem, immutables, sstables, covered, buffer, older>>
      /\ buffer = <<>>
  BY DEF WriteFails, Writable, Running, memVars, tabVars, Drained
<1>3. /\ \A j : InMemory(j, k)' = InMemory(j, k)
      /\ Lookup(k)' = Lookup(k)
  BY <1>2 DEF InMemory, Lookup, Frozen, OnTables, Tables
<1>4. n \in 0..Len(data) /\ doubt'[k] = doubt[k] \cup Written(SubSeq(data, 1, n), k)
  BY <1>1
<1> DEFINE first == SubSeq(data, 1, n)
           D == Newest(data, 1..n, k)
<1>5. first \in Seq(Layer) /\ DOMAIN first = 1..n
      /\ \A i \in 1..n : first[i] = data[i]
  BY <1>1
<1>6. Newest(first, DOMAIN first, k) = D
  <2> DEFINE S == 1..n
  <2>1. S \in Indices
    BY <1>4, PrefixIndices
  <2>2. \A i \in S : first[i][k] = data[i][k]
    BY <1>5
  <2> HIDE DEF first, S
  <2>3. Newest(first, S, k) = Newest(data, S, k)
    BY <2>1, <2>2, NewestSame
  <2> QED BY <1>5, <2>3 DEF S
<1>7. CASE D = Absent
  <2>1. Written(first, k) = {}
    <3> HIDE DEF first, D
    <3>1. Absent \notin Written(first, k)
      BY DEF Written
    <3> QED BY <1>5, <1>6, <1>7, <3>1, WrittenAll
  <2>2. doubt'[k] = doubt[k] /\ mem'[k] = mem[k] /\ older'[k] = older[k]
    BY <1>2, <1>4, <2>1
  <2>3. KeyInv(k)'
    BY <1>1, <1>2, <1>4, <1>7, <2>2, KeySilent
  <2> QED BY <1>2, <1>3, <1>4, <2>3
<1>8. CASE D # Absent
  <2>1. D \in doubt'[k]
    <3>1. D \in Written(first, k)
      <4> HIDE DEF first, D
      <4>1. 0..n = 0..n /\ Len(first) \in 0..Len(first) /\ DOMAIN first = 1..Len(first)
        BY <1>5
      <4>2. D \in Written(first, k) \cup {Absent}
        BY <1>5, <1>6, <4>1, WrittenNewest
      <4> QED BY <1>8, <4>2
    <3> QED BY <1>4, <3>1
  <2>2. KeyInv(k)'
    BY <1>1, <1>2, <1>4, <1>8, <2>1, KeyDirect
  <2> QED BY <1>2, <1>3, <1>4, <2>2
<1> QED BY <1>7, <1>8

(* A segment that is only opened holds nothing.                            *)
LEMMA SegmentAdded ==
    ASSUME TypeInv, LogLayout, segments' = segments,
           live \subseteq live', live' \subseteq SegmentID, NEW k \in Key
    PROVE  /\ \A c : Replayed(c, k)' = Replayed(c, k)
           /\ covered' = covered => Leftover(k)' = Leftover(k)
           /\ Newest(segments, live', k) = Newest(segments, live, k)
<1>1. ASSUME NEW S, NEW T \in SUBSET S, S \subseteq live', S \ T \subseteq live' \ live
      PROVE  Newest(segments, S, k) = Newest(segments, T, k)
  <2>1. S \in Indices
    BY <1>1, SegmentIndices
  <2>2. \A s \in S \ T : segments[s][k] = Absent
    BY <1>1 DEF LogLayout, EmptyLayer
  <2> QED BY <2>1, <2>2, NewestWiden
<1>2. ASSUME NEW c PROVE Replayed(c, k)' = Replayed(c, k)
  <2> DEFINE S == {s \in live' : s > c}
             T == {s \in live : s > c}
  <2>1. T \in SUBSET S /\ S \subseteq live' /\ S \ T \subseteq live' \ live
    OBVIOUS
  <2>2. Newest(segments, S, k) = Newest(segments, T, k)
    <3> HIDE DEF S, T
    <3> QED BY <1>1, <2>1
  <2> QED BY <2>2 DEF Replayed
<1>3. covered' = covered => Leftover(k)' = Leftover(k)
  <2> DEFINE S == {s \in live' : s <= covered}
             T == {s \in live : s <= covered}
  <2>1. T \in SUBSET S /\ S \subseteq live' /\ S \ T \subseteq live' \ live
    OBVIOUS
  <2>2. Newest(segments, S, k) = Newest(segments, T, k)
    <3> HIDE DEF S, T
    <3> QED BY <1>1, <2>1
  <2> QED BY <2>2 DEF Leftover
<1>4. Newest(segments, live', k) = Newest(segments, live, k)
  <2>1. live \in SUBSET live' /\ live' \subseteq live' /\ live' \ live \subseteq live' \ live
    OBVIOUS
  <2> QED BY <1>1, <2>1
<1> QED BY <1>2, <1>3, <1>4

(* The active table becomes the newest immutable, above everything that is *)
(* in the log.                                                             *)
LEMMA KeyFreeze ==
    ASSUME RecoveryInv, NEW k \in Key, Freeze, mem # EmptyLayer, Running
    PROVE  KeyInv(k)' /\ Lookup(k)' = Lookup(k)
<1>0. PICK n \in Nat : n = Len(immutables)
  <2>1. Len(immutables) \in Nat
    BY DEF RecoveryInv, ControlInv, TypeInv, TypeOK
  <2> QED BY <2>1
<1>1. /\ TypeInv /\ LogLayout /\ CutoffsOrdered /\ KeyInv(k)
  BY DEF RecoveryInv, ControlInv
<1>2. /\ buffer = <<>> /\ buffer' = buffer
      /\ UNCHANGED <<segments, files, sstables, covered, doubt, older>>
      /\ live' = live \cup {active'} /\ active' \in SegmentID
      /\ mem' = EmptyLayer /\ mem'[k] = Absent
      /\ immutables' = Append(immutables, [data |-> mem, cutoff |-> Sealed])
  BY DEF Freeze, Drained, tabVars, history, EmptyLayer
<1>3. /\ immutables \in Seq(Immutables) /\ n \in Nat
      /\ DOMAIN immutables = 1..n /\ DOMAIN immutables' = 1..(n + 1)
      /\ Len(immutables') = n + 1
      /\ \A i \in 1..n : immutables'[i] = immutables[i]
      /\ immutables'[n + 1] = [data |-> mem, cutoff |-> Sealed]
  <2>1. immutables \in Seq(Immutables)
    BY <1>1 DEF TypeInv, TypeOK
  <2> DEFINE new == [data |-> mem, cutoff |-> Sealed]
  <2>2. immutables' = Append(immutables, new)
    BY <1>2
  <2> HIDE DEF new
  <2>3. /\ DOMAIN immutables' = 1..(n + 1) /\ Len(immutables') = n + 1
        /\ immutables'[n + 1] = new
        /\ \A i \in 1..n : immutables'[i] = immutables[i]
    BY <1>0, <2>1, <2>2
  <2> QED BY <1>0, <2>1, <2>3 DEF new
<1>4. /\ Positions = 0..n /\ Positions' = 0..(n + 1)
      /\ \A j \in 0..n : Cutoff(j)' = Cutoff(j)
      /\ Cutoff(n + 1)' = Sealed
  <2>1. Positions = 0..n /\ Positions' = 0..(n + 1)
    BY <1>0, <1>3 DEF Positions
  <2>2. \A j \in 0..n : j = 0 \/ j \in 1..n
    BY <1>3
  <2>3. \A j \in 0..n : Cutoff(j)' = Cutoff(j)
    BY <1>2, <1>3, <2>2 DEF Cutoff
  <2>4. n + 1 # 0
    BY <1>3
  <2> QED BY <1>3, <2>1, <2>3, <2>4 DEF Cutoff
<1>5. /\ DOMAIN Frozen = 1..n /\ DOMAIN Frozen' = 1..(n + 1)
      /\ \A i \in 1..n : Frozen'[i] = Frozen[i]
      /\ Frozen'[n + 1] = mem
  <2>1. n + 1 \in 1..(n + 1) /\ \A i \in 1..n : i \in 1..(n + 1)
    BY <1>3
  <2> QED BY <1>3, <2>1 DEF Frozen
<1>6. /\ \A j \in 0..n : FrozenAbove(j, k)' = InMemory(j, k)
      /\ \A j \in 0..n : FrozenUpTo(j, k)' = FrozenUpTo(j, k)
      /\ FrozenAbove(n + 1, k)' = Absent
      /\ FrozenUpTo(n + 1, k)' = InMemory(0, k)
  <2>1. ASSUME NEW j \in 0..n PROVE FrozenAbove(j, k)' = InMemory(j, k)
    <3> DEFINE S == {i \in 1..(n + 1) : i > j}
               T == {i \in 1..n : i > j}
    <3>1. j \in Nat /\ j <= n
      BY <1>3
    <3>2. n + 1 \in S /\ (\A i \in S : i <= n + 1) /\ T = S \ {n + 1}
      BY <1>3, <3>1
    <3>3. S \in Indices /\ T \in Indices
      <4>1. 1..(n + 1) \in Indices
        BY <1>3, IntervalIndices
      <4>2. S \in Indices
        BY <4>1, SubsetIndices
      <4> QED BY <3>2, <4>2, SubsetIndices
    <3>4. FrozenAbove(j, k)' = Newest(Frozen', S, k)
          /\ FrozenAbove(j, k) = Newest(Frozen, T, k)
      BY <1>3 DEF FrozenAbove
    <3>5. \A i \in T : Frozen'[i][k] = Frozen[i][k]
      BY <1>5
    <3>6. InMemory(j, k) = Over(mem[k], FrozenAbove(j, k))
      BY DEF InMemory, FrozenAbove
    <3> HIDE DEF S, T
    <3>7. Newest(Frozen', S, k) = Over(Frozen'[n + 1][k], Newest(Frozen', T, k))
      <4>1. Newest(Frozen', S, k)
              = Over(Frozen'[n + 1][k], Newest(Frozen', S \ {n + 1}, k))
        BY <3>2, <3>3, NewestTop
      <4> QED BY <3>2, <4>1
    <3>8. Newest(Frozen', T, k) = Newest(Frozen, T, k)
      BY <3>3, <3>5, NewestSame
    <3>9. Frozen'[n + 1][k] = mem[k]
      BY <1>5
    <3> QED BY <3>4, <3>6, <3>7, <3>8, <3>9, Zenon
  <2>2. ASSUME NEW j \in 0..n PROVE FrozenUpTo(j, k)' = FrozenUpTo(j, k)
    <3> DEFINE T == {i \in 1..n : i <= j}
    <3>1. {i \in 1..(n + 1) : i <= j} = T
      BY <1>3
    <3>2. T \in Indices /\ \A i \in T : Frozen'[i][k] = Frozen[i][k]
      <4>1. 1..n \in Indices
        BY <1>3, IntervalIndices
      <4> QED BY <1>5, <4>1, SubsetIndices
    <3>3. FrozenUpTo(j, k)' = Newest(Frozen', T, k) /\ FrozenUpTo(j, k) = Newest(Frozen, T, k)
      BY <1>3, <3>1 DEF FrozenUpTo
    <3> HIDE DEF T
    <3> QED BY <3>2, <3>3, NewestSame
  <2>3. FrozenAbove(n + 1, k)' = Absent
    <3>1. {i \in 1..(n + 1) : i > n + 1} = {}
      BY <1>3
    <3> QED BY <1>3, <3>1, NewestNone DEF FrozenAbove
  <2>4. FrozenUpTo(n + 1, k)' = FrozenAbove(0, k)'
    <3>1. {i \in 1..(n + 1) : i <= n + 1} = {i \in 1..(n + 1) : i > 0}
      BY <1>3
    <3> QED BY <1>3, <3>1 DEF FrozenUpTo, FrozenAbove
  <2>5. 0 \in 0..n
    BY <1>3
  <2> QED BY <2>1, <2>2, <2>3, <2>4, <2>5
<1>7. /\ \A j \in 0..n : InMemory(j, k)' = InMemory(j, k)
      /\ InMemory(n + 1, k)' = Absent
  <2>1. \A j : InMemory(j, k)' = Over(mem'[k], FrozenAbove(j, k)')
    BY DEF InMemory, FrozenAbove
  <2> QED BY <1>2, <1>6, <2>1, OverAssociative
<1>8. OnTables(sstables, k)' = OnTables(sstables, k) /\ Lookup(k)' = Lookup(k)
  <2>1. OnTables(sstables, k)' = OnTables(sstables, k)
    BY <1>2 DEF OnTables, Tables
  <2>2. 0 \in 0..n
    BY <1>3
  <2> QED BY <1>7, <2>1, <2>2 DEF Lookup
<1>9. Allowed(k)' = Allowed(k)
  BY <1>2, <1>8 DEF Allowed
<1>10. (\A c : Replayed(c, k)' = Replayed(c, k)) /\ Leftover(k)' = Leftover(k)
  <2>1. live \subseteq live' /\ live' \subseteq SegmentID
    BY <1>1, <1>2 DEF TypeInv, TypeOK
  <2> QED BY <1>1, <1>2, <2>1, SegmentAdded
<1>11. \A c : Logged(c, k)' = Logged(c, k) /\ Logged(c, k) = Replayed(c, k)
  <2>1. Newest(buffer, DOMAIN buffer, k) = Absent
    <3>1. DOMAIN buffer = {}
      BY <1>2
    <3> QED BY <3>1, NewestNone
  <2> QED BY <1>2, <1>10, <2>1, OverAssociative DEF Logged
<1>12. Replayed(Sealed, k) = Absent
  <2> DEFINE S == {s \in live : s > Sealed}
  <2>1. \A s \in S : segments[s][k] = Absent
    <3> SUFFICES ASSUME NEW s \in S PROVE segments[s][k] = Absent
      OBVIOUS
    <3>1. s \in Nat /\ active \in Nat /\ s <= active /\ s > Sealed
      BY <1>1 DEF LogLayout, TypeInv, TypeOK, SegmentID
    <3>2. segments[active] = EmptyLayer /\ s = active
      BY <3>1 DEF Sealed
    <3> QED BY <3>2 DEF EmptyLayer
  <2>2. S \in Indices
    BY <1>1, LiveIndices
  <2>3. Newest(segments, S, k) = Absent
    <3> HIDE DEF S
    <3> QED BY <2>1, <2>2, NewestAbsent
  <2> QED BY <2>3 DEF Replayed
<1>13. \A j \in 0..(n + 1) : j \in 0..n \/ j = n + 1
  BY <1>3
<1>14. MemoryLogged(k)'
  <2> SUFFICES ASSUME NEW j \in 0..(n + 1)
               PROVE  Logged(Cutoff(j), k)' \in {InMemory(j, k)'} \cup doubt[k]
    BY <1>2, <1>4 DEF MemoryLogged
  <2>1. CASE j \in 0..n
    BY <1>1, <1>4, <1>7, <1>11, <2>1 DEF KeyInv, MemoryLogged
  <2>2. CASE j = n + 1
    BY <1>4, <1>7, <1>11, <1>12, <2>2
  <2> QED BY <1>13, <2>1, <2>2
<1>15. FrozenOnFile(k)'
  <2> SUFFICES ASSUME NEW j \in 0..(n + 1), FrozenAbove(j, k)' # Absent
               PROVE  Replayed(Cutoff(j), k)' # Absent
    BY <1>4 DEF FrozenOnFile
  <2>1. j \in 0..n
    BY <1>6, <1>13
  <2>2. InMemory(j, k) # Absent
    BY <1>6, <2>1
  <2>3. Logged(Cutoff(j), k) # Absent
    BY <1>1, <1>4, <2>1, <2>2, SilentLog DEF KeyInv
  <2> QED BY <1>4, <1>10, <1>11, <2>1, <2>3
<1>16. TablesAllowed(k)'
  <2> SUFFICES ASSUME NEW j \in 0..(n + 1), Replayed(Cutoff(j), k)' = Absent
               PROVE  Answer(Over(FrozenUpTo(j, k)', OnTables(sstables, k))) \in Allowed(k)
    BY <1>4, <1>8, <1>9 DEF TablesAllowed
  <2>1. CASE j \in 0..n
    BY <1>1, <1>4, <1>6, <1>10, <2>1 DEF KeyInv, TablesAllowed
  <2>2. CASE j = n + 1
    BY <1>6, <2>2 DEF Lookup, Allowed
  <2> QED BY <1>13, <2>1, <2>2
<1>17. CrashAllowed(k)'
  <2>1. \A m : Restarted(m, k)' = Restarted(m, k)
    BY <1>2, <1>8, <1>10 DEF Restarted
  <2> QED BY <1>1, <1>2, <1>9, <2>1 DEF KeyInv, CrashAllowed
<1>18. LeftoverRepeats(k)'
  BY <1>1, <1>2, <1>8, <1>10, <1>11 DEF KeyInv, LeftoverRepeats
<1> QED BY <1>8, <1>14, <1>15, <1>16, <1>17, <1>18 DEF KeyInv

(* A published table is read above the older ones.                         *)
LEMMA TableAdded ==
    ASSUME TypeInv, UNCHANGED files, NEW t \in TableID,
           sstables' = Append(sstables, t), NEW k \in Key
    PROVE  OnTables(sstables, k)' = Over(files[t][k], OnTables(sstables, k))
<1>0. PICK n \in Nat : n = Len(sstables)
  <2>1. Len(sstables) \in Nat
    BY DEF TypeInv, TypeOK
  <2> QED BY <2>1
<1>1. /\ sstables \in Seq(TableID)
      /\ DOMAIN sstables = 1..n /\ DOMAIN sstables' = 1..(n + 1)
      /\ \A i \in 1..n : sstables'[i] = sstables[i]
      /\ sstables'[n + 1] = t
  <2>1. sstables \in Seq(TableID)
    BY DEF TypeInv, TypeOK
  <2> QED BY <1>0, <2>1
<1> DEFINE L == Tables(sstables)
           M == Tables(sstables)'
           S == 1..(n + 1)
           T == 1..n
<1>2. /\ \A i \in T : M[i][k] = L[i][k]
      /\ M[n + 1] = files[t]
  <2>1. n + 1 \in S /\ \A i \in T : i \in S
    OBVIOUS
  <2> QED BY <1>1, <2>1 DEF Tables
<1>3. /\ S \in Indices /\ T \in Indices
      /\ n + 1 \in S /\ (\A i \in S : i <= n + 1) /\ T = S \ {n + 1}
  <2>1. S \in Indices /\ T \in Indices
    BY IntervalIndices
  <2> QED BY <2>1
<1>4. OnTables(sstables, k)' = Newest(M, S, k) /\ OnTables(sstables, k) = Newest(L, T, k)
  BY <1>1 DEF OnTables
<1> HIDE DEF L, M, S, T
<1>5. Newest(M, S, k) = Over(M[n + 1][k], Newest(M, T, k))
  BY <1>3, NewestTop
<1>6. Newest(M, T, k) = Newest(L, T, k)
  BY <1>2, <1>3, NewestSame
<1> QED BY <1>2, <1>4, <1>5, <1>6

(* The oldest immutable leaves the stack.                                  *)
LEMMA FrozenShifts ==
    ASSUME TypeInv, immutables # <<>>, immutables' = Tail(immutables), NEW k
    PROVE  /\ \A j \in Positions' :
                 /\ j + 1 \in Positions
                 /\ FrozenAbove(j, k)' = FrozenAbove(j + 1, k)
                 /\ FrozenUpTo(j + 1, k)
                      = Over(FrozenUpTo(j, k)', Head(immutables).data[k])
           /\ covered' = Head(immutables).cutoff =>
                 \A j \in Positions' : Cutoff(j)' = Cutoff(j + 1)
<1>0. PICK n \in Nat : Len(immutables) = n + 1
  <2>1. Len(immutables) \in Nat /\ Len(immutables) # 0
    BY DEF TypeInv, TypeOK
  <2>2. Len(immutables) - 1 \in Nat /\ Len(immutables) = (Len(immutables) - 1) + 1
    BY <2>1
  <2> QED BY <2>2
<1>1. /\ DOMAIN immutables = 1..(n + 1) /\ DOMAIN immutables' = 1..n
      /\ \A i \in 1..n : immutables'[i] = immutables[i + 1]
      /\ Head(immutables) = immutables[1]
      /\ Positions = 0..(n + 1) /\ Positions' = 0..n
  BY <1>0 DEF TypeInv, TypeOK, Positions
<1>2. /\ \A i \in 1..n : Frozen'[i] = Frozen[i + 1]
      /\ Frozen[1] = Head(immutables).data
  <2>1. 1 \in 1..(n + 1) /\ \A i \in 1..n : i + 1 \in 1..(n + 1)
    OBVIOUS
  <2> QED BY <1>1, <2>1 DEF Frozen
<1>3. 1..n \in Indices /\ 1..(n + 1) \in Indices
  BY IntervalIndices
<1>4. ASSUME NEW j \in 0..n PROVE FrozenAbove(j, k)' = FrozenAbove(j + 1, k)
  <2> DEFINE S == {i \in 1..n : i > j}
             T == {i \in 1..(n + 1) : i > j + 1}
  <2>1. S \in Indices /\ T \in Indices
    BY <1>3, SubsetIndices
  <2>2. \A i \in S : i + 1 \in T /\ Frozen[i + 1][k] = Frozen'[i][k]
    BY <1>2
  <2>3. \A i \in T : i - 1 \in S
    <3> SUFFICES ASSUME NEW i \in 1..(n + 1), i > j + 1 PROVE i - 1 \in 1..n /\ i - 1 > j
      OBVIOUS
    <3> QED OBVIOUS
  <2>4. FrozenAbove(j, k)' = Newest(Frozen', S, k)
        /\ FrozenAbove(j + 1, k) = Newest(Frozen, T, k)
    BY <1>1 DEF FrozenAbove
  <2> HIDE DEF S, T
  <2>5. Newest(Frozen', S, k) = Newest(Frozen, T, k)
    BY <2>1, <2>2, <2>3, NewestShift
  <2> QED BY <2>4, <2>5
<1>5. ASSUME NEW j \in 0..n
      PROVE  FrozenUpTo(j + 1, k) = Over(FrozenUpTo(j, k)', Head(immutables).data[k])
  <2> DEFINE S == {i \in 1..n : i <= j}
             T == {i \in 1..(n + 1) : 1 < i /\ i <= j + 1}
             U == {i \in 1..(n + 1) : i <= j + 1}
  <2>1. S \in Indices /\ T \in Indices /\ U \in Indices
    BY <1>3, SubsetIndices
  <2>2. \A i \in S : i + 1 \in T /\ Frozen[i + 1][k] = Frozen'[i][k]
    BY <1>2
  <2>3. \A i \in T : i - 1 \in S
    <3> SUFFICES ASSUME NEW i \in 1..(n + 1), 1 < i, i <= j + 1
                 PROVE  i - 1 \in 1..n /\ i - 1 <= j
      OBVIOUS
    <3> QED OBVIOUS
  <2>4. FrozenUpTo(j, k)' = Newest(Frozen', S, k)
        /\ FrozenUpTo(j + 1, k) = Newest(Frozen, U, k)
    BY <1>1 DEF FrozenUpTo
  <2>5. U = {1} \cup T /\ \A a \in {1}, b \in T : a < b
    <3>1. 1 \in U /\ T \subseteq U
      OBVIOUS
    <3>2. ASSUME NEW i \in U PROVE i \in {1} \cup T
      <4>1. i = 1 \/ 1 < i
        OBVIOUS
      <4> QED BY <4>1
    <3>3. \A b \in T : 1 < b
      OBVIOUS
    <3> QED BY <3>1, <3>2, <3>3
  <2> HIDE DEF S, T, U
  <2>6. Newest(Frozen', S, k) = Newest(Frozen, T, k)
    BY <2>1, <2>2, <2>3, NewestShift
  <2>7. Newest(Frozen, U, k) = Over(Newest(Frozen, T, k), Newest(Frozen, {1}, k))
    <3> DEFINE A == {1}
    <3>1. U = A \cup T /\ \A a \in A, b \in T : a < b
      BY <2>5
    <3> HIDE DEF A
    <3>2. Newest(Frozen, U, k) = Over(Newest(Frozen, T, k), Newest(Frozen, A, k))
      BY <2>1, <3>1, NewestSplit
    <3> QED BY <3>2 DEF A
  <2>8. Newest(Frozen, {1}, k) = Frozen[1][k]
    BY NewestOne
  <2> QED BY <1>2, <2>4, <2>6, <2>7, <2>8
<1>6. ASSUME covered' = Head(immutables).cutoff, NEW j \in 0..n
      PROVE  Cutoff(j)' = Cutoff(j + 1)
  <2>1. j + 1 # 0 /\ (j = 0 \/ j \in 1..n)
    OBVIOUS
  <2> QED BY <1>1, <1>6, <2>1 DEF Cutoff
<1>7. \A j \in 0..n : j + 1 \in Positions
  BY <1>1
<1> QED BY <1>1, <1>4, <1>5, <1>6, <1>7

(* A flush publishes what the oldest immutable holds.                      *)
LEMMA KeyFlushPublish ==
    ASSUME RecoveryInv, NEW k \in Key, FlushPublish, Running
    PROVE  KeyInv(k)' /\ Lookup(k)' = Lookup(k)
<1> DEFINE H == Head(immutables).data[k]
           T == OnTables(sstables, k)
<1>1. /\ TypeInv /\ LogLayout /\ CutoffsOrdered /\ Operations /\ KeyInv(k)
  BY DEF RecoveryInv, ControlInv
<1>2. /\ at = "written" /\ immutables # <<>> /\ nextSSTableID \in TableID
      /\ files[nextSSTableID] = Head(immutables).data
  BY <1>1 DEF FlushPublish, TypeInv, TypeOK, FlushInProgress, Operations
<1>3. /\ UNCHANGED <<segments, live, files, buffer, mem, doubt, older>>
      /\ immutables' = Tail(immutables)
      /\ covered' = Head(immutables).cutoff
      /\ sstables' = Append(sstables, nextSSTableID)
  BY DEF FlushPublish, walVars
<1>4. \A j \in Positions' :
          /\ j + 1 \in Positions
          /\ FrozenAbove(j, k)' = FrozenAbove(j + 1, k)
          /\ FrozenUpTo(j + 1, k) = Over(FrozenUpTo(j, k)', H)
          /\ Cutoff(j)' = Cutoff(j + 1)
  BY <1>1, <1>2, <1>3, FrozenShifts
<1>5. OnTables(sstables, k)' = Over(H, T)
  BY <1>1, <1>2, <1>3, TableAdded
<1>6. \A j \in Positions' : InMemory(j, k)' = InMemory(j + 1, k)
  BY <1>3, <1>4 DEF InMemory, FrozenAbove
<1>7. 0 \in Positions' /\ 0 \in Positions /\ 1 \in Positions /\ Cutoff(0) = covered
      /\ Cutoff(0)' = covered' /\ Cutoff(1) = covered'
  <2>1. Len(immutables) \in Nat /\ Len(immutables) # 0 /\ Len(immutables') \in Nat
    BY <1>1, <1>2, <1>3 DEF TypeInv, TypeOK
  <2>2. 0 \in Positions' /\ 0 \in Positions /\ 1 \in Positions
    BY <2>1 DEF Positions
  <2> QED BY <1>4, <2>2 DEF Cutoff
<1>8. \A j \in Positions' : Over(FrozenUpTo(j, k)', OnTables(sstables, k)')
                              = Over(FrozenUpTo(j + 1, k), T)
  BY <1>4, <1>5, OverAssociative
<1>9. Lookup(k)' = Lookup(k)
  <2>1. Lookup(k) = Over(InMemory(1, k), Over(FrozenUpTo(1, k), T))
    BY <1>1, <1>7, LookupSplit
  <2>2. FrozenUpTo(1, k) = Over(FrozenUpTo(0, k)', H) /\ InMemory(0, k)' = InMemory(1, k)
    BY <1>4, <1>6, <1>7
  <2>3. FrozenUpTo(0, k)' = Absent
    <3>1. {i \in DOMAIN immutables' : i <= 0} = {}
      BY <1>1, <1>3 DEF TypeInv, TypeOK
    <3> QED BY <3>1, NewestNone DEF FrozenUpTo
  <2> QED BY <1>5, <2>1, <2>2, <2>3, OverAssociative DEF Lookup
<1>10. Allowed(k)' = Allowed(k)
  BY <1>3, <1>9 DEF Allowed
<1>11. \A c : Replayed(c, k)' = Replayed(c, k) /\ Logged(c, k)' = Logged(c, k)
  BY <1>3 DEF Replayed, Logged
<1>12. MemoryLogged(k)'
  BY <1>1, <1>3, <1>4, <1>6, <1>11 DEF KeyInv, MemoryLogged
<1>13. FrozenOnFile(k)'
  BY <1>1, <1>4, <1>11 DEF KeyInv, FrozenOnFile
<1>14. TablesAllowed(k)'
  BY <1>1, <1>4, <1>8, <1>10, <1>11 DEF KeyInv, TablesAllowed
<1>15. CrashAllowed(k)'
  <2>1. Over(Replayed(0, k), Over(H, T)) = Over(Replayed(0, k), T)
    <3>1. CASE Replayed(0, k) # Absent
      BY <3>1 DEF Over
    <3>2. CASE Replayed(0, k) = Absent
      <4>1. Replayed(covered, k) = Absent
        BY <1>1, <3>2, LeftoverSplit DEF Over
      <4>2. FrozenAbove(0, k) = Absent
        BY <1>1, <1>7, <4>1 DEF KeyInv, FrozenOnFile
      <4>3. 1 \in DOMAIN immutables /\ Head(immutables) = immutables[1]
        BY <1>1, <1>2 DEF TypeInv, TypeOK
      <4>4. H = Absent
        BY <1>1, <1>7, <4>2, <4>3, NothingFrozen
      <4> QED BY <4>4, OverAssociative
    <3> QED BY <3>1, <3>2
  <2>2. \A n : Restarted(n, k)' = Restarted(n, k)
    BY <1>3, <1>5, <1>11, <2>1 DEF Restarted
  <2> QED BY <1>1, <1>3, <1>10, <2>2 DEF KeyInv, CrashAllowed
<1>16. LeftoverRepeats(k)'
  <2> SUFFICES ASSUME Logged(covered', k) = Absent, Leftover(k)' # Absent
               PROVE  Answer(Leftover(k)')
                        \in {Answer(e) : e \in {OnTables(sstables, k)'} \cup doubt[k]}
    BY <1>3, <1>11 DEF LeftoverRepeats
  <2>1. Replayed(0, k) = Over(Replayed(covered', k), Leftover(k)')
    <3>1. covered' \in Nat
      BY <1>1, <1>7, CutoffType
    <3>2. Leftover(k)' = Newest(segments, {s \in live : s <= covered'}, k)
      BY <1>3 DEF Leftover
    <3> HIDE DEF FlushPublish
    <3>3. PICK c \in Nat : c = covered'
      BY <3>1
    <3> QED BY <1>1, <3>2, <3>3, ReplayedSplit
  <2>2. Logged(0, k) = Leftover(k)'
    BY <2>1, OverAssociative DEF Logged, Over
  <2>3. InMemory(1, k) = Absent
    BY <1>1, <1>7, SilentLog DEF KeyInv
  <2>4. Lookup(k) = OnTables(sstables, k)'
    BY <1>6, <1>7, <1>9, <2>3, OverAssociative DEF Lookup
  <2>5. Answer(Over(Logged(0, k), T)) \in {Answer(e) : e \in {Lookup(k)} \cup doubt[k]}
    BY LogCompletesKey
  <2>6. Over(Logged(0, k), T) = Leftover(k)'
    BY <2>2 DEF Over
  <2> QED BY <2>4, <2>5, <2>6
<1> QED BY <1>9, <1>12, <1>13, <1>14, <1>15, <1>16 DEF KeyInv

(* A prune removes the oldest segment there is.                            *)
LEMMA PruneRemovesOldest ==
    ASSUME PrunesAndReplays, RecoveryInv, PruneSegment
    PROVE  /\ Running /\ Running'
           /\ UNCHANGED <<files, onDisk, manifest, phase, active, buffer, mem, immutables,
                          sstables, covered, doubt, older>>
           /\ todo' = {x \in live' : x <= covered}
           /\ \E s \in live : /\ s <= covered
                              /\ \A x \in live : s <= x
                              /\ live' = live \ {s}
                              /\ segments' = [segments EXCEPT ![s] = EmptyLayer]
<1>1. /\ TypeInv /\ Lifetime /\ CutoffsOrdered /\ Operations
  BY DEF RecoveryInv, ControlInv
<1>2. /\ UNCHANGED <<files, onDisk, manifest, phase, active, buffer, mem, immutables,
                     sstables, covered, doubt, older>>
      /\ Running /\ Running'
  BY <1>1 DEF PruneSegment, Lifetime, Running, walVars, memVars, tabVars, history
<1>3. todo = {x \in live : x <= covered} /\ todo # {}
  BY <1>1 DEF PruneSegment, Operations
<1>4. live \subseteq Nat /\ covered \in Nat
  BY <1>1 DEF TypeInv, TypeOK, SegmentID
<1>5. PICK s \in todo : /\ \A x \in todo : s <= x
                        /\ live' = live \ {s}
                        /\ segments' = [segments EXCEPT ![s] = EmptyLayer]
                        /\ todo' = todo \ {s}
  <2>1. todo \in Indices
    BY <1>1, <1>3, LiveIndices
  <2>2. Min(todo) \in todo /\ \A x \in todo : Min(todo) <= x
    BY <1>3, <2>1, MinIsLeast
  <2>3. /\ live' = live \ {Min(todo)}
        /\ segments' = [segments EXCEPT ![Min(todo)] = EmptyLayer]
        /\ todo' = todo \ {Min(todo)}
    BY DEF PruneSegment, PruneNext, PrunesAndReplays
  <2> QED BY <2>2, <2>3
<1>6. ASSUME NEW x \in live PROVE s <= x
  <2>1. CASE x <= covered
    BY <1>3, <1>5, <2>1
  <2>2. CASE ~(x <= covered)
    BY <1>3, <1>4, <1>5, <2>2
  <2> QED BY <2>1, <2>2
<1>7. s \in live /\ s <= covered /\ todo' = {x \in live' : x <= covered}
  BY <1>3, <1>5
<1> QED BY <1>2, <1>5, <1>6, <1>7

LEMMA LowestRemoved ==
    ASSUME TypeInv, NEW s \in live, \A x \in live : s <= x,
           segments' = [segments EXCEPT ![s] = EmptyLayer],
           NEW S \in SUBSET live, NEW k
    PROVE  /\ s \notin S => Newest(segments', S, k) = Newest(segments, S, k)
           /\ Newest(segments', S \ {s}, k) \in {Newest(segments, S, k), Absent}
<1>1. S \in Indices /\ s \in Nat /\ S \subseteq SegmentID /\ \A x \in S : s <= x
  <2>1. S \in Indices
    BY LiveIndices
  <2> QED BY <2>1 DEF TypeInv, TypeOK, SegmentID
<1>2. PICK L : L = segments
  OBVIOUS
<1>3. PICK M : M = segments'
  OBVIOUS
<1>4. \A x \in S \ {s} : M[x][k] = L[x][k]
  BY <1>1, <1>2, <1>3 DEF TypeInv, TypeOK
<1>5. /\ s \notin S => Newest(M, S, k) = Newest(L, S, k)
      /\ Newest(M, S \ {s}, k) \in {Newest(L, S, k), Absent}
  BY <1>1, <1>4, NewestWithoutLowest
<1> QED BY <1>2, <1>3, <1>5

LEMMA NothingUpToZero ==
    ASSUME TypeInv, NEW k
    PROVE  FrozenUpTo(0, k) = Absent
<1>1. {i \in DOMAIN immutables : i <= 0} = {}
  BY DEF TypeInv, TypeOK
<1> QED BY <1>1, NewestNone DEF FrozenUpTo

(* What a prune does to the log: above the cutoff nothing, and below it    *)
(* keys may only fall silent.                                              *)
LEMMA PruneSilences ==
    ASSUME PrunesAndReplays, RecoveryInv, PruneSegment, NEW k \in Key
    PROVE  /\ \A c \in Nat : covered <= c => Replayed(c, k)' = Replayed(c, k)
           /\ Replayed(0, k)' \in {Replayed(0, k), Absent}
           /\ Leftover(k)' \in {Leftover(k), Absent}
           /\ Replayed(0, k)' = Absent => Replayed(covered, k) = Absent
<1>1. PICK s \in live : /\ s <= covered
                        /\ \A x \in live : s <= x
                        /\ live' = live \ {s}
                        /\ segments' = [segments EXCEPT ![s] = EmptyLayer]
  BY PruneRemovesOldest
<1>2. TypeInv /\ TypeInv' /\ live \subseteq Nat /\ covered \in Nat /\ covered' = covered
  <2>1. TypeInv
    BY DEF RecoveryInv, ControlInv
  <2>2. TypeInv'
    BY <2>1, TypeInvStep DEF Next, Internal
  <2>3. covered' = covered
    BY PruneRemovesOldest
  <2> QED BY <2>1, <2>2, <2>3 DEF TypeInv, TypeOK, SegmentID
<1>3. ASSUME NEW c \in Nat, covered <= c PROVE Replayed(c, k)' = Replayed(c, k)
  <2> DEFINE S == {x \in live : x > c}
  <2>1. s \notin S /\ S = {x \in live' : x > c}
    BY <1>1, <1>2, <1>3
  <2>2. S \in SUBSET live
    OBVIOUS
  <2>3. Replayed(c, k)' = Newest(segments', S, k) /\ Replayed(c, k) = Newest(segments, S, k)
    BY <2>1 DEF Replayed
  <2> HIDE DEF S
  <2> QED BY <1>1, <1>2, <2>1, <2>2, <2>3, LowestRemoved
<1>4. Replayed(0, k)' \in {Replayed(0, k), Absent}
  <2> DEFINE S == {x \in live : x > 0}
  <2>1. S \ {s} = {x \in live' : x > 0} /\ S \in SUBSET live
    BY <1>1
  <2>2. Replayed(0, k)' = Newest(segments', S \ {s}, k)
        /\ Replayed(0, k) = Newest(segments, S, k)
    BY <2>1 DEF Replayed
  <2> HIDE DEF S
  <2> QED BY <1>1, <1>2, <2>1, <2>2, LowestRemoved
<1>5. Leftover(k)' \in {Leftover(k), Absent}
  <2> DEFINE S == {x \in live : x <= covered}
  <2>1. S \ {s} = {x \in live' : x <= covered} /\ S \in SUBSET live
    BY <1>1
  <2>2. Leftover(k)' = Newest(segments', S \ {s}, k)
        /\ Leftover(k) = Newest(segments, S, k)
    BY <1>2, <2>1 DEF Leftover
  <2> HIDE DEF S
  <2> QED BY <1>1, <1>2, <2>1, <2>2, LowestRemoved
<1>6. Replayed(0, k)' = Absent => Replayed(covered, k) = Absent
  <2> DEFINE S == {x \in live' : x > 0}
             T == {x \in live' : x > covered}
  <2>1. S \in Indices /\ T \subseteq S
    <3>1. live' \subseteq SegmentID /\ live' \subseteq Nat
      BY <1>2 DEF TypeInv, TypeOK, SegmentID
    <3>2. S \in Indices
      BY <3>1, SegmentIndices
    <3>3. \A x \in live' : x > covered => x > 0
      BY <1>2, <3>1
    <3> QED BY <3>2, <3>3
  <2>2. Replayed(0, k)' = Newest(segments', S, k)
        /\ Replayed(covered, k)' = Newest(segments', T, k)
    BY <1>2 DEF Replayed
  <2>3. Newest(segments', S, k) = Absent => Newest(segments', T, k) = Absent
    <3> HIDE DEF S, T
    <3> QED BY <2>1, NewestBelow
  <2>4. Replayed(covered, k)' = Replayed(covered, k)
    BY <1>2, <1>3
  <2> QED BY <2>2, <2>3, <2>4
<1> QED BY <1>3, <1>4, <1>5, <1>6

LEMMA KeyPrune ==
    ASSUME PrunesAndReplays, RecoveryInv, PruneSegment, NEW k \in Key
    PROVE  KeyInv(k)' /\ Lookup(k)' = Lookup(k)
<1> DEFINE T == OnTables(sstables, k)
<1>1. /\ UNCHANGED <<files, buffer, mem, immutables, sstables, covered, doubt, older>>
      /\ Running
  BY PruneRemovesOldest
<1>2. TypeInv /\ CutoffsOrdered /\ KeyInv(k)
  BY <1>1 DEF RecoveryInv, ControlInv
<1>3. /\ \A c \in Nat : covered <= c => Replayed(c, k)' = Replayed(c, k)
      /\ Replayed(0, k)' \in {Replayed(0, k), Absent}
      /\ Leftover(k)' \in {Leftover(k), Absent}
      /\ Replayed(0, k)' = Absent => Replayed(covered, k) = Absent
  BY PruneSilences
<1>4. Positions' = Positions /\ \A j \in Positions : Cutoff(j)' = Cutoff(j)
  BY <1>1 DEF Positions, Cutoff
<1>5. /\ OnTables(sstables, k)' = T
      /\ Lookup(k)' = Lookup(k)
      /\ \A j : /\ InMemory(j, k)' = InMemory(j, k)
                /\ FrozenAbove(j, k)' = FrozenAbove(j, k)
                /\ FrozenUpTo(j, k)' = FrozenUpTo(j, k)
  BY <1>1 DEF OnTables, Tables, Lookup, InMemory, FrozenAbove, FrozenUpTo, Frozen
<1>6. Allowed(k)' = Allowed(k)
  BY <1>1, <1>5 DEF Allowed
<1>7. \A j \in Positions : Cutoff(j) \in Nat /\ covered <= Cutoff(j)
  BY <1>2, CutoffType
<1>8. \A c \in Nat : covered <= c => Logged(c, k)' = Logged(c, k)
  BY <1>1, <1>3 DEF Logged
<1>9. MemoryLogged(k)'
  BY <1>1, <1>2, <1>4, <1>5, <1>7, <1>8 DEF KeyInv, MemoryLogged
<1>10. FrozenOnFile(k)'
  BY <1>2, <1>3, <1>4, <1>5, <1>7 DEF KeyInv, FrozenOnFile
<1>11. TablesAllowed(k)'
  BY <1>2, <1>3, <1>4, <1>5, <1>6, <1>7 DEF KeyInv, TablesAllowed
<1>12. CrashAllowed(k)'
  <2> SUFFICES ASSUME NEW n \in 0..Len(buffer)
               PROVE  Answer(Restarted(n, k)') \in Allowed(k)
    BY <1>1, <1>6 DEF CrashAllowed
  <2>1. Answer(Restarted(n, k)) \in Allowed(k)
    BY <1>2 DEF KeyInv, CrashAllowed
  <2>2. Restarted(n, k)' = Over(Newest(buffer, 1..n, k), Over(Replayed(0, k)', T))
    BY <1>1, <1>5 DEF Restarted
  <2>3. CASE Replayed(0, k)' = Replayed(0, k)
    BY <2>1, <2>2, <2>3 DEF Restarted
  <2>4. CASE Replayed(0, k)' = Absent
    <3>1. Answer(T) \in Allowed(k)
      BY <1>2, <1>3, <2>4, FirstPosition, NothingUpToZero, OverAssociative
         DEF KeyInv, TablesAllowed
    <3>2. Restarted(n, k)' \in {T, Restarted(n, k)}
      BY <2>2, <2>4 DEF Restarted, Over
    <3> QED BY <2>1, <3>1, <3>2
  <2> QED BY <1>3, <2>3, <2>4
<1>13. LeftoverRepeats(k)'
  <2>1. Logged(covered, k)' = Logged(covered, k)
    BY <1>1, <1>2, <1>8 DEF TypeInv, TypeOK
  <2> QED BY <1>1, <1>2, <1>3, <1>5, <2>1 DEF KeyInv, LeftoverRepeats
<1> QED BY <1>5, <1>9, <1>10, <1>11, <1>12, <1>13 DEF KeyInv

(* After a replay the active table repeats the whole log, and nothing is   *)
(* covered: ReLoad and Open.                                               *)
LEMMA KeyReplayed ==
    ASSUME TypeInv', NEW k \in Key,
           buffer' = <<>>, immutables' = <<>>, covered' = 0,
           mem'[k] = Newest(segments', live', k)
    PROVE  /\ KeyInv(k)'
           /\ Lookup(k)' = Over(Replayed(0, k)', OnTables(sstables, k)')
<1>1. Positions' = {0} /\ Cutoff(0)' = 0
  BY DEF Positions, Cutoff
<1>2. /\ Newest(buffer', DOMAIN buffer', k) = Absent
      /\ \A n \in 0..Len(buffer') : Newest(buffer', 1..n, k) = Absent
  <2>1. DOMAIN buffer' = {} /\ \A n \in 0..Len(buffer') : 1..n = {}
    OBVIOUS
  <2> QED BY <2>1, NewestNone
<1>3. /\ FrozenAbove(0, k)' = Absent /\ FrozenUpTo(0, k)' = Absent
      /\ InMemory(0, k)' = mem'[k]
  <2>1. {i \in DOMAIN immutables' : i > 0} = {} /\ {i \in DOMAIN immutables' : i <= 0} = {}
    OBVIOUS
  <2> QED BY <2>1, NewestNone, OverAssociative DEF FrozenAbove, FrozenUpTo, InMemory
<1>4. Replayed(0, k)' = mem'[k]
  <2>1. live' \subseteq SegmentID
    BY DEF TypeInv, TypeOK, SegmentID
  <2>2. \A s \in live' : s > 0
    BY <2>1 DEF SegmentID
  <2>3. {s \in live' : s > 0} = live'
    BY <2>2
  <2> QED BY <2>3 DEF Replayed
<1>5. Logged(0, k)' = mem'[k]
  BY <1>2, <1>4, OverAssociative DEF Logged
<1>6. Lookup(k)' = Over(mem'[k], OnTables(sstables, k)')
  BY <1>3 DEF Lookup
<1>7. MemoryLogged(k)' /\ FrozenOnFile(k)'
  BY <1>1, <1>3, <1>5 DEF MemoryLogged, FrozenOnFile
<1>8. TablesAllowed(k)'
  BY <1>1, <1>3, <1>4, <1>6, OverAssociative DEF TablesAllowed, Allowed
<1>9. CrashAllowed(k)'
  <2>1. \A n \in 0..Len(buffer') : Restarted(n, k)' = Lookup(k)'
    BY <1>2, <1>4, <1>6, OverAssociative DEF Restarted
  <2> QED BY <2>1 DEF CrashAllowed, Allowed
<1>10. LeftoverRepeats(k)'
  <2>1. live' \subseteq SegmentID
    BY DEF TypeInv, TypeOK, SegmentID
  <2>2. \A s \in live' : ~(s <= covered')
    BY <2>1 DEF SegmentID
  <2>3. {s \in live' : s <= covered'} = {}
    BY <2>2
  <2>4. Leftover(k)' = Absent
    BY <2>3, NewestNone DEF Leftover
  <2> QED BY <2>4 DEF LeftoverRepeats
<1> QED BY <1>4, <1>6, <1>7, <1>8, <1>9, <1>10 DEF KeyInv

-----------------------------------------------------------------------------
(* The steps a reader does not see, sorted by what they touch.             *)

(* Only the phase, the locks and the progress of an operation change.      *)
Bookkeeping ==
    \/ CheckpointBegin \/ FreezeFails
    \/ SetBackgroundError \/ ClearBackgroundError
    \/ FlushBegin \/ PruneFails \/ PruneDone \/ CompactDone
    \/ CloseBegin

(* A table file that is not published comes or goes.                       *)
FileSteps ==
    \/ FlushWriteTable \/ FlushFails \/ FlushPublishFails
    \/ CompactWrite \/ CompactFails \/ CompactAborts \/ RemoveTable

Silent ==
    \/ Bookkeeping \/ FileSteps
    \/ WALFlushFails \/ Freeze \/ FlushPublish \/ PruneSegment \/ CompactPublish

LEMMA StepKinds ==
    ASSUME [Next]_vars
    PROVE  \/ Writes \/ FailedWrites \/ WALFlush \/ Silent
           \/ ReLoad \/ ReLoadFails \/ CloseEnd \/ Crash \/ Open
           \/ UNCHANGED vars
BY DEF Next, Internal, Silent, Bookkeeping, FileSteps

(* No step of them outlives the process, or ends it.                       *)
LEMMA SilentRuns ==
    ASSUME RecoveryInv, Silent
    PROVE  Running /\ Running'
<1>1. Lifetime /\ TypeInv
  BY DEF RecoveryInv, ControlInv
<1>2. CASE Bookkeeping
  BY <1>1, <1>2 DEF Bookkeeping, CheckpointBegin, FreezeFails, SetBackgroundError,
     ClearBackgroundError, FlushBegin, PruneFails, PruneDone,
     CompactDone, CloseBegin, Running, Lifetime
<1>3. CASE FileSteps
  BY <1>1, <1>3 DEF FileSteps, FlushWriteTable, FlushFails, FlushPublishFails,
     CompactBegin, CompactWrite, CompactFails, CompactAborts, RemoveTable, Running, Lifetime
<1>4. CASE WALFlushFails \/ Freeze \/ FlushPublish \/ PruneSegment \/ CompactPublish
  BY <1>1, <1>4 DEF WALFlushFails, Freeze, FlushPublish, PruneSegment,
     CompactPublish, Running, Lifetime
<1> QED BY <1>2, <1>3, <1>4 DEF Silent

LEMMA BookkeepingKeeps ==
    ASSUME Bookkeeping
    PROVE  /\ UNCHANGED <<segments, live, files, onDisk, manifest>>
           /\ UNCHANGED <<active, buffer, mem, immutables, sstables, nextSSTableID>>
           /\ UNCHANGED <<covered, doubt, older>>
BY DEF Bookkeeping, CheckpointBegin, FreezeFails, SetBackgroundError,
   ClearBackgroundError, FlushBegin, PruneFails, PruneDone,
   CompactDone, CloseBegin, fileVars, walVars, memVars, tabVars, history

LEMMA TablesSame ==
    ASSUME TypeInv, sstables' = sstables, NEW k,
           \A i \in DOMAIN sstables : files'[sstables[i]] = files[sstables[i]]
    PROVE  OnTables(sstables, k)' = OnTables(sstables, k)
<1>1. DOMAIN sstables \in Indices
  BY ListIndices DEF TypeInv, TypeOK
<1>2. \A i \in DOMAIN sstables : Tables(sstables)'[i][k] = Tables(sstables)[i][k]
  BY DEF Tables
<1>3. PICK D : D = DOMAIN sstables
  OBVIOUS
<1>4. PICK L : L = Tables(sstables)
  OBVIOUS
<1>5. PICK M : M = Tables(sstables)'
  OBVIOUS
<1>6. Newest(L, D, k) = Newest(M, D, k)
  BY <1>1, <1>2, <1>3, <1>4, <1>5, NewestSame
<1> QED BY <1>3, <1>4, <1>5, <1>6 DEF OnTables

(* A file is written under an ID, or removed, that no list holds.          *)
LEMMA FileStepsKeep ==
    ASSUME RecoveryInv, FileSteps
    PROVE  /\ UNCHANGED <<segments, live, manifest, phase, active, buffer, mem>>
           /\ UNCHANGED <<immutables, sstables, nextSSTableID, lock>>
           /\ UNCHANGED <<covered, doubt, older>>
           /\ \A i \in DOMAIN sstables : files'[sstables[i]] = files[sstables[i]]
<1>1. /\ Running /\ files \in [TableID -> Layer]
      /\ \A i \in DOMAIN sstables : /\ sstables[i] \in TableID
                                   /\ sstables[i] # nextSSTableID
      /\ at = "cleanup" => \A i \in DOMAIN sstables : sstables[i] \notin todo
  <2>1. Running
    BY SilentRuns DEF Silent
  <2>2. TypeOK /\ ListedBelowNext /\ ReplacedNotListed
    BY DEF RecoveryInv, ControlInv, TablesInv, TypeInv
  <2>3. sstables \in Seq(TableID) /\ nextSSTableID \in Int
    BY <2>2 DEF TypeOK
  <2>4. \A i \in DOMAIN sstables : /\ sstables[i] \in TableID
                                 /\ sstables[i] # nextSSTableID
    <3>1. \A i \in DOMAIN sstables : sstables[i] \in TableID
      BY <2>3
    <3>2. \A i \in DOMAIN sstables : sstables[i] < nextSSTableID
      BY <2>1, <2>2 DEF ListedBelowNext
    <3> QED BY <2>3, <3>1, <3>2 DEF TableID
  <2> QED BY <2>1, <2>2, <2>4 DEF ReplacedNotListed, TypeOK
<1>2. CASE FlushWriteTable
  <2>1. \A i \in DOMAIN sstables : files'[sstables[i]] = files[sstables[i]]
    BY <1>1, <1>2 DEF FlushWriteTable
  <2> QED BY <1>2, <2>1 DEF FlushWriteTable, walVars, memVars, tabVars, history
<1>3. CASE FlushFails \/ FlushPublishFails \/ CompactFails \/ CompactAborts
  <2>1. \/ UNCHANGED files
        \/ \E layer : files' = [files EXCEPT ![nextSSTableID] = layer]
    BY <1>3 DEF FlushFails, FlushPublishFails, CompactFails, CompactAborts, TableLeft, Discard
  <2>2. \A i \in DOMAIN sstables : files'[sstables[i]] = files[sstables[i]]
    BY <1>1, <2>1
  <2> QED BY <1>3, <2>2 DEF FlushFails, FlushPublishFails, CompactFails, CompactBegin,
             CompactAborts, walVars, memVars, tabVars, ctlVars
<1>4. CASE CompactWrite
  <2>1. \A i \in DOMAIN sstables : files'[sstables[i]] = files[sstables[i]]
    BY <1>1, <1>4 DEF CompactWrite
  <2> QED BY <1>4, <2>1 DEF CompactWrite, CompactBegin, walVars, memVars, tabVars, history
<1>5. CASE RemoveTable
  <2>1. \A i \in DOMAIN sstables : files'[sstables[i]] = files[sstables[i]]
    BY <1>1, <1>5 DEF RemoveTable
  <2> QED BY <1>5, <2>1 DEF RemoveTable, walVars, memVars, tabVars, history
<1> QED BY <1>2, <1>3, <1>4, <1>5 DEF FileSteps

(* A compaction drops tombstones, which answer as a missing key does.      *)
LEMMA CompactPublishAnswers ==
    ASSUME RecoveryInv, CompactPublish, NEW k \in Key
    PROVE  Answer(OnTables(sstables, k)') = Answer(OnTables(sstables, k))
<1>1. Answer(Absent) = Absent /\ \A e : Answer(Answer(e)) = Answer(e)
  BY LayersAssumption DEF Answer
<1>2. Compacted[k] = Answer(OnTables(sstables, k))
  BY DEF Compacted
<1>3. /\ files' = files
      /\ \/ files[nextSSTableID] = Compacted /\ sstables' = <<nextSSTableID>>
         \/ Compacted = EmptyLayer /\ sstables' = <<>>
  BY DEF RecoveryInv, Operations, CompactPublish
<1>4. CASE files[nextSSTableID] = Compacted /\ sstables' = <<nextSSTableID>>
  <2>1. DOMAIN sstables' = {1} /\ Tables(sstables)'[1] = Compacted
    BY <1>3, <1>4 DEF Tables
  <2>2. OnTables(sstables, k)' = Newest(Tables(sstables)', {1}, k)
    BY <2>1 DEF OnTables
  <2>3. Newest(Tables(sstables)', {1}, k) = Tables(sstables)'[1][k]
    BY NewestOne
  <2> QED BY <1>1, <1>2, <2>1, <2>2, <2>3
<1>5. CASE Compacted = EmptyLayer /\ sstables' = <<>>
  <2>1. DOMAIN sstables' = {}
    BY <1>3, <1>5
  <2>2. OnTables(sstables, k)' = Absent
    BY <2>1, NewestNone DEF OnTables
  <2>3. Compacted[k] = Absent
    BY <1>3, <1>5 DEF EmptyLayer
  <2> QED BY <1>1, <1>2, <2>2, <2>3
<1> QED BY <1>3, <1>4, <1>5

LEMMA SilentKey ==
    ASSUME PrunesAndReplays, RecoveryInv, Silent, NEW k \in Key
    PROVE  /\ KeyInv(k)'
           /\ Answer(Lookup(k)') = Answer(Lookup(k))
           /\ doubt' = doubt /\ older' = older
<1>1. Running /\ KeyInv(k) /\ TypeInv
  BY SilentRuns DEF RecoveryInv, ControlInv
<1>2. CASE Bookkeeping
  <2>1. UNCHANGED <<segments, live, buffer, mem, immutables, covered, files, sstables,
                    doubt, older>>
    BY <1>2, BookkeepingKeeps
  <2>2. OnTables(sstables, k)' = OnTables(sstables, k)
    BY <2>1 DEF OnTables, Tables
  <2> QED BY <1>1, <2>1, <2>2, KeyUntouched
<1>3. CASE FileSteps
  <2>1. /\ UNCHANGED <<segments, live, buffer, mem, immutables, covered, sstables,
                       doubt, older>>
        /\ \A i \in DOMAIN sstables : files'[sstables[i]] = files[sstables[i]]
    BY <1>3, FileStepsKeep
  <2>2. OnTables(sstables, k)' = OnTables(sstables, k)
    BY <1>1, <2>1, TablesSame
  <2> QED BY <1>1, <2>1, <2>2, KeyUntouched
<1>4. CASE WALFlushFails
  BY <1>1, <1>4, KeyFlushFails DEF WALFlushFails, history
<1>5. CASE Freeze
  <2>1. UNCHANGED <<segments, files, buffer, sstables, covered, doubt, older>>
    BY <1>5 DEF Freeze, tabVars, history
  <2>2. CASE mem = EmptyLayer
    <3>1. UNCHANGED <<live, mem, immutables>>
      BY <1>5, <2>2 DEF Freeze
    <3>2. OnTables(sstables, k)' = OnTables(sstables, k)
      BY <2>1 DEF OnTables, Tables
    <3> QED BY <1>1, <2>1, <3>1, <3>2, KeyUntouched
  <2>3. CASE mem # EmptyLayer
    BY <1>1, <1>5, <2>1, <2>3, KeyFreeze
  <2> QED BY <2>2, <2>3
<1>6. CASE FlushPublish
  BY <1>1, <1>6, KeyFlushPublish DEF FlushPublish
<1>7. CASE PruneSegment
  BY <1>1, <1>7, KeyPrune, PruneRemovesOldest
<1>8. CASE CompactPublish
  <2>1. UNCHANGED <<segments, live, buffer, mem, immutables, covered, doubt, older>>
    BY <1>8 DEF CompactPublish, walVars, memVars, history
  <2>2. Answer(OnTables(sstables, k)') = Answer(OnTables(sstables, k))
    BY <1>8, CompactPublishAnswers
  <2> QED BY <1>1, <2>1, <2>2, KeyUntouched
<1> QED BY <1>2, <1>3, <1>4, <1>5, <1>6, <1>7, <1>8 DEF Silent

-----------------------------------------------------------------------------
(* Replay, shutdown, crash and restart.                                    *)

(* A restart that finds none of the buffered records.                      *)
LEMMA NothingBuffered ==
    ASSUME NEW k
    PROVE  Restarted(0, k) = Over(Replayed(0, k), OnTables(sstables, k))
<1>1. Newest(buffer, {}, k) = Absent
  BY NewestNone
<1>2. 1..0 = {}
  OBVIOUS
<1> QED BY <1>1, <1>2, OverAssociative DEF Restarted

LEMMA KeyReLoad ==
    ASSUME RecoveryInv, TypeInv', ReLoad, NEW k \in Key
    PROVE  /\ Running /\ Running'
           /\ KeyInv(k)'
           /\ Answer(Lookup(k)') \in Allowed(k)
           /\ doubt'[k] = {} /\ older'[k] = {}
<1>1. /\ Running /\ Running'
      /\ buffer = <<>>
      /\ UNCHANGED <<segments, live, files, buffer, sstables, older>>
      /\ immutables' = <<>> /\ covered' = 0
      /\ mem' = Merge(segments, live)
      /\ doubt' = [x \in Key |-> {}]
  BY DEF ReLoad, Drained, Running, fileVars, walVars, tabVars
<1>2. mem'[k] = Newest(segments', live', k)
  BY <1>1 DEF Merge
<1>3. /\ KeyInv(k)'
      /\ Lookup(k)' = Over(Replayed(0, k)', OnTables(sstables, k)')
  BY <1>1, <1>2, KeyReplayed
<1>4. Replayed(0, k)' = Replayed(0, k) /\ OnTables(sstables, k)' = OnTables(sstables, k)
  BY <1>1 DEF Replayed, OnTables, Tables
<1>5. Lookup(k)' = Restarted(0, k)
  BY <1>3, <1>4, NothingBuffered
<1>6. 0 \in 0..Len(buffer) /\ KeyInv(k)
  BY <1>1 DEF RecoveryInv
<1>7. Answer(Restarted(0, k)) \in Allowed(k)
  BY <1>6 DEF KeyInv, CrashAllowed
<1>8. older'[k] = {}
  BY <1>1 DEF RecoveryInv, Uncertain
<1> QED BY <1>1, <1>3, <1>5, <1>7, <1>8

LEMMA KeyOpen ==
    ASSUME RecoveryInv, TypeInv', Open, NEW k \in Key
    PROVE  /\ ~Running /\ Running'
           /\ KeyInv(k)'
           /\ Lookup(k)' = Recovered(k)
           /\ doubt' = doubt /\ older' = older
<1>1. /\ ~Running /\ Running'
      /\ UNCHANGED <<segments, files, buffer, immutables, covered, doubt, older>>
      /\ live \subseteq live'
      /\ mem' = Merge(segments, live)
      /\ sstables' = LoadedTables
  BY DEF Open, Running, history
<1>2. TypeInv /\ LogLayout /\ buffer = <<>> /\ immutables = <<>> /\ covered = 0
  BY <1>1 DEF RecoveryInv, ControlInv, Lifetime, Operations
<1>3. live' \subseteq SegmentID
  BY DEF TypeInv, TypeOK
<1>4. /\ Replayed(0, k)' = Replayed(0, k)
      /\ Newest(segments, live', k) = Newest(segments, live, k)
  BY <1>1, <1>2, <1>3, SegmentAdded
<1>5. mem'[k] = Newest(segments', live', k)
  BY <1>1, <1>4 DEF Merge
<1>6. /\ KeyInv(k)'
      /\ Lookup(k)' = Over(Replayed(0, k)', OnTables(sstables, k)')
  BY <1>1, <1>2, <1>5, KeyReplayed
<1>7. OnTables(sstables, k)' = OnTables(LoadedTables, k)
  BY <1>1 DEF OnTables, Tables
<1> QED BY <1>1, <1>4, <1>6, <1>7 DEF Recovered

(* What the files say of k, before the process dies and after.             *)
LEMMA LoadedSame ==
    ASSUME UNCHANGED <<files, onDisk, manifest>>, NEW k
    PROVE  OnTables(LoadedTables, k)' = OnTables(LoadedTables, k)
<1>1. LoadedTables' = LoadedTables
  BY DEF LoadedTables
<1> QED BY <1>1 DEF OnTables, Tables

LEMMA KeyCrash ==
    ASSUME RecoveryInv, Crash, NEW k \in Key
    PROVE  /\ Running /\ ~Running'
           /\ Answer(Recovered(k)') \in Allowed(k)
           /\ doubt'[k] = {} /\ older'[k] = {}
<1>1. PICK n \in 0..Len(buffer) : Persist(buffer, n)
  BY DEF Crash
<1>2. /\ Running /\ ~Running'
      /\ UNCHANGED <<files, onDisk, manifest>>
      /\ doubt'[k] = {} /\ older'[k] = {}
  BY DEF Crash, Stop, Running
<1>3. TypeInv /\ LogLayout /\ KeyInv(k) /\ buffer \in Seq(Layer) /\ 0 < active
  BY <1>2 DEF RecoveryInv, ControlInv, TypeInv, TypeOK, SegmentID
<1>4. Replayed(0, k)' = Over(Newest(buffer, 1..n, k), Replayed(0, k))
  BY <1>1, <1>2, <1>3, PersistLogs
<1>5. Recovered(k)' = Over(Newest(buffer, 1..n, k), Recovered(k))
  BY <1>2, <1>4, LoadedSame, OverAssociative DEF Recovered
<1>6. Recovered(k) = Over(Replayed(0, k), OnTables(sstables, k))
  BY <1>2, RestartReadsTables
<1>7. Recovered(k)' = Restarted(n, k)
  BY <1>5, <1>6 DEF Restarted
<1>8. Answer(Restarted(n, k)) \in Allowed(k)
  BY <1>3 DEF KeyInv, CrashAllowed
<1> QED BY <1>2, <1>7, <1>8

LEMMA KeyClose ==
    ASSUME RecoveryInv, CloseEnd, NEW k \in Key
    PROVE  /\ Running /\ ~Running'
           /\ Answer(Recovered(k)') \in Allowed(k)
           /\ doubt'[k] = {} /\ older'[k] = {}
<1>1. /\ Running /\ ~Running'
      /\ buffer = <<>>
      /\ UNCHANGED <<segments, live, files, onDisk, manifest>>
      /\ doubt'[k] = {} /\ older'[k] = {}
  BY DEF CloseEnd, Drained, Stop, Running
<1>2. KeyInv(k) /\ 0 \in 0..Len(buffer)
  BY <1>1 DEF RecoveryInv
<1>3. Recovered(k)' = Recovered(k)
  BY <1>1, LoadedSame DEF Recovered, Replayed
<1>4. Recovered(k) = Restarted(0, k)
  BY <1>1, RestartReadsTables, NothingBuffered
<1>5. Answer(Restarted(0, k)) \in Allowed(k)
  BY <1>2 DEF KeyInv, CrashAllowed
<1> QED BY <1>1, <1>3, <1>4, <1>5

-----------------------------------------------------------------------------
(* The steps keep the invariant.                                           *)

(* The records of a write, as its action names them.                       *)
LEMMA WritesData ==
    /\ Writes => \E data \in Seq(Layer) : data # <<>> /\ Write(data)
    /\ FailedWrites => \E data \in Seq(Layer) : WriteFails(data)
<1>1. ASSUME NEW k \in Key, NEW e \in Entry
      PROVE  <<Record(k, e)>> \in Seq(Layer) /\ <<Record(k, e)>> # <<>>
  BY RecordsType
<1>2. ASSUME NEW batch \in Batches
      PROVE  /\ [i \in DOMAIN batch |-> Record(batch[i][1], batch[i][2])] \in Seq(Layer)
             /\ [i \in DOMAIN batch |-> Record(batch[i][1], batch[i][2])] # <<>>
  <2>1. PICK n \in 2..MaxBatch : batch \in [1..n -> Key \X Entry]
    BY DEF Batches
  <2>2. 1 \in DOMAIN batch
    BY <2>1, SamStoreAssumption
  <2> DEFINE data == [i \in DOMAIN batch |-> Record(batch[i][1], batch[i][2])]
  <2>3. data \in Seq(Layer) /\ 1 \in DOMAIN data
    BY <2>2, RecordsType
  <2>4. data # <<>>
    <3> HIDE DEF data
    <3> QED BY <2>3
  <2> QED BY <2>3, <2>4
<1>3. Value \subseteq Entry /\ Tombstone \in Entry
  BY DEF Entry
<1>4. Writes => \E data \in Seq(Layer) : data # <<>> /\ Write(data)
  BY <1>1, <1>2, <1>3 DEF Writes, Put, Delete, WriteBatch
<1>5. FailedWrites => \E data \in Seq(Layer) : WriteFails(data)
  BY <1>1, <1>2 DEF FailedWrites
<1> QED BY <1>4, <1>5

LEMMA KeysStep ==
    ASSUME PrunesAndReplays, RecoveryInv, TypeInv', [Next]_vars, Running',
           NEW k \in Key
    PROVE  KeyInv(k)'
<1>1. CASE Writes
  BY <1>1, WritesData, KeyWrite
<1>2. CASE FailedWrites
  BY <1>2, WritesData, KeyWriteFails
<1>3. CASE WALFlush
  BY <1>3, KeyFlush DEF WALFlush
<1>4. CASE Silent
  BY <1>4, SilentKey
<1>5. CASE ReLoad
  BY <1>5, KeyReLoad
<1>6. CASE ReLoadFails
  BY <1>6 DEF ReLoadFails, PrunesAndReplays
<1>7. CASE CloseEnd
  BY <1>7, KeyClose
<1>8. CASE Crash
  BY <1>8, KeyCrash
<1>9. CASE Open
  BY <1>9, KeyOpen
<1>10. CASE UNCHANGED vars
  <2>1. UNCHANGED <<segments, live, buffer, mem, immutables, covered, files, sstables,
                    doubt, older, phase>>
    BY <1>10 DEF vars, fileVars, walVars, memVars, tabVars, history
  <2>2. Running /\ KeyInv(k)
    BY <2>1 DEF RecoveryInv, Running
  <2>3. OnTables(sstables, k)' = OnTables(sstables, k)
    BY <2>1 DEF OnTables, Tables
  <2> QED BY <2>1, <2>2, <2>3, KeyUntouched
<1> QED BY <1>1, <1>2, <1>3, <1>4, <1>5, <1>6, <1>7, <1>8, <1>9, <1>10, StepKinds

LEMMA LayoutUntouched ==
    ASSUME LogLayout, UNCHANGED <<segments, live, active>>, Running' => Running
    PROVE  LogLayout'
BY DEF LogLayout

LEMMA LayoutWrite ==
    ASSUME RecoveryInv, Writes \/ FailedWrites \/ WALFlush \/ WALFlushFails \/ Crash
    PROVE  LogLayout'
<1>1. TypeInv /\ LogLayout
  BY DEF RecoveryInv, ControlInv
<1>2. CASE Writes
  <2>1. PICK data \in Seq(Layer) : Write(data)
    BY <1>2, WritesData
  <2>2. Running /\ phase' = phase
    BY <2>1 DEF Write, Writable, Running
  <2>3. CASE Direct(data)
    BY <1>1, <2>1, <2>2, <2>3, PersistLayout DEF Write, AppendLog
  <2>4. CASE ~Direct(data)
    <3>1. UNCHANGED <<segments, live, active>>
      BY <2>1, <2>4 DEF Write, AppendLog
    <3> QED BY <1>1, <2>2, <3>1, LayoutUntouched
  <2> QED BY <2>3, <2>4
<1>3. CASE FailedWrites
  <2>1. PICK data \in Seq(Layer) : WriteFails(data)
    BY <1>3, WritesData
  <2> QED BY <1>1, <2>1, PersistLayout DEF WriteFails, Writable, Running
<1>4. CASE WALFlush \/ WALFlushFails \/ Crash
  <2>1. buffer \in Seq(Layer)
    BY <1>1 DEF TypeInv, TypeOK
  <2>2. Running /\ \E n : Persist(buffer, n)
    BY <1>4 DEF WALFlush, WALFlushFails, Crash
  <2> QED BY <1>1, <2>1, <2>2, PersistLayout
<1> QED BY <1>2, <1>3, <1>4

LEMMA LayoutFreeze ==
    ASSUME RecoveryInv, Freeze
    PROVE  LogLayout'
<1>1. /\ Running /\ LogLayout
      /\ live \subseteq Int /\ active \in Int
      /\ segments' = segments
  BY SilentRuns DEF RecoveryInv, ControlInv, TypeInv, TypeOK, SegmentID, Silent, Freeze
<1>2. CASE mem = EmptyLayer
  BY <1>1, <1>2, LayoutUntouched DEF Freeze
<1>3. CASE mem # EmptyLayer
  <2>1. /\ active' = active \/ active' = active + 1
        /\ live' = live \cup {active'}
    BY <1>3 DEF Freeze
  <2>2. active' \in live' /\ \A s \in live' : s <= active'
    BY <1>1, <2>1 DEF LogLayout
  <2> QED BY <1>1, <2>1, <2>2 DEF LogLayout
<1> QED BY <1>2, <1>3

LEMMA LayoutPrune ==
    ASSUME PrunesAndReplays, RecoveryInv, PruneSegment
    PROVE  LogLayout'
<1>1. /\ TypeOK /\ Running /\ LogLayout /\ active' = active
      /\ covered < active
  BY PruneRemovesOldest
     DEF RecoveryInv, ControlInv, TypeInv, CutoffsOrdered
<1>2. PICK s \in live : /\ s <= covered
                        /\ live' = live \ {s}
                        /\ segments' = [segments EXCEPT ![s] = EmptyLayer]
  BY PruneRemovesOldest
<1>3. s # active
  BY <1>1, <1>2 DEF TypeOK, SegmentID
<1>4. \A x \in SegmentID \ live' : segments'[x] = EmptyLayer
  BY <1>1, <1>2 DEF LogLayout, TypeOK
<1> QED BY <1>1, <1>2, <1>3, <1>4 DEF LogLayout

LEMMA LayoutOpen ==
    ASSUME RecoveryInv, Open
    PROVE  LogLayout'
<1>1. /\ live \in SUBSET SegmentID /\ LogLayout
      /\ segments' = segments
      /\ active' = IF live = {} THEN 1 ELSE Max(live)
      /\ live' = live \cup {active'}
  BY DEF RecoveryInv, ControlInv, TypeInv, TypeOK, Open
<1>2. live \in Indices /\ live \subseteq Nat
  BY <1>1, SegmentIndices DEF SegmentID
<1>3. active' \in live' /\ \A s \in live' : s <= active'
  BY <1>1, <1>2, MaxIsGreatest
<1> QED BY <1>1, <1>3 DEF LogLayout

LEMMA LayoutStep ==
    ASSUME PrunesAndReplays, RecoveryInv, [Next]_vars
    PROVE  LogLayout'
<1>1. LogLayout
  BY DEF RecoveryInv
<1>2. CASE Writes \/ FailedWrites \/ WALFlush \/ WALFlushFails \/ Crash
  BY <1>2, LayoutWrite
<1>3. CASE Freeze
  BY <1>3, LayoutFreeze
<1>4. CASE PruneSegment
  BY <1>4, LayoutPrune
<1>5. CASE Open
  BY <1>5, LayoutOpen
<1>6. CASE Bookkeeping
  BY <1>1, <1>6, SilentRuns, BookkeepingKeeps, LayoutUntouched DEF Silent
<1>7. CASE FileSteps
  BY <1>1, <1>7, SilentRuns, FileStepsKeep, LayoutUntouched DEF Silent
<1>8. CASE FlushPublish \/ CompactPublish \/ ReLoad \/ CloseEnd \/ UNCHANGED vars
  <2>1. UNCHANGED <<segments, live, active>> /\ (Running' => Running)
    BY <1>8 DEF FlushPublish, CompactPublish, ReLoad, CloseEnd, Stop, Running,
       fileVars, walVars, vars
  <2> QED BY <1>1, <2>1, LayoutUntouched
<1>9. CASE ReLoadFails
  BY <1>9 DEF ReLoadFails, PrunesAndReplays
<1> QED BY <1>2, <1>3, <1>4, <1>5, <1>6, <1>7, <1>8, <1>9, StepKinds DEF Silent

(* A key has buffered writes, or failed ones, and never both.              *)
LEMMA UncertainWrite ==
    ASSUME RecoveryInv, Writes
    PROVE  Uncertain'
<1>1. Uncertain /\ buffer \in Seq(Layer)
  BY DEF RecoveryInv, ControlInv, TypeInv, TypeOK
<1>2. PICK data \in Seq(Layer) : data # <<>> /\ Write(data)
  BY WritesData
<1>3. Running'
  BY <1>2 DEF Write, Writable, Running
<1>4. \A k \in Key :
         \/ Written(data, k) = {} /\ doubt'[k] = doubt[k] /\ older'[k] = older[k]
         \/ doubt'[k] = {} /\ (Direct(data) => older'[k] = {})
  BY <1>2 DEF Write
<1>5. CASE Direct(data)
  <2>1. buffer = <<>>
    BY <1>2, <1>5 DEF Write, AppendLog, Drained
  <2> QED BY <1>1, <1>3, <1>4, <1>5, <2>1 DEF Uncertain
<1>6. CASE ~Direct(data)
  <2>1. buffer' # <<>>
    BY <1>1, <1>2, <1>6 DEF Write, AppendLog
  <2> QED BY <1>1, <1>3, <1>4, <2>1 DEF Uncertain
<1> QED BY <1>5, <1>6

LEMMA UncertainStep ==
    ASSUME PrunesAndReplays, RecoveryInv, [Next]_vars
    PROVE  Uncertain'
<1>1. Uncertain /\ (~Running => buffer = <<>>)
  BY DEF RecoveryInv, Operations
<1>2. CASE Writes
  BY <1>2, UncertainWrite
<1>3. CASE FailedWrites
  <2>1. PICK data \in Seq(Layer) : WriteFails(data)
    BY <1>3, WritesData
  <2>2. Running' /\ buffer = <<>> /\ older' = older
    BY <2>1 DEF WriteFails, Writable, Drained, Running
  <2> QED BY <1>1, <2>2 DEF Uncertain
<1>4. CASE WALFlush
  <2>1. Running' /\ older' = [k \in Key |-> {}]
    BY <1>4 DEF WALFlush, Running
  <2> QED BY <2>1 DEF Uncertain
<1>5. CASE Silent
  <2>1. doubt' = doubt /\ older' = older
    BY <1>5, BookkeepingKeeps, FileStepsKeep, PruneRemovesOldest
       DEF Silent, WALFlushFails, Freeze, FlushPublish, CompactPublish, history
  <2>2. Running'
    BY <1>5, SilentRuns
  <2>3. buffer' = buffer
    BY <1>5, BookkeepingKeeps, FileStepsKeep, PruneRemovesOldest
       DEF Silent, WALFlushFails, Restored, Freeze, FlushPublish, CompactPublish, walVars
  <2> QED BY <1>1, <2>1, <2>2, <2>3 DEF Uncertain
<1>6. CASE ReLoad \/ CloseEnd \/ Crash
  <2>1. \A k \in Key : doubt'[k] = {}
    BY <1>6 DEF ReLoad, CloseEnd, Crash, Stop
  <2>2. \A k \in Key : older'[k] = {} \/ (buffer' # <<>> /\ Running')
    BY <1>1, <1>6 DEF ReLoad, Drained, CloseEnd, Crash, Stop, Uncertain
  <2> QED BY <2>1, <2>2 DEF Uncertain
<1>7. CASE ReLoadFails
  BY <1>7 DEF ReLoadFails, PrunesAndReplays
<1>8. CASE Open
  <2>1. /\ ~Running /\ Running' /\ UNCHANGED <<buffer, doubt, older>>
    BY <1>8 DEF Open, Running, history
  <2> QED BY <1>1, <2>1 DEF Uncertain
<1>9. CASE UNCHANGED vars
  <2>1. UNCHANGED <<buffer, doubt, older, phase>>
    BY <1>9 DEF vars, walVars, history
  <2> QED BY <1>1, <2>1 DEF Uncertain, Running
<1> QED BY <1>2, <1>3, <1>4, <1>5, <1>6, <1>7, <1>8, <1>9, StepKinds

(* An operation in progress is left alone by the steps of the others.      *)
LEMMA OperationsUntouched ==
    ASSUME RecoveryInv,
           UNCHANGED <<files, onDisk, manifest, sstables, nextSSTableID>>,
           at' # "idle" =>
               /\ at' = at
               /\ Head(immutables)' = Head(immutables)
               /\ at = "prune" => UNCHANGED <<live, covered, lock, todo>>,
           ~Running' => buffer' = <<>>
    PROVE  Operations'
<1>1. Operations
  BY DEF RecoveryInv
<1>2. Compacted' = Compacted
  BY DEF Compacted, OnTables, Tables
<1>3. at' = "written" => files'[nextSSTableID'] = Head(immutables)'.data
  BY <1>1 DEF Operations
<1>4. /\ at' = "compacted" => files'[nextSSTableID'] = Compacted'
      /\ at' = "emptied" => Compacted' = EmptyLayer
  BY <1>1, <1>2 DEF Operations
<1>5. at' = "prune" =>
        /\ manifest'.exists
        /\ lock' = "publish"
        /\ todo' = {} \/ todo' = {s \in live' : s <= covered'}
  BY <1>1 DEF Operations
<1> QED BY <1>3, <1>4, <1>5 DEF Operations

LEMMA OperationsWrite ==
    ASSUME RecoveryInv, Writes \/ FailedWrites \/ WALFlush \/ WALFlushFails
    PROVE  Operations'
<1>1. /\ UNCHANGED <<files, onDisk, manifest, sstables, nextSSTableID>>
      /\ UNCHANGED <<at, immutables, covered, todo>>
      /\ Running'
      /\ lock # "publish"
  <2>1. CASE Writes
    BY <2>1 DEF Writes, Put, Delete, WriteBatch, Write, Writable, tabVars, Running
  <2>2. CASE FailedWrites
    BY <2>2 DEF FailedWrites, WriteFails, Writable, memVars, tabVars, ctlVars, Running
  <2>3. CASE WALFlush \/ WALFlushFails
    BY <2>3 DEF WALFlush, WALFlushFails, memVars, tabVars, ctlVars, history, Running
  <2> QED BY <2>1, <2>2, <2>3
<1>2. at # "prune"
  BY <1>1 DEF RecoveryInv, Operations
<1> QED BY <1>1, <1>2, OperationsUntouched

LEMMA OperationsBookkeeping ==
    ASSUME RecoveryInv, Bookkeeping
    PROVE  Operations'
<1>1. /\ UNCHANGED <<files, onDisk, manifest, sstables, nextSSTableID>>
      /\ UNCHANGED <<live, immutables, covered>>
      /\ Running'
  BY SilentRuns, BookkeepingKeeps DEF Silent
<1>2. at = "prune" => lock = "publish"
  BY DEF RecoveryInv, Operations
<1>3. CASE at' = "prune" /\ ~PruneFails
  <2>1. at = "prune" /\ lock' = lock /\ todo' = todo
    BY <1>2, <1>3 DEF Bookkeeping, CheckpointBegin, FreezeFails, SetBackgroundError,
       ClearBackgroundError, FlushBegin, PruneDone, CompactDone,
       CloseBegin, ctlVars
  <2> QED BY <1>1, <1>3, <2>1, OperationsUntouched
<1>4. CASE PruneFails
  <2>1. /\ at' = "prune" /\ lock' = lock /\ lock = "publish" /\ todo' = {}
        /\ manifest.exists
    BY <1>2, <1>4 DEF PruneFails, RecoveryInv, Operations
  <2> QED BY <1>1, <2>1 DEF Operations
<1>5. CASE at' # "prune" /\ ~PruneFails
  <2>1. at' \in {at, "idle", "flush"}
    BY <1>5 DEF Bookkeeping, CheckpointBegin, FreezeFails, SetBackgroundError,
       ClearBackgroundError, FlushBegin, PruneDone, CompactDone,
       CloseBegin, ctlVars
  <2>2. CASE at' = "flush"
    BY <1>1, <2>2 DEF Operations
  <2>3. CASE at' \in {at, "idle"}
    BY <1>1, <1>5, <2>3, OperationsUntouched
  <2> QED BY <2>1, <2>2, <2>3
<1> QED BY <1>3, <1>4, <1>5

LEMMA OperationsFreeze ==
    ASSUME RecoveryInv, Freeze
    PROVE  Operations'
<1>1. /\ UNCHANGED <<files, onDisk, manifest, sstables, nextSSTableID>>
      /\ UNCHANGED <<at, todo, covered>>
      /\ lock # "publish"
      /\ Running'
  BY SilentRuns DEF Silent, Freeze, tabVars, history
<1>2. at # "prune" /\ FlushInProgress /\ immutables \in Seq(Immutables)
  BY <1>1 DEF RecoveryInv, Operations, ControlInv, TypeInv, TypeOK
<1>3. immutables # <<>> => Head(immutables)' = Head(immutables)
  <2>1. PICK x : immutables' = immutables \/ immutables' = Append(immutables, x)
    BY DEF Freeze
  <2> QED BY <1>2, <2>1
<1>4. CASE at' = "written"
  BY <1>1, <1>2, <1>3, <1>4, OperationsUntouched DEF FlushInProgress
<1>5. CASE at' # "written"
  <2>1. Compacted' = Compacted
    BY <1>1 DEF Compacted, OnTables, Tables
  <2> QED BY <1>1, <1>2, <1>5, <2>1 DEF Operations, RecoveryInv
<1> QED BY <1>4, <1>5

LEMMA OperationsFiles ==
    ASSUME RecoveryInv, FileSteps
    PROVE  Operations'
<1>1. /\ UNCHANGED <<manifest, immutables, sstables, nextSSTableID>>
      /\ Running /\ Running' /\ TypeOK
      /\ \A i \in DOMAIN sstables : files'[sstables[i]] = files[sstables[i]]
  BY SilentRuns, FileStepsKeep DEF Silent, RecoveryInv, ControlInv, TypeInv
<1>2. CASE FlushWriteTable
  BY <1>1, <1>2 DEF FlushWriteTable, Operations, TypeOK
<1>3. CASE FlushFails \/ FlushPublishFails \/ CompactFails \/ CompactAborts \/ RemoveTable
  <2>1. at' \in {"idle", "cleanup"}
    BY <1>3 DEF FlushFails, FlushPublishFails, CompactFails, CompactBegin, CompactAborts,
       RemoveTable, ctlVars
  <2> QED BY <1>1, <2>1 DEF Operations
<1>4. CASE CompactWrite
  <2>1. at' \in {"compacted", "emptied"}
    BY <1>4 DEF CompactWrite
  <2>2. Compacted' = Compacted
    <3>1. \A k : OnTables(sstables, k)' = OnTables(sstables, k)
      BY <1>1, TablesSame DEF RecoveryInv, ControlInv
    <3> QED BY <3>1 DEF Compacted
  <2>3. /\ at' = "emptied" => Compacted = EmptyLayer
        /\ at' = "compacted" => files'[nextSSTableID] = Compacted
    BY <1>1, <1>4 DEF CompactWrite, TypeOK
  <2> QED BY <1>1, <2>1, <2>2, <2>3 DEF Operations
<1> QED BY <1>2, <1>3, <1>4 DEF FileSteps

LEMMA OperationsStep ==
    ASSUME PrunesAndReplays, RecoveryInv, [Next]_vars
    PROVE  Operations'
<1>1. Operations
  BY DEF RecoveryInv
<1>2. CASE Writes \/ FailedWrites \/ WALFlush \/ WALFlushFails
  BY <1>2, OperationsWrite
<1>3. CASE Bookkeeping
  BY <1>3, OperationsBookkeeping
<1>4. CASE FileSteps
  BY <1>4, OperationsFiles
<1>5. CASE Freeze
  BY <1>5, OperationsFreeze
<1>6. CASE FlushPublish
  <2>1. Running'
    BY <1>6, SilentRuns DEF Silent
  <2> QED BY <1>6, <2>1 DEF FlushPublish, Operations
<1>7. CASE PruneSegment
  <2>1. /\ Running' /\ todo' = {x \in live' : x <= covered'}
        /\ at' = "prune" /\ lock' = lock /\ at = "prune" /\ manifest' = manifest
    BY <1>7, PruneRemovesOldest DEF PruneSegment
  <2> QED BY <1>1, <2>1 DEF Operations
<1>8. CASE CompactPublish \/ ReLoad \/ CloseEnd \/ Crash
  BY <1>1, <1>8 DEF CompactPublish, ReLoad, CloseEnd, Crash, Stop, Running, Operations,
     ctlVars
<1>9. CASE Open
  <2>1. at' = "idle" /\ Running'
    BY <1>9 DEF Open, Running, RecoveryInv, ControlInv, Lifetime
  <2> QED BY <2>1 DEF Operations
<1>10. CASE ReLoadFails
  BY <1>10 DEF ReLoadFails, PrunesAndReplays
<1>11. CASE UNCHANGED vars
  <2>1. /\ UNCHANGED <<files, onDisk, manifest, sstables, nextSSTableID>>
        /\ UNCHANGED <<at, immutables, live, covered, lock, todo, phase, buffer>>
    BY <1>11 DEF vars, fileVars, walVars, memVars, tabVars, ctlVars, history
  <2> QED BY <1>1, <2>1, OperationsUntouched DEF Operations, Running
<1> QED BY <1>2, <1>3, <1>4, <1>5, <1>6, <1>7, <1>8, <1>9, <1>10, <1>11, StepKinds
      DEF Silent

(* No other step takes a segment away.                                     *)
LEMMA OnlyPruneShrinks ==
    ASSUME [Next]_vars, ~PruneSegment
    PROVE  live \subseteq live'
<1>1. CASE Writes \/ FailedWrites
  <2>1. PICK data \in Seq(Layer) : Write(data) \/ WriteFails(data)
    BY <1>1, WritesData
  <2>2. \/ UNCHANGED live
        \/ \E n : Persist(data, n)
    BY <2>1 DEF Write, AppendLog, WriteFails
  <2> QED BY <2>2 DEF Persist
<1>2. CASE Bookkeeping
  BY <1>2, BookkeepingKeeps
<1>3. CASE FileSteps
  BY <1>3 DEF FileSteps, FlushWriteTable, FlushFails, FlushPublishFails, CompactWrite,
     CompactFails, CompactAborts, RemoveTable
<1>4. CASE WALFlush \/ WALFlushFails \/ Freeze \/ FlushPublish
  BY <1>4 DEF WALFlush, WALFlushFails, Persist, Freeze, FlushPublish
<1>5. CASE CompactPublish \/ ReLoad \/ ReLoadFails \/ CloseEnd \/ Crash \/ Open
  BY <1>5 DEF CompactPublish, ReLoad, ReLoadFails, CloseEnd, Crash, Persist, Open,
     fileVars
<1>6. CASE UNCHANGED vars
  BY <1>6 DEF vars, fileVars
<1> QED BY <1>1, <1>2, <1>3, <1>4, <1>5, <1>6, StepKinds DEF Silent

(* A write to the log hides entries, and takes none away.                  *)
LEMMA PersistKeepsEntries ==
    ASSUME TypeInv, NEW data \in Seq(Layer), NEW n,
           Persist(data, n), NEW s \in live, NEW k \in Key, segments[s][k] # Absent
    PROVE  segments'[s][k] # Absent
<1>1. PICK place : Placed(data, n, place)
  BY PersistPlaces
<1>2. s \in SegmentID
  BY DEF TypeInv, TypeOK
<1>3. segments'[s][k] = Over(Newest(data, {i \in 1..n : place[i] = s}, k), segments[s][k])
  BY <1>1, <1>2 DEF Placed
<1> QED BY <1>3 DEF Over

LEMMA EntriesStay ==
    ASSUME RecoveryInv, Running, [Next]_vars, ~PruneSegment,
           NEW s \in live, NEW k \in Key, segments[s][k] # Absent
    PROVE  segments'[s][k] # Absent
<1>1. TypeInv /\ LogLayout /\ buffer \in Seq(Layer)
  BY DEF RecoveryInv, ControlInv, TypeInv, TypeOK
<1>2. ASSUME NEW data \in Seq(Layer), NEW n, Persist(data, n)
      PROVE  segments'[s][k] # Absent
  BY <1>1, <1>2, PersistKeepsEntries
<1>3. CASE Writes \/ FailedWrites
  <2>1. PICK data \in Seq(Layer) : Write(data) \/ WriteFails(data)
    BY <1>3, WritesData
  <2>2. UNCHANGED segments \/ \E n : Persist(data, n)
    BY <2>1 DEF Write, AppendLog, WriteFails
  <2> QED BY <1>2, <2>2
<1>4. CASE WALFlush \/ WALFlushFails \/ Crash
  <2>1. \E n : Persist(buffer, n)
    BY <1>4 DEF WALFlush, WALFlushFails, Crash
  <2> QED BY <1>1, <1>2, <2>1
<1>5. CASE Bookkeeping
  BY <1>5, BookkeepingKeeps
<1>6. CASE FileSteps
  BY <1>6, FileStepsKeep
<1>7. CASE Freeze \/ FlushPublish \/ CompactPublish \/ ReLoad \/ ReLoadFails
           \/ CloseEnd \/ Open \/ UNCHANGED vars
  BY <1>7 DEF Freeze, FlushPublish, CompactPublish, ReLoad, ReLoadFails, CloseEnd, Open,
     vars, fileVars
<1> QED BY <1>3, <1>4, <1>5, <1>6, <1>7, StepKinds DEF Silent

(* A key that is replayed stays so until a segment is pruned.              *)
LEMMA ReplayedStays ==
    ASSUME RecoveryInv, TypeInv', Running, [Next]_vars, ~PruneSegment,
           NEW k \in Key, Replayed(0, k) # Absent
    PROVE  Replayed(0, k)' # Absent
<1> DEFINE S == {s \in live : s > 0}
           T == {s \in live' : s > 0}
<1>1. S \in Indices /\ T \in Indices /\ S \subseteq live
  <2>1. live \in SUBSET SegmentID /\ live' \in SUBSET SegmentID
    BY DEF RecoveryInv, ControlInv, TypeInv, TypeOK
  <2>2. S \in SUBSET SegmentID /\ T \in SUBSET SegmentID
    BY <2>1
  <2> QED BY <2>2, SegmentIndices
<1>2. S \subseteq T
  BY OnlyPruneShrinks
<1>3. Replayed(0, k) = Newest(segments, S, k) /\ Replayed(0, k)' = Newest(segments', T, k)
  BY DEF Replayed
<1> HIDE DEF S, T
<1>4. PICK s \in S : segments[s][k] # Absent
  BY <1>1, <1>3, NewestAbsent
<1>5. segments'[s][k] # Absent /\ s \in T
  BY <1>1, <1>2, <1>4, EntriesStay
<1> QED BY <1>1, <1>3, <1>5, NewestCases

(* The first file a flush writes repeats the immutable, and that is logged.*)
LEMMA FirstFileWritten ==
    ASSUME RecoveryInv, Running, immutables # <<>>, NEW k \in Key,
           Head(immutables).data[k] # Absent
    PROVE  Replayed(0, k) # Absent
<1>1. TypeInv /\ FrozenOnFile(k) /\ immutables \in Seq(Immutables)
  BY DEF RecoveryInv, ControlInv, KeyInv, TypeInv, TypeOK
<1>2. 1 \in DOMAIN immutables /\ Head(immutables) = immutables[1]
  BY <1>1
<1>3. FrozenAbove(0, k) # Absent
  BY <1>1, <1>2, FirstPosition, NothingFrozen
<1>4. Replayed(covered, k) # Absent
  BY <1>1, <1>3, FirstPosition DEF FrozenOnFile
<1> QED BY <1>1, <1>4, LeftoverSplit DEF Over

LEMMA FirstFileStep ==
    ASSUME PrunesAndReplays, RecoveryInv, TypeInv', [Next]_vars, Running', NEW k \in Key
    PROVE  FirstFileLogged(k)'
<1> SUFFICES ASSUME ~manifest'.exists, onDisk' # {}, files'[1][k] # Absent
             PROVE  Replayed(0, k)' # Absent
  BY DEF FirstFileLogged
<1>1. /\ ControlInv /\ TypeInv /\ Operations
      /\ Running => FirstFileLogged(k)
  BY DEF RecoveryInv, ControlInv
<1>2. ~Open
  BY DEF Open
<1>3. Running
  <2>1. \/ Writes \/ FailedWrites \/ WALFlush \/ Silent \/ ReLoad \/ ReLoadFails
        \/ CloseEnd \/ Crash \/ UNCHANGED vars
    BY <1>2, StepKinds
  <2>2. Writes \/ FailedWrites => Running
    BY WritesLeaveTables DEF Running
  <2> QED BY <2>1, <2>2, SilentRuns
          DEF WALFlush, ReLoad, ReLoadFails, CloseEnd, Crash, Running, vars
<1>4. ~manifest.exists
  <2>1. manifest' = manifest \/ manifest'.exists
    <3>1. Writes \/ FailedWrites => manifest' = manifest
      BY WritesLeaveTables
    <3>2. Silent => manifest' = manifest \/ manifest'.exists
      BY BookkeepingKeeps, FileStepsKeep
         DEF Silent, WALFlushFails, Freeze, FlushPublish, PruneSegment, CompactPublish
    <3> QED BY <1>2, <3>1, <3>2, StepKinds
            DEF WALFlush, ReLoad, ReLoadFails, CloseEnd, Crash, Stop, vars, fileVars
  <2> QED BY <2>1
<1>5. ~PruneSegment
  BY <1>1, <1>4 DEF PruneSegment, Operations
<1>6. ASSUME onDisk' \subseteq onDisk, files'[1][k] = files[1][k]
      PROVE  Replayed(0, k)' # Absent
  BY <1>1, <1>3, <1>4, <1>5, <1>6, ReplayedStays DEF FirstFileLogged
<1>7. 1 \in onDisk' /\ 1 \in TableID /\ files \in [TableID -> Layer]
  BY <1>1 DEF TypeInv, TypeOK, FirstFlush
<1>8. CASE FlushWriteTable \/ FlushFails
  <2>1. CASE files' = [files EXCEPT ![nextSSTableID] = Head(immutables).data]
    <3>1. nextSSTableID = 1 /\ immutables # <<>>
      BY <1>1, <1>4, <1>8 DEF FlushWriteTable, FlushFails, TypeInv, FirstFlush,
         FlushInProgress
    <3>2. Head(immutables).data[k] # Absent
      BY <1>7, <2>1, <3>1
    <3> QED BY <1>3, <1>5, <3>1, <3>2, FirstFileWritten, ReplayedStays
  <2>2. CASE UNCHANGED <<files, onDisk>>
    BY <1>6, <2>2
  <2> QED BY <1>8, <2>1, <2>2 DEF FlushWriteTable, FlushFails, TableLeft
<1>9. CASE FlushPublishFails \/ CompactAborts \/ RemoveTable
  <2>1. /\ onDisk' \subseteq onDisk
        /\ files' = files \/ \E t : files' = [files EXCEPT ![t] = EmptyLayer]
    BY <1>9 DEF FlushPublishFails, CompactAborts, RemoveTable, Discard
  <2>2. files'[1][k] = files[1][k]
    BY <1>7, <2>1 DEF EmptyLayer
  <2> QED BY <1>6, <2>1, <2>2
<1>10. ~CompactWrite /\ ~CompactFails
  BY <1>1, <1>4 DEF CompactWrite, CompactFails, CompactBegin, TypeInv, FirstFlush
<1>11. CASE ~FileSteps
  <2>1. UNCHANGED <<files, onDisk>>
    <3>1. CASE Writes \/ FailedWrites
      BY <3>1 DEF Writes, Put, Delete, WriteBatch, Write, FailedWrites, WriteFails
    <3>2. CASE Silent
      BY <1>5, <1>11, <3>2, BookkeepingKeeps
         DEF Silent, WALFlushFails, Freeze, FlushPublish, CompactPublish
    <3> QED BY <1>2, <3>1, <3>2, StepKinds
            DEF WALFlush, ReLoad, ReLoadFails, CloseEnd, Crash, Stop, vars, fileVars
  <2> QED BY <1>6, <2>1
<1> QED BY <1>8, <1>9, <1>10, <1>11 DEF FileSteps

LEMMA RecoveryInvInit == Init => RecoveryInv
<1> SUFFICES ASSUME Init PROVE RecoveryInv
  OBVIOUS
<1>1. ControlInv
  BY ControlInvInit
<1>2. LogLayout /\ Operations /\ Uncertain
  BY DEF Init, LogLayout, Operations, Uncertain, Running
<1>3. ASSUME NEW k \in Key PROVE KeyInv(k)
  <2>1. /\ buffer = <<>> /\ immutables = <<>> /\ covered = 0
        /\ mem[k] = Absent /\ sstables = <<>>
    BY <1>3 DEF Init, EmptyLayer
  <2>2. \A S \in SUBSET live : Newest(segments, S, k) = Absent
    <3>1. \A s \in SegmentID : segments[s][k] = Absent
      BY DEF Init, EmptyLayer
    <3>2. live \subseteq SegmentID
      BY <1>1 DEF ControlInv, TypeInv, TypeOK
    <3>3. ASSUME NEW S \in SUBSET live PROVE Newest(segments, S, k) = Absent
      <4>1. S \in Indices /\ \A s \in S : segments[s][k] = Absent
        BY <3>1, <3>2, <3>3, SegmentIndices
      <4> QED BY <4>1, NewestAbsent
    <3> QED BY <3>3
  <2>3. Positions = {0} /\ Cutoff(0) = 0
    BY <2>1 DEF Positions, Cutoff
  <2>4. \A c : Replayed(c, k) = Absent
    BY <2>2 DEF Replayed
  <2>5. Leftover(k) = Absent
    BY <2>2 DEF Leftover
  <2>6. /\ FrozenAbove(0, k) = Absent /\ FrozenUpTo(0, k) = Absent
        /\ InMemory(0, k) = Absent
    <3>1. {i \in DOMAIN immutables : i > 0} = {} /\ {i \in DOMAIN immutables : i <= 0} = {}
      BY <2>1
    <3> QED BY <2>1, <3>1, NewestNone, OverAssociative
       DEF FrozenAbove, FrozenUpTo, InMemory
  <2>7. Newest(buffer, DOMAIN buffer, k) = Absent
        /\ \A n \in 0..Len(buffer) : Newest(buffer, 1..n, k) = Absent
    <3>1. DOMAIN buffer = {} /\ \A n \in 0..Len(buffer) : 1..n = {}
      BY <2>1
    <3> QED BY <3>1, NewestNone
  <2>8. Lookup(k) = OnTables(sstables, k)
    BY <2>6, OverAssociative DEF Lookup
  <2>9. Logged(0, k) = Absent
    BY <2>4, <2>7, OverAssociative DEF Logged
  <2>10. MemoryLogged(k) /\ FrozenOnFile(k)
    BY <2>3, <2>6, <2>9 DEF MemoryLogged, FrozenOnFile
  <2>11. TablesAllowed(k)
    BY <2>3, <2>6, <2>8, OverAssociative DEF TablesAllowed, Allowed
  <2>12. CrashAllowed(k)
    BY <2>4, <2>7, <2>8, OverAssociative DEF CrashAllowed, Restarted, Allowed
  <2>13. LeftoverRepeats(k)
    BY <2>5 DEF LeftoverRepeats
  <2> QED BY <2>10, <2>11, <2>12, <2>13 DEF KeyInv
<1>4. \A k \in Key : FirstFileLogged(k)
  BY DEF Init, FirstFileLogged
<1> QED BY <1>1, <1>2, <1>3, <1>4 DEF RecoveryInv

LEMMA RecoveryInvStep ==
    ASSUME PrunesAndReplays
    PROVE  RecoveryInv /\ [Next]_vars => RecoveryInv'
<1> SUFFICES ASSUME RecoveryInv, [Next]_vars PROVE RecoveryInv'
  OBVIOUS
<1>1. ControlInv'
  BY ControlInvStep DEF RecoveryInv
<1>2. LogLayout' /\ Operations' /\ Uncertain'
  BY LayoutStep, OperationsStep, UncertainStep
<1>3. ASSUME Running', NEW k \in Key PROVE KeyInv(k)' /\ FirstFileLogged(k)'
  BY <1>1, <1>3, KeysStep, FirstFileStep DEF ControlInv
<1> QED BY <1>1, <1>2, <1>3 DEF RecoveryInv

LEMMA RecoveryInvHolds ==
    ASSUME PrunesAndReplays
    PROVE  Spec => []RecoveryInv
BY RecoveryInvInit, RecoveryInvStep, PTL DEF Spec

(* The segments, the records still buffered and the tables a restart would *)
(* load answer every key as the running store does, or as a write to it    *)
(* that failed: whatever step of freezeActiveLocked, flushOldestImmutable, *)
(* PruneThrough, compactAll, ReLoad, Close or a restart came last.         *)
THEOREM LogAlwaysCompletes ==
    ASSUME PrunesAndReplays
    PROVE  Spec => []LogCompletes
BY RecoveryInvHolds, InvLogCompletes, PTL

(* A segment that outlives its flush, because PruneThrough was interrupted *)
(* or could not list the segments, only repeats what the tables answer.    *)
THEOREM LeftoversAlwaysRepeat ==
    ASSUME PrunesAndReplays
    PROVE  Spec => []LeftoversRepeat
BY RecoveryInvHolds, InvLeftoversRepeat, PTL

-----------------------------------------------------------------------------
(* Pruning a segment that a restart would still have replayed.             *)

(* Strict mode writes every record through.                                *)
NothingBuffers == buffer = <<>>

LEMMA NothingBuffersStep ==
    ASSUME SyncPolicy = "SyncEveryWrite", NothingBuffers, [Next]_vars
    PROVE  NothingBuffers'
<1>1. CASE Writes
  BY <1>1 DEF Writes, Put, Delete, WriteBatch, Write, AppendLog, Direct, NothingBuffers
<1>2. CASE FailedWrites
  BY <1>2 DEF FailedWrites, WriteFails, NothingBuffers
<1>3. CASE Bookkeeping
  BY <1>3, BookkeepingKeeps DEF NothingBuffers
<1>4. CASE FileSteps
  BY <1>4 DEF FileSteps, FlushWriteTable, FlushFails, FlushPublishFails, CompactBegin,
     CompactWrite, CompactFails, CompactAborts, RemoveTable, walVars, NothingBuffers
<1>5. CASE WALFlush \/ WALFlushFails \/ Freeze \/ FlushPublish \/ PruneSegment
  BY <1>5 DEF WALFlush, WALFlushFails, Restored, Freeze, FlushPublish, PruneSegment,
     walVars, NothingBuffers
<1>6. CASE CompactPublish \/ ReLoad \/ ReLoadFails \/ CloseEnd \/ Crash \/ Open
  BY <1>6 DEF CompactPublish, ReLoad, ReLoadFails, CloseEnd, Crash, Stop, Open,
     walVars, NothingBuffers
<1>7. CASE UNCHANGED vars
  BY <1>7 DEF vars, walVars, NothingBuffers
<1> QED BY <1>1, <1>2, <1>3, <1>4, <1>5, <1>6, <1>7, StepKinds DEF Silent

(* Two entries that answer alike are the same entry.                       *)
LEMMA AnswerInjective ==
    ASSUME NEW d \in Entry, NEW e \in Entry, Answer(d) = Answer(e)
    PROVE  d = e
BY LayersAssumption DEF Entry, Answer

LEMMA PruneAnswers ==
    ASSUME PrunesAndReplays, RecoveryInv, NothingBuffers, PruneSegment, NEW k \in Key
    PROVE  \/ Answer(Recovered(k)') = Answer(Recovered(k))
           \/ Recovered(k) \in doubt[k]
<1> DEFINE T == OnTables(sstables, k)
<1>1. /\ Running /\ UNCHANGED <<files, onDisk, manifest>>
      /\ KeyInv(k) /\ TypeOK /\ TypeInv
  BY PruneRemovesOldest DEF RecoveryInv, ControlInv, TypeInv
<1>2. Recovered(k) = Over(Replayed(0, k), T)
  BY <1>1, RestartReadsTables
<1>3. CASE LoadedTables = sstables
  <2>1. Recovered(k)' = Over(Replayed(0, k)', T)
    BY <1>1, <1>3, LoadedSame DEF Recovered
  <2>2. CASE Replayed(0, k)' = Replayed(0, k)
    BY <1>2, <2>1, <2>2
  <2>3. CASE Replayed(0, k)' # Replayed(0, k)
    <3>1. Replayed(0, k)' = Absent /\ Replayed(covered, k) = Absent
      BY <2>3, PruneSilences
    <3>2. Replayed(0, k) = Leftover(k) /\ Leftover(k) # Absent
      BY <1>1, <2>3, <3>1, LeftoverSplit DEF Over
    <3>3. Newest(buffer, DOMAIN buffer, k) = Absent
      <4>1. DOMAIN buffer = {}
        BY DEF NothingBuffers
      <4> QED BY <4>1, NewestNone
    <3>4. Logged(covered, k) = Absent
      BY <3>1, <3>3 DEF Logged, Over
    <3>5. Answer(Leftover(k)) \in {Answer(e) : e \in {T} \cup doubt[k]}
      BY <1>1, <3>2, <3>4 DEF KeyInv, LeftoverRepeats
    <3>6. Recovered(k) = Leftover(k) /\ Recovered(k)' = T
      BY <1>2, <2>1, <3>1, <3>2 DEF Over
    <3>7. Leftover(k) \in Entry
      <4> DEFINE S == {s \in live : s <= covered}
      <4>1. S \in Indices /\ \A s \in S : segments[s] \in Layer
        BY <1>1, LiveIndices DEF TypeOK
      <4>2. Newest(segments, S, k) \in Entry \cup {Absent}
        <5> HIDE DEF S
        <5> QED BY <4>1, NewestType
      <4> QED BY <3>2, <4>2 DEF Leftover
    <3>8. doubt[k] \subseteq Entry
      BY <1>1 DEF TypeOK
    <3> QED BY <3>5, <3>6, <3>7, <3>8, AnswerInjective
  <2> QED BY <2>2, <2>3
<1>4. LoadedTables = sstables
  <2>1. at = "prune" /\ Operations /\ ListsAgree
    BY DEF PruneSegment, RecoveryInv, ControlInv, TablesInv
  <2> QED BY <1>1, <2>1 DEF Operations, ListsAgree, LoadedTables
<1> QED BY <1>3, <1>4

(* In strict mode a restart answers the same before PruneThrough removes a *)
(* segment and after, unless it would have answered with a failed write.   *)
THEOREM PruningKeepsAnswers ==
    ASSUME PrunesAndReplays, SyncPolicy = "SyncEveryWrite"
    PROVE  Spec => PruneKeepsAnswers
<1> DEFINE Kept == Running /\ live' # live /\ live' \subseteq live =>
                      \A k \in Key : \/ Answer(Recovered(k)') = Answer(Recovered(k))
                                     \/ Recovered(k) \in doubt[k]
<1>1. Init => NothingBuffers
  BY DEF Init, NothingBuffers
<1>2. NothingBuffers /\ [Next]_vars => NothingBuffers'
  BY NothingBuffersStep
<1>3. RecoveryInv /\ NothingBuffers /\ [Next]_vars => [Kept]_vars
  <2> SUFFICES ASSUME RecoveryInv, NothingBuffers, [Next]_vars,
                      live' # live, live' \subseteq live, NEW k \in Key
               PROVE  \/ Answer(Recovered(k)') = Answer(Recovered(k))
                      \/ Recovered(k) \in doubt[k]
    OBVIOUS
  <2>1. PruneSegment
    BY OnlyPruneShrinks
  <2> QED BY <2>1, PruneAnswers
<1> QED BY <1>1, <1>2, <1>3, RecoveryInvHolds, PTL DEF Spec, PruneKeepsAnswers

-----------------------------------------------------------------------------
(* SamStore implements DurableKV.                                          *)

(* The answers a crash may leave behind, for a process that runs or not.   *)
AfterCrash(k) == {ShownAnswer(k)} \cup older[k] \cup {Answer(e) : e \in doubt[k]}

LEMMA AllowedIsAfterCrash ==
    ASSUME NEW k
    PROVE  /\ Running => ShownAnswer(k) = Answer(Lookup(k)) /\ AfterCrash(k) = Allowed(k)
           /\ ~Running => ShownAnswer(k) = Answer(Recovered(k))
BY DEF ShownAnswer, AfterCrash, Allowed

ShownTypes == \A k \in Key : ShownAnswer(k) \in Answers /\ AfterCrash(k) \in SUBSET Answers

LEMMA ShownAreAnswers ==
    ASSUME TypeInv
    PROVE  ShownTypes
<1> SUFFICES ASSUME NEW k \in Key
             PROVE  ShownAnswer(k) \in Answers /\ AfterCrash(k) \in SUBSET Answers
  BY DEF ShownTypes
<1>1. TypeOK
  BY DEF TypeInv
<1>2. Lookup(k) \in Entry \cup {Absent}
  BY <1>1, LookupType
<1>3. OnTables(LoadedTables, k) \in Entry \cup {Absent}
  BY <1>1, LoadedTablesType, OnTablesType
<1>4. Replayed(0, k) \in Entry \cup {Absent}
  <2> DEFINE S == {s \in live : s > 0}
  <2>1. S \in Indices /\ \A s \in S : segments[s] \in Layer
    BY <1>1, LiveIndices DEF TypeOK
  <2>2. Newest(segments, S, k) \in Entry \cup {Absent}
    <3> HIDE DEF S
    <3> QED BY <2>1, NewestType
  <2> QED BY <2>2 DEF Replayed
<1>5. Recovered(k) \in Entry \cup {Absent}
  BY <1>3, <1>4, OverType DEF Recovered
<1>6. ShownAnswer(k) \in Answers
  BY <1>2, <1>5, AnswerType DEF ShownAnswer
<1>7. \A e \in doubt[k] : Answer(e) \in Answers
  <2>1. doubt[k] \subseteq Entry
    BY <1>1 DEF TypeOK
  <2> QED BY <2>1, AnswerType
<1>8. older[k] \subseteq Answers
  BY <1>1 DEF TypeOK
<1> QED BY <1>6, <1>7, <1>8 DEF AfterCrash

(* What a step does to one key, in the words of DurableKV.                 *)
KeyUnchanged(k) == ShownAnswer(k)' = ShownAnswer(k) /\ AfterCrash(k)' = AfterCrash(k)

KeyWritten(k, durable) ==
    IF durable THEN AfterCrash(k)' = {ShownAnswer(k)'}
               ELSE AfterCrash(k) \cup {ShownAnswer(k)'} \subseteq AfterCrash(k)'

KeyRefused(k) == ShownAnswer(k)' = ShownAnswer(k) /\ AfterCrash(k) \subseteq AfterCrash(k)'

KeySynced(k) == ShownAnswer(k)' = ShownAnswer(k) /\ AfterCrash(k)' = {ShownAnswer(k)}

KeyRecovered(k) == ShownAnswer(k)' \in AfterCrash(k) /\ AfterCrash(k)' = {ShownAnswer(k)'}

LEMMA WritesContract ==
    ASSUME RecoveryInv, NEW data \in Seq(Layer), Write(data), NEW k \in Key
    PROVE  KeyUnchanged(k) \/ KeyWritten(k, Direct(data))
<1>1. /\ Running /\ Running'
      /\ Lookup(k)' = Over(Newest(data, DOMAIN data, k), Lookup(k))
      /\ doubt'[k] = IF Written(data, k) = {} THEN doubt[k] ELSE {}
      /\ older'[k] = IF Written(data, k) = {} THEN older[k]
                     ELSE IF Direct(data) THEN {}
                     ELSE older[k] \cup {Answer(Lookup(k))}
                            \cup {Answer(e) : e \in doubt[k] \cup Written(data, k)}
  <2>1. Running /\ phase' = phase
    BY WriteLookup
  <2> QED BY <2>1, WriteLookup DEF Write, Running
<1>2. /\ ShownAnswer(k) = Answer(Lookup(k))
      /\ ShownAnswer(k)' = Answer(Lookup(k)')
  BY <1>1 DEF ShownAnswer
<1>3. CASE Written(data, k) = {}
  <2>1. DOMAIN data = 1..Len(data) /\ Len(data) \in 0..Len(data)
    OBVIOUS
  <2>2. Newest(data, DOMAIN data, k) = Absent
    BY <1>3, <2>1, WrittenNewest
  <2>3. Lookup(k)' = Lookup(k)
    BY <1>1, <2>2, OverAssociative
  <2> QED BY <1>1, <1>2, <1>3, <2>3 DEF KeyUnchanged, AfterCrash
<1>4. CASE Written(data, k) # {} /\ Direct(data)
  BY <1>1, <1>4 DEF KeyWritten, AfterCrash
<1>5. CASE Written(data, k) # {} /\ ~Direct(data)
  BY <1>1, <1>2, <1>5 DEF KeyWritten, AfterCrash
<1> QED BY <1>3, <1>4, <1>5

LEMMA FlushContract ==
    ASSUME RecoveryInv, WALFlush, NEW k \in Key
    PROVE  KeyUnchanged(k) \/ KeySynced(k)
<1>1. /\ Running /\ Running'
      /\ doubt' = doubt /\ older'[k] = {}
  BY DEF WALFlush, Running
<1>2. Lookup(k)' = Lookup(k)
  BY <1>1, KeyFlush
<1>3. doubt[k] = {} \/ older[k] = {}
  BY DEF RecoveryInv, Uncertain
<1>4. ShownAnswer(k)' = ShownAnswer(k)
  BY <1>1, <1>2 DEF ShownAnswer
<1> QED BY <1>1, <1>3, <1>4 DEF KeyUnchanged, KeySynced, AfterCrash

LEMMA FailedContract ==
    ASSUME RecoveryInv, FailedWrites, NEW k \in Key
    PROVE  KeyRefused(k)
<1>1. PICK data \in Seq(Layer) : WriteFails(data)
  BY WritesData
<1>2. /\ Running /\ Lookup(k)' = Lookup(k)
      /\ doubt[k] \subseteq doubt'[k] /\ older'[k] = older[k]
  BY <1>1, KeyWriteFails
<1>3. Running'
  BY <1>1, <1>2 DEF WriteFails, Running
<1>4. ShownAnswer(k)' = ShownAnswer(k)
  BY <1>2, <1>3 DEF ShownAnswer
<1> QED BY <1>2, <1>4 DEF KeyRefused, AfterCrash

LEMMA SilentContract ==
    ASSUME PrunesAndReplays, RecoveryInv, Silent \/ UNCHANGED vars, NEW k \in Key
    PROVE  KeyUnchanged(k)
<1>1. CASE Silent
  <2>1. /\ Running /\ Running'
        /\ Answer(Lookup(k)') = Answer(Lookup(k))
        /\ doubt' = doubt /\ older' = older
    BY <1>1, SilentKey, SilentRuns
  <2>2. ShownAnswer(k)' = ShownAnswer(k)
    BY <2>1 DEF ShownAnswer
  <2> QED BY <2>1, <2>2 DEF KeyUnchanged, AfterCrash
<1>2. CASE UNCHANGED vars
  <2>1. /\ UNCHANGED <<segments, live, files, onDisk, manifest, phase>>
        /\ UNCHANGED <<mem, immutables, sstables, doubt, older>>
    BY <1>2 DEF vars, fileVars, memVars, tabVars, history
  <2>2. Lookup(k)' = Lookup(k)
    BY <2>1 DEF Lookup, InMemory, Frozen, OnTables, Tables
  <2>3. Recovered(k)' = Recovered(k)
    BY <2>1, LoadedSame DEF Recovered, Replayed
  <2>4. ShownAnswer(k)' = ShownAnswer(k)
    BY <2>1, <2>2, <2>3 DEF ShownAnswer, Running
  <2> QED BY <2>1, <2>4 DEF KeyUnchanged, AfterCrash
<1> QED BY <1>1, <1>2

LEMMA RecoverContract ==
    ASSUME RecoveryInv, TypeInv', ReLoad \/ CloseEnd \/ Crash, NEW k \in Key
    PROVE  KeyRecovered(k)
<1>1. doubt'[k] = {} /\ older'[k] = {} /\ Running
  BY KeyReLoad, KeyClose, KeyCrash
<1>2. AfterCrash(k) = Allowed(k)
  BY <1>1, AllowedIsAfterCrash
<1>3. ShownAnswer(k)' \in Allowed(k)
  <2>1. CASE ReLoad
    BY <2>1, KeyReLoad DEF ShownAnswer
  <2>2. CASE CloseEnd \/ Crash
    BY <2>2, KeyClose, KeyCrash DEF ShownAnswer
  <2> QED BY <2>1, <2>2
<1> QED BY <1>1, <1>2, <1>3 DEF KeyRecovered, AfterCrash

LEMMA OpenContract ==
    ASSUME RecoveryInv, TypeInv', Open, NEW k \in Key
    PROVE  KeyUnchanged(k)
<1>1. /\ ~Running /\ Running'
      /\ Lookup(k)' = Recovered(k)
      /\ doubt' = doubt /\ older' = older
  BY KeyOpen
<1>2. ShownAnswer(k)' = ShownAnswer(k)
  BY <1>1 DEF ShownAnswer
<1> QED BY <1>1, <1>2 DEF KeyUnchanged, AfterCrash

(* The next-state relation of ContractSpec.                                *)
CountedNext == \/ Writes /\ acks' = 1 - acks
               \/ Internal /\ UNCHANGED acks

LEMMA ContractInit == Init /\ acks = 0 => Contract!Init
<1> SUFFICES ASSUME Init, acks = 0 PROVE Contract!Init
  OBVIOUS
<1>1. ASSUME NEW k \in Key
      PROVE  ShownAnswer(k) = Absent /\ older[k] = {} /\ doubt[k] = {}
  <2>1. RecoveryInv /\ Running /\ older[k] = {} /\ doubt[k] = {}
    BY RecoveryInvInit DEF Init, Running
  <2>2. InMemory(0, k) = Absent
    <3>1. mem[k] = Absent /\ {i \in DOMAIN immutables : i > 0} = {}
      BY DEF Init, EmptyLayer
    <3> QED BY <3>1, NewestNone, OverAssociative DEF InMemory
  <2>3. OnTables(sstables, k) = Absent
    <3>1. DOMAIN sstables = {}
      BY DEF Init
    <3> QED BY <3>1, NewestNone DEF OnTables
  <2>4. Lookup(k) = Absent
    BY <2>2, <2>3, OverAssociative DEF Lookup
  <2>5. Answer(Absent) = Absent
    BY DEF Answer
  <2> QED BY <2>1, <2>4, <2>5 DEF ShownAnswer
<1>2. [k \in Key |-> ShownAnswer(k)] = [k \in Key |-> Absent]
  BY <1>1
<1>3. [k \in Key |-> {ShownAnswer(k)} \cup older[k] \cup {Answer(e) : e \in doubt[k]}]
        = [k \in Key |-> {Absent}]
  BY <1>1
<1> QED BY <1>2, <1>3 DEF Contract!Init

LEMMA ContractStep ==
    ASSUME PrunesAndReplays, RecoveryInv, RecoveryInv', ShownTypes',
           [CountedNext]_<<vars, acks>>
    PROVE  [Contract!Next]_(Contract!vars)
<1> DEFINE kv == [k \in Key |-> ShownAnswer(k)]
           maybe == [k \in Key |-> {ShownAnswer(k)} \cup older[k]
                                      \cup {Answer(e) : e \in doubt[k]}]
<1>1. TypeInv'
  BY DEF RecoveryInv, ControlInv
<1>2. \A k \in Key : /\ kv[k] = ShownAnswer(k) /\ maybe[k] = AfterCrash(k)
                     /\ kv'[k] = ShownAnswer(k)' /\ maybe'[k] = AfterCrash(k)'
  BY DEF AfterCrash
<1>3. kv' \in [Key -> Answers] /\ maybe' \in [Key -> SUBSET Answers]
  BY DEF ShownTypes, AfterCrash
<1>4. Contract!Answers = Answers
  BY DEF Contract!Answers, Answers
<1>5. CASE Writes /\ acks' = 1 - acks
  <2>1. PICK data \in Seq(Layer) : Write(data)
    BY <1>5, WritesData
  <2>2. \A k \in Key : KeyUnchanged(k) \/ KeyWritten(k, Direct(data))
    BY <2>1, WritesContract
  <2>3. PICK durable \in BOOLEAN : durable = Direct(data)
    BY DEF Direct
  <2>4. SyncPolicy = "SyncEveryWrite" => durable
    BY <2>3 DEF Direct
  <2>5. Contract!Write
    <3>1. \A k \in Key : Contract!Untouched(k) \/ Contract!Written(k, durable)
      BY <1>2, <2>2, <2>3 DEF Contract!Untouched, Contract!Written, KeyUnchanged, KeyWritten
    <3> QED BY <1>5, <2>4, <3>1 DEF Contract!Write
  <2> QED BY <1>3, <1>4, <2>5 DEF Contract!Next
<1>6. CASE FailedWrites /\ UNCHANGED acks
  <2>1. Contract!RefusedWrite
    BY <1>2, <1>6, FailedContract DEF Contract!RefusedWrite, KeyRefused
  <2> QED BY <1>3, <1>4, <2>1 DEF Contract!Next
<1>7. CASE WALFlush /\ UNCHANGED acks
  <2>1. Contract!Sync
    BY <1>2, <1>7, FlushContract
       DEF Contract!Sync, Contract!Untouched, KeyUnchanged, KeySynced
  <2> QED BY <1>3, <1>4, <2>1 DEF Contract!Next
<1>8. CASE (ReLoad \/ CloseEnd \/ Crash) /\ UNCHANGED acks
  <2>1. Contract!Recover
    BY <1>1, <1>2, <1>8, RecoverContract DEF Contract!Recover, KeyRecovered
  <2> QED BY <1>3, <1>4, <2>1 DEF Contract!Next
<1>9. CASE (Silent \/ Open \/ UNCHANGED vars) /\ UNCHANGED acks
  <2>1. \A k \in Key : KeyUnchanged(k)
    BY <1>1, <1>9, SilentContract, OpenContract
  <2>2. kv' = kv /\ maybe' = maybe
    BY <2>1 DEF KeyUnchanged, AfterCrash
  <2> QED BY <1>9, <2>2 DEF Contract!vars
<1>10. \/ Writes /\ acks' = 1 - acks
       \/ /\ \/ FailedWrites \/ WALFlush \/ ReLoad \/ CloseEnd \/ Crash
             \/ Silent \/ Open \/ UNCHANGED vars
          /\ UNCHANGED acks
  BY DEF CountedNext, Internal, Silent, Bookkeeping, FileSteps, ReLoadFails, PrunesAndReplays
<1> QED BY <1>5, <1>6, <1>7, <1>8, <1>9, <1>10

(* SamStore implements DurableKV.  Every step of the store is, to a caller *)
(* of Get, a write, a refused write, a sync, a recovery or no step at all: *)
(* an acknowledged write of strict mode survives every crash, and one that *)
(* is only buffered may give way to an earlier answer of its key.          *)
THEOREM ContractKept ==
    ASSUME PrunesAndReplays
    PROVE  ContractSpec => KeepsContract
<1>1. ContractSpec => Init /\ acks = 0 /\ [][CountedNext]_<<vars, acks>>
  BY PTL DEF ContractSpec, CountedNext
<1>2. [CountedNext]_<<vars, acks>> => [Next]_vars
  BY DEF CountedNext, Next
<1>3. RecoveryInv => ShownTypes
  BY ShownAreAnswers DEF RecoveryInv, ControlInv
<1>4. RecoveryInv /\ RecoveryInv' /\ ShownTypes' /\ [CountedNext]_<<vars, acks>>
        => [Contract!Next]_(Contract!vars)
  BY ContractStep
<1> QED BY <1>1, <1>2, <1>3, <1>4, RecoveryInvInit, RecoveryInvStep, ContractInit, PTL
        DEF KeepsContract, Contract!Spec
=============================================================================
