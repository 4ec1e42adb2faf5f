--------------------------- MODULE SamStoreProofs ---------------------------
(***************************************************************************)
(* Theorems of SamStore, for every set of keys and values, every buffer,   *)
(* batch, segment and table bound, and every set of faults: the types, and *)
(* the control invariants.  A failing prune and a failing ReLoad, which    *)
(* spoil the answers, never spoil the file IDs, the Manifest, the WAL      *)
(* cutoffs or the sticky error.                                            *)
(***************************************************************************)
EXTENDS SamStore, LayersTheorems

-----------------------------------------------------------------------------
(* Types.                                                                  *)

(* Before the first Manifest at most the file of the first flush is there. *)
FirstFlush ==
    ~manifest.exists =>
        /\ manifest.next = 1
        /\ nextSSTableID = 1
        /\ sstables = <<>>
        /\ onDisk \subseteq {1}

(* A flush in progress still has its immutable, and the file it, or a      *)
(* compaction, has written carries the next ID.  No operation outlives the *)
(* process.                                                                *)
FlushInProgress ==
    /\ at \in {"flush", "written"} => Running /\ immutables # <<>>
    /\ at \in {"written", "compacted"} => Running /\ nextSSTableID \in onDisk

TypeInv == TypeOK /\ FirstFlush /\ FlushInProgress

LEMMA SegmentIndices ==
    ASSUME NEW S \in SUBSET SegmentID
    PROVE  S \in Indices
<1>1. SegmentID \in Indices
  BY IntervalIndices, SamStoreAssumption DEF SegmentID
<1> QED BY <1>1, SubsetIndices

LEMMA TableIndices ==
    ASSUME NEW S \in SUBSET TableID
    PROVE  S \in Indices
<1>1. TableID \in Indices
  BY IntervalIndices, SamStoreAssumption DEF TableID
<1> QED BY <1>1, SubsetIndices

LEMMA ListIndices ==
    ASSUME NEW T, NEW q \in Seq(T), NEW S \in SUBSET DOMAIN q
    PROVE  S \in Indices
<1>1. DOMAIN q = 1..Len(q) /\ Len(q) \in Nat
  OBVIOUS
<1>2. DOMAIN q \in Indices
  BY <1>1, IntervalIndices
<1> QED BY <1>2, SubsetIndices

(* Merging some positions of a list of layers gives a layer.               *)
LEMMA ListMergeType ==
    ASSUME NEW q \in Seq(Layer), NEW S \in SUBSET DOMAIN q
    PROVE  Merge(q, S) \in Layer
<1>1. S \in Indices
  BY ListIndices
<1>2. \A i \in S : q[i] \in Layer
  OBVIOUS
<1> QED BY <1>1, <1>2, MergeType

LEMMA SegmentMergeType ==
    ASSUME TypeOK, NEW S \in SUBSET SegmentID
    PROVE  Merge(segments, S) \in Layer
<1>1. S \in Indices
  BY SegmentIndices
<1>2. \A i \in S : segments[i] \in Layer
  BY DEF TypeOK
<1> QED BY <1>1, <1>2, MergeType

(* A write to the log keeps the segments, and the active one, in bounds.   *)
LEMMA PersistType ==
    ASSUME TypeOK, NEW data \in Seq(Layer), NEW n, Persist(data, n)
    PROVE  /\ segments' \in [SegmentID -> Layer]
           /\ live' \in SUBSET SegmentID
           /\ active' \in SegmentID
<1> DEFINE last == IF n < Len(data) THEN n + 1 ELSE n
           I(place, s) == {i \in 1..n : place[i] = s}
<1>1. PICK place \in [1..last -> active..MaxSegment] :
         /\ segments' = [s \in SegmentID |-> Overlay(segments[s], Merge(data, I(place, s)))]
         /\ active' = IF last = 0 THEN active ELSE place[last]
  BY DEF Persist
<1>2. \A s : Merge(data, I(place, s)) \in Layer
  <2>1. \A s : I(place, s) \subseteq DOMAIN data
    BY DEF Persist
  <2> HIDE DEF I
  <2> QED BY <2>1, ListMergeType
<1>3. segments' \in [SegmentID -> Layer]
  <2> HIDE DEF I
  <2> QED BY <1>1, <1>2, OverlayType DEF TypeOK
<1>4. active' \in SegmentID
  <2>1. active \in SegmentID /\ MaxSegment \in Nat
    BY SamStoreAssumption DEF TypeOK
  <2>2. last \in Nat
    BY DEF Persist
  <2>3. CASE last = 0
    BY <1>1, <2>1, <2>3
  <2>4. CASE last # 0
    <3>1. last \in 1..last
      BY <2>2, <2>4
    <3>2. active' \in active..MaxSegment
      BY <1>1, <2>4, <3>1
    <3> QED BY <2>1, <3>2 DEF SegmentID
  <2> QED BY <2>3, <2>4
<1>5. live' \in SUBSET SegmentID
  <2>1. active \in SegmentID /\ live \in SUBSET SegmentID
    BY DEF TypeOK
  <2>2. live' = live \cup active..active'
    BY DEF Persist
  <2>3. active..active' \subseteq SegmentID
    <3>1. /\ active \in Nat /\ active' \in Nat /\ MaxSegment \in Nat
          /\ 1 <= active /\ active' <= MaxSegment
      BY <1>4, <2>1, SamStoreAssumption DEF SegmentID
    <3>2. \A x \in active..active' : x \in 1..MaxSegment
      BY <3>1
    <3> QED BY <3>2 DEF SegmentID
  <2> QED BY <2>1, <2>2, <2>3
<1> QED BY <1>3, <1>4, <1>5

(* What the tables, and the store, answer.                                 *)
LEMMA OnTablesType ==
    ASSUME TypeOK, NEW ids \in Seq(TableID), NEW k \in Key
    PROVE  OnTables(ids, k) \in Entry \cup {Absent}
<1>1. DOMAIN ids \in Indices
  BY ListIndices
<1>2. \A i \in DOMAIN ids : Tables(ids)[i] \in Layer
  BY DEF Tables, TypeOK
<1> QED BY <1>1, <1>2, NewestType DEF OnTables

LEMMA InMemoryType ==
    ASSUME TypeOK, NEW j, NEW k \in Key
    PROVE  InMemory(j, k) \in Entry \cup {Absent}
<1> DEFINE S == {i \in DOMAIN immutables : i > j}
<1>1. S \in Indices
  BY ListIndices DEF TypeOK
<1>2. \A i \in S : Frozen[i] \in Layer
  <2> SUFFICES ASSUME NEW i \in S PROVE Frozen[i] \in Layer
    OBVIOUS
  <2>1. immutables[i] \in Immutables
    BY DEF TypeOK
  <2>2. Frozen[i] = immutables[i].data
    BY DEF Frozen
  <2> QED BY <2>1, <2>2 DEF Immutables
<1>3. Newest(Frozen, S, k) \in Entry \cup {Absent}
  BY <1>1, <1>2, NewestType
<1>4. mem[k] \in Entry \cup {Absent}
  BY DEF TypeOK, Layer
<1> QED BY <1>3, <1>4, OverType DEF InMemory

LEMMA LookupType ==
    ASSUME TypeOK, NEW k \in Key
    PROVE  Lookup(k) \in Entry \cup {Absent}
BY InMemoryType, OnTablesType, OverType DEF Lookup, TypeOK

LEMMA CompactedType ==
    ASSUME TypeOK
    PROVE  Compacted \in Layer
<1>1. \A k \in Key : OnTables(sstables, k) \in Entry \cup {Absent}
  BY OnTablesType DEF TypeOK
<1> QED BY <1>1 DEF Compacted, Layer, Answer, Entry

(* The tables to load are a list of file IDs.  Without a Manifest there is *)
(* at most one file, so the list is empty or has one member.               *)
LEMMA AscendingSmall ==
    ASSUME NEW t
    PROVE  Ascending({}) = <<>> /\ Ascending({t}) = <<t>>
<1>1. Cardinality({}) = 0 /\ Cardinality({t}) = 1
  BY FS_EmptySet, FS_Singleton
<1>2. Ascending({}) \in [1..0 -> {}]
  <2>1. \E q \in [1..0 -> {}] : \A i, j \in DOMAIN q : i < j => q[i] < q[j]
    <3>1. [i \in 1..0 |-> i] \in [1..0 -> {}]
      OBVIOUS
    <3> QED BY <3>1
  <2> QED BY <1>1, <2>1 DEF Ascending
<1>3. Ascending({t}) \in [1..1 -> {t}]
  <2>1. \E q \in [1..1 -> {t}] : \A i, j \in DOMAIN q : i < j => q[i] < q[j]
    <3>1. [i \in 1..1 |-> t] \in [1..1 -> {t}]
      OBVIOUS
    <3>2. \A q \in [1..1 -> {t}] : \A i, j \in DOMAIN q : ~(i < j)
      OBVIOUS
    <3> QED BY <3>1, <3>2
  <2> QED BY <1>1, <2>1 DEF Ascending
<1> QED BY <1>2, <1>3

LEMMA LoadedTablesType ==
    ASSUME TypeInv
    PROVE  LoadedTables \in Seq(TableID)
<1>1. CASE manifest.exists
  BY <1>1 DEF LoadedTables, TypeInv, TypeOK, Manifests
<1>2. CASE ~manifest.exists
  <2>1. onDisk = {} \/ onDisk = {1}
    BY <1>2 DEF TypeInv, FirstFlush
  <2>2. LoadedTables \in {<<>>, <<1>>} /\ (onDisk = {} => LoadedTables = <<>>)
    BY <1>2, <2>1, AscendingSmall DEF LoadedTables
  <2>3. onDisk \in SUBSET TableID
    BY DEF TypeInv, TypeOK
  <2>4. CASE LoadedTables = <<>>
    BY <2>4
  <2>5. CASE LoadedTables = <<1>>
    <3>1. 1 \in TableID
      BY <2>1, <2>2, <2>3, <2>5
    <3> QED BY <2>5, <3>1
  <2> QED BY <2>2, <2>4, <2>5
<1> QED BY <1>1, <1>2

LEMMA TypeInvInit == Init => TypeInv
<1> SUFFICES ASSUME Init PROVE TypeInv
  OBVIOUS
<1>1. 1 \in SegmentID /\ 1 \in 1..(MaxTable + 1) /\ 0 \in 0..MaxSegment
  BY SamStoreAssumption DEF SegmentID
<1>2. manifest \in Manifests
  BY <1>1 DEF Init, Manifests
<1>3. segments \in [SegmentID -> Layer] /\ files \in [TableID -> Layer]
      /\ mem \in Layer
  BY EmptyLayerType DEF Init
<1>4. buffer \in Seq(Layer) /\ immutables \in Seq(Immutables)
      /\ sstables \in Seq(TableID)
  BY DEF Init
<1>5. doubt \in [Key -> SUBSET Entry] /\ older \in [Key -> SUBSET Answers]
  BY DEF Init
<1>6. TypeOK
  BY <1>1, <1>2, <1>3, <1>4, <1>5 DEF Init, TypeOK
<1> QED BY <1>6 DEF Init, TypeInv, FirstFlush, FlushInProgress

(* The records of a call form a list of layers.                            *)
LEMMA RecordsType ==
    /\ \A k \in Key, e \in Entry : <<Record(k, e)>> \in Seq(Layer)
    /\ \A batch \in Batches :
          [i \in DOMAIN batch |-> Record(batch[i][1], batch[i][2])] \in Seq(Layer)
<1>1. ASSUME NEW k \in Key, NEW e \in Entry
      PROVE  <<Record(k, e)>> \in Seq(Layer)
  <2>1. Record(k, e) \in Layer
    BY RecordType
  <2> QED BY <2>1
<1>2. ASSUME NEW batch \in Batches
      PROVE  [i \in DOMAIN batch |-> Record(batch[i][1], batch[i][2])] \in Seq(Layer)
  <2>1. PICK n \in 2..MaxBatch : batch \in [1..n -> Key \X Entry]
    BY DEF Batches
  <2>2. \A i \in 1..n : Record(batch[i][1], batch[i][2]) \in Layer
    BY <2>1, RecordType
  <2>3. n \in Nat /\ DOMAIN batch = 1..n
    BY <2>1, SamStoreAssumption
  <2> QED BY <2>2, <2>3
<1> QED BY <1>1, <1>2

LEMMA WrittenType ==
    ASSUME NEW data \in Seq(Layer), NEW k \in Key
    PROVE  Written(data, k) \subseteq Entry
BY DEF Written, Layer

LEMMA AppendLogType ==
    ASSUME TypeOK, NEW data \in Seq(Layer), AppendLog(data)
    PROVE  /\ segments' \in [SegmentID -> Layer]
           /\ live' \in SUBSET SegmentID
           /\ active' \in SegmentID
           /\ buffer' \in Seq(Layer)
           /\ flushErr' = flushErr
<1>1. CASE Direct(data)
  <2>1. Persist(data, Len(data))
    BY <1>1 DEF AppendLog
  <2>2. buffer' = buffer /\ flushErr' = flushErr
    BY <1>1 DEF AppendLog
  <2> QED BY <2>1, <2>2, PersistType DEF TypeOK
<1>2. CASE ~Direct(data)
  <2>1. buffer' = buffer \o data
    BY <1>2 DEF AppendLog
  <2>2. buffer' \in Seq(Layer)
    BY <2>1 DEF TypeOK
  <2> QED BY <1>2, <2>2 DEF AppendLog, TypeOK
<1> QED BY <1>1, <1>2

(* Put, Delete and WriteBatch.                                             *)
LEMMA WriteKeepsTypes ==
    ASSUME TypeInv, NEW data \in Seq(Layer), Write(data)
    PROVE  TypeInv'
<1>1. /\ segments' \in [SegmentID -> Layer]
      /\ live' \in SUBSET SegmentID
      /\ active' \in SegmentID
      /\ buffer' \in Seq(Layer)
      /\ flushErr' = flushErr
  BY AppendLogType DEF TypeInv, Write
<1>2. mem' \in Layer
  BY ListMergeType, OverlayType DEF TypeInv, TypeOK, Write
<1>3. doubt' \in [Key -> SUBSET Entry]
  BY DEF TypeInv, TypeOK, Write
<1>4. older' \in [Key -> SUBSET Answers]
  <2> SUFFICES ASSUME NEW k \in Key
               PROVE  older[k] \cup {Answer(Lookup(k))}
                        \cup {Answer(e) : e \in doubt[k] \cup Written(data, k)}
                          \subseteq Answers
    BY DEF TypeInv, TypeOK, Write
  <2>1. Answer(Lookup(k)) \in Answers
    BY LookupType, AnswerType DEF TypeInv
  <2>2. \A e \in doubt[k] \cup Written(data, k) : Answer(e) \in Answers
    BY WrittenType, AnswerType DEF TypeInv, TypeOK
  <2> QED BY <2>1, <2>2 DEF TypeInv, TypeOK
<1>5. TypeOK'
  BY <1>1, <1>2, <1>3, <1>4 DEF TypeInv, TypeOK, Write, tabVars
<1> QED BY <1>5 DEF TypeInv, FirstFlush, FlushInProgress, Running, Write,
                    tabVars

LEMMA WriteFailsKeepsTypes ==
    ASSUME TypeInv, NEW data \in Seq(Layer), WriteFails(data)
    PROVE  TypeInv'
<1>1. PICK n \in 0..Len(data) :
          /\ Persist(data, n)
          /\ doubt' = [k \in Key |->
                doubt[k] \cup Written(SubSeq(data, 1, n), k)]
  BY DEF WriteFails
<1>2. /\ segments' \in [SegmentID -> Layer]
      /\ live' \in SUBSET SegmentID
      /\ active' \in SegmentID
  BY <1>1, PersistType DEF TypeInv
<1>3. SubSeq(data, 1, n) \in Seq(Layer)
  OBVIOUS
<1>4. doubt' \in [Key -> SUBSET Entry]
  BY <1>1, <1>3, WrittenType DEF TypeInv, TypeOK
<1>5. TypeOK'
  BY <1>2, <1>4 DEF TypeInv, TypeOK, WriteFails, memVars, tabVars, ctlVars
<1> QED BY <1>5 DEF TypeInv, FirstFlush, FlushInProgress, Running, WriteFails, memVars,
                    tabVars, ctlVars

LEMMA FreezeKeepsTypes ==
    ASSUME TypeInv, Freeze
    PROVE  TypeInv'
<1>1. CASE mem = EmptyLayer
  BY <1>1 DEF Freeze, TypeInv, TypeOK, FirstFlush, FlushInProgress, Running,
              tabVars, history
<1>2. CASE mem # EmptyLayer
  <2>1. Sealed \in 0..MaxSegment
    BY SamStoreAssumption DEF Sealed, TypeInv, TypeOK, SegmentID
  <2>2. [data |-> mem, cutoff |-> Sealed] \in Immutables
    BY <2>1 DEF Immutables, TypeInv, TypeOK
  <2>3. immutables' \in Seq(Immutables) /\ immutables' # <<>>
    <3>1. immutables' = Append(immutables, [data |-> mem, cutoff |-> Sealed])
      BY <1>2 DEF Freeze
    <3>2. immutables \in Seq(Immutables)
      BY DEF TypeInv, TypeOK
    <3> HIDE DEF Freeze
    <3> QED BY <2>2, <3>1, <3>2
  <2>4. active' \in SegmentID /\ live' \in SUBSET SegmentID
    BY <1>2 DEF Freeze, TypeInv, TypeOK
  <2>5. mem' \in Layer
    BY <1>2, EmptyLayerType DEF Freeze
  <2>6. TypeOK'
    BY <2>3, <2>4, <2>5 DEF Freeze, TypeInv, TypeOK, tabVars, history
  <2> QED BY <2>3, <2>6 DEF Freeze, TypeInv, FirstFlush, FlushInProgress, Running,
                            tabVars
<1> QED BY <1>1, <1>2

LEMMA FlushPublishKeepsTypes ==
    ASSUME TypeInv, FlushPublish
    PROVE  TypeInv'
<1>1. nextSSTableID \in TableID
  BY DEF FlushPublish, TypeInv, TypeOK, FlushInProgress
<1>2. nextSSTableID' \in 1..(MaxTable + 1)
  BY <1>1, SamStoreAssumption DEF FlushPublish, TableID
<1>3. sstables' \in Seq(TableID)
  BY <1>1 DEF FlushPublish, TypeInv, TypeOK
<1>4. manifest' \in Manifests /\ manifest'.exists
  BY <1>2, <1>3 DEF FlushPublish, Manifests
<1>5. immutables # <<>>
  BY DEF FlushPublish, TypeInv, FlushInProgress
<1>6. Head(immutables) \in Immutables /\ immutables' \in Seq(Immutables)
  BY <1>5 DEF FlushPublish, TypeInv, TypeOK
<1>7. covered' \in 0..MaxSegment
  BY <1>6 DEF FlushPublish, Immutables
<1>8. todo' \in SUBSET (SegmentID \cup TableID)
  BY DEF FlushPublish, TypeInv, TypeOK
<1>9. TypeOK'
  BY <1>2, <1>3, <1>4, <1>6, <1>7, <1>8 DEF FlushPublish, TypeInv, TypeOK, walVars
<1> QED BY <1>4, <1>9 DEF FlushPublish, TypeInv, FirstFlush, FlushInProgress, Running

LEMMA CompactPublishKeepsTypes ==
    ASSUME TypeInv, CompactPublish
    PROVE  TypeInv'
<1>2. sstables' \in Seq(TableID) /\ nextSSTableID' \in 1..(MaxTable + 1)
  <2>1. CASE at = "compacted"
    <3>1. nextSSTableID \in TableID
      BY <2>1 DEF TypeInv, TypeOK, FlushInProgress
    <3>2. sstables' = <<nextSSTableID>> /\ nextSSTableID' = nextSSTableID + 1
      BY <2>1 DEF CompactPublish
    <3> QED BY <3>1, <3>2, SamStoreAssumption DEF TableID
  <2>2. CASE at # "compacted"
    BY <2>2 DEF CompactPublish, TypeInv, TypeOK
  <2> QED BY <2>1, <2>2
<1>3. manifest' \in Manifests /\ manifest'.exists
  BY <1>2 DEF CompactPublish, Manifests
<1>4. todo' \in SUBSET (SegmentID \cup TableID)
  BY DEF CompactPublish, TypeInv, TypeOK
<1>5. TypeOK'
  BY <1>2, <1>3, <1>4 DEF CompactPublish, TypeInv, TypeOK, walVars, memVars, history
<1> QED BY <1>3, <1>5 DEF CompactPublish, TypeInv, FirstFlush, FlushInProgress

(* A table that is left, or discarded, under the next ID.                  *)
LEMMA TableLeftTypes ==
    ASSUME TypeInv, NEW layer \in Layer, TableLeft(layer)
    PROVE  /\ files' \in [TableID -> Layer]
           /\ onDisk' \in SUBSET TableID
           /\ leftBehind' \in BOOLEAN
           /\ ~manifest.exists => onDisk' \subseteq {1}
BY DEF TableLeft, TypeInv, TypeOK, FirstFlush

LEMMA DiscardTypes ==
    ASSUME TypeInv, Discard
    PROVE  /\ files' \in [TableID -> Layer]
           /\ onDisk' \in SUBSET TableID
           /\ leftBehind' \in BOOLEAN
           /\ onDisk' \subseteq onDisk
BY EmptyLayerType DEF Discard, TypeInv, TypeOK

LEMMA FlushFailsKeepsTypes ==
    ASSUME TypeInv, FlushFails
    PROVE  TypeInv'
<1>1. /\ files' \in [TableID -> Layer]
      /\ onDisk' \in SUBSET TableID
      /\ leftBehind' \in BOOLEAN
      /\ ~manifest.exists => onDisk' \subseteq {1}
  <2>1. CASE UNCHANGED <<files, onDisk, leftBehind>>
    BY <2>1 DEF TypeInv, TypeOK, FirstFlush
  <2>2. CASE TableLeft(Head(immutables).data)
    <3>1. immutables \in Seq(Immutables) /\ immutables # <<>>
      BY DEF FlushFails, TypeInv, TypeOK, FlushInProgress
    <3>2. Head(immutables) \in Immutables
      BY <3>1
    <3>3. Head(immutables).data \in Layer
      BY <3>2 DEF Immutables
    <3> QED BY <2>2, <3>3, TableLeftTypes
  <2> QED BY <2>1, <2>2 DEF FlushFails
<1>2. TypeOK'
  BY <1>1 DEF FlushFails, TypeInv, TypeOK, walVars, memVars, tabVars
<1> QED BY <1>1, <1>2 DEF FlushFails, TypeInv, FirstFlush, FlushInProgress, tabVars

LEMMA CompactFailsKeepsTypes ==
    ASSUME TypeInv, CompactFails
    PROVE  TypeInv'
<1>1. /\ files' \in [TableID -> Layer]
      /\ onDisk' \in SUBSET TableID
      /\ leftBehind' \in BOOLEAN
  BY CompactedType, TableLeftTypes DEF CompactFails, TypeInv
<1>2. TypeOK'
  BY <1>1 DEF CompactFails, TypeInv, TypeOK, walVars, memVars, tabVars, ctlVars
<1>3. manifest.exists /\ at' = "idle"
  BY DEF CompactFails, CompactBegin, TypeInv, FirstFlush, ctlVars
<1> QED BY <1>2, <1>3 DEF CompactFails, TypeInv, FirstFlush, FlushInProgress

LEMMA AbortKeepsTypes ==
    ASSUME TypeInv, FlushPublishFails \/ CompactAborts
    PROVE  TypeInv'
<1>1. /\ UNCHANGED <<segments, live, manifest, phase, walVars, memVars, tabVars>>
      /\ UNCHANGED <<backgroundErr, lock, todo, covered, doubt, older>>
      /\ at' = "idle"
  BY DEF FlushPublishFails, CompactAborts
<1>2. /\ files' \in [TableID -> Layer]
      /\ onDisk' \in SUBSET TableID
      /\ leftBehind' \in BOOLEAN
      /\ onDisk' \subseteq onDisk
  <2>1. Discard \/ UNCHANGED <<files, onDisk, leftBehind>>
    BY DEF FlushPublishFails, CompactAborts
  <2> QED BY <2>1, DiscardTypes DEF TypeInv, TypeOK
<1>3. TypeOK'
  BY <1>1, <1>2 DEF TypeInv, TypeOK, walVars, memVars, tabVars
<1> QED BY <1>1, <1>2, <1>3 DEF TypeInv, FirstFlush, FlushInProgress, tabVars

(* After Close or a crash, memory is empty.                                *)
LEMMA StopKeepsTypes ==
    ASSUME TypeInv, Stop,
           segments' \in [SegmentID -> Layer], live' \in SUBSET SegmentID,
           active' \in SegmentID
    PROVE  TypeInv'
<1>1. mem' \in Layer /\ nextSSTableID' \in 1..(MaxTable + 1) /\ covered' \in 0..MaxSegment
  BY EmptyLayerType, SamStoreAssumption DEF Stop
<1>2. /\ buffer' \in Seq(Layer) /\ immutables' \in Seq(Immutables)
      /\ sstables' \in Seq(TableID)
      /\ doubt' \in [Key -> SUBSET Entry] /\ older' \in [Key -> SUBSET Answers]
      /\ todo' \in SUBSET (SegmentID \cup TableID)
  BY DEF Stop
<1>3. TypeOK'
  BY <1>1, <1>2 DEF Stop, TypeInv, TypeOK
<1> QED BY <1>3 DEF Stop, TypeInv, FirstFlush, FlushInProgress

LEMMA OpenKeepsTypes ==
    ASSUME TypeInv, Open
    PROVE  TypeInv'
<1>1. active' \in SegmentID
  <2>1. CASE live = {}
    BY <2>1, SamStoreAssumption DEF Open, SegmentID
  <2>2. CASE live # {}
    <3>1. live \in Indices /\ live \subseteq SegmentID
      BY SegmentIndices DEF TypeInv, TypeOK
    <3> QED BY <2>2, <3>1, MaxIsGreatest DEF Open
  <2> QED BY <2>1, <2>2
<1>2. HighestTable \in 0..MaxTable
  <2>1. CASE onDisk = {}
    BY <2>1, SamStoreAssumption DEF HighestTable
  <2>2. CASE onDisk # {}
    <3>1. onDisk \in Indices /\ onDisk \subseteq TableID
      BY TableIndices DEF TypeInv, TypeOK
    <3>2. Max(onDisk) \in TableID
      BY <2>2, <3>1, MaxIsGreatest
    <3> QED BY <2>2, <3>2 DEF HighestTable, TableID
  <2> QED BY <2>1, <2>2
<1>3. manifest.next \in 1..(MaxTable + 1)
  BY DEF TypeInv, TypeOK, Manifests
<1>4. nextSSTableID' \in 1..(MaxTable + 1)
  BY <1>2, <1>3, SamStoreAssumption DEF Open
<1>5. LoadedTables \in Seq(TableID)
  BY LoadedTablesType
<1>6. manifest' \in Manifests
  BY <1>4, <1>5 DEF Open, Manifests, TypeInv, TypeOK
<1>7. mem' \in Layer
  BY SegmentMergeType DEF Open, TypeInv, TypeOK
<1>8. TypeOK'
  BY <1>1, <1>4, <1>5, <1>6, <1>7 DEF Open, TypeInv, TypeOK, history
<1>9. FirstFlush'
  <2> SUFFICES ASSUME ~manifest'.exists PROVE FirstFlush'
    BY DEF FirstFlush
  <2>1. ~manifest.exists /\ onDisk = {} /\ manifest' = manifest
    BY DEF Open
  <2>2. LoadedTables = <<>>
    BY <2>1, AscendingSmall DEF LoadedTables
  <2>3. nextSSTableID' = 1
    BY <2>1, <1>2 DEF Open, HighestTable, TypeInv, FirstFlush
  <2> QED BY <2>1, <2>2, <2>3 DEF Open, TypeInv, FirstFlush
<1>10. at' \notin {"flush", "written", "compacted"}
  BY DEF TypeInv, FlushInProgress, Running, Open
<1> QED BY <1>8, <1>9, <1>10 DEF TypeInv, FlushInProgress

LEMMA TypeInvStep == TypeInv /\ [Next]_vars => TypeInv'
<1> SUFFICES ASSUME TypeInv, [Next]_vars PROVE TypeInv'
  OBVIOUS
<1>1. CASE Writes
  <2>1. ASSUME NEW k \in Key, NEW v \in Value, Put(k, v) PROVE TypeInv'
    <3>1. <<Record(k, v)>> \in Seq(Layer)
      BY RecordsType DEF Entry
    <3> QED BY <2>1, <3>1, WriteKeepsTypes DEF Put
  <2>2. ASSUME NEW k \in Key, Delete(k) PROVE TypeInv'
    <3>1. <<Record(k, Tombstone)>> \in Seq(Layer)
      BY RecordsType DEF Entry
    <3> QED BY <2>2, <3>1, WriteKeepsTypes DEF Delete
  <2>3. ASSUME NEW batch \in Batches, WriteBatch(batch) PROVE TypeInv'
    BY <2>3, RecordsType, WriteKeepsTypes DEF WriteBatch
  <2> QED BY <1>1, <2>1, <2>2, <2>3 DEF Writes
<1>2. CASE FailedWrites
  <2>1. ASSUME NEW k \in Key, NEW e \in Entry, WriteFails(<<Record(k, e)>>)
        PROVE  TypeInv'
    BY <2>1, RecordsType, WriteFailsKeepsTypes
  <2>2. ASSUME NEW batch \in Batches,
               WriteFails([i \in DOMAIN batch |-> Record(batch[i][1], batch[i][2])])
        PROVE  TypeInv'
    BY <2>2, RecordsType, WriteFailsKeepsTypes
  <2> QED BY <1>2, <2>1, <2>2 DEF FailedWrites
<1> USE DEF TypeInv, TypeOK, FirstFlush, FlushInProgress, Running, fileVars, walVars, memVars,
            tabVars, ctlVars, history
<1>3. CASE WALFlush
  <2>1. Persist(buffer, Len(buffer))
    BY <1>3 DEF WALFlush
  <2>2. /\ segments' \in [SegmentID -> Layer]
        /\ live' \in SUBSET SegmentID
        /\ active' \in SegmentID
    BY <2>1, PersistType
  <2>3. older' \in [Key -> SUBSET Answers] /\ buffer' \in Seq(Layer)
    BY <1>3 DEF WALFlush
  <2> QED BY <1>3, <2>2, <2>3 DEF WALFlush
<1>4. CASE WALFlushFails
  <2>1. PICK n : Persist(buffer, n)
    BY <1>4 DEF WALFlushFails
  <2>2. /\ segments' \in [SegmentID -> Layer]
        /\ live' \in SUBSET SegmentID
        /\ active' \in SegmentID
    BY <2>1, PersistType
  <2> QED BY <1>4, <2>2 DEF WALFlushFails, Restored
<1>5. CASE CheckpointBegin
  BY <1>5 DEF CheckpointBegin
<1>6. CASE Freeze
  BY <1>6, FreezeKeepsTypes
<1>7. CASE FreezeFails
  BY <1>7 DEF FreezeFails
<1>8. CASE SetBackgroundError
  BY <1>8 DEF SetBackgroundError
<1>9. CASE ClearBackgroundError
  BY <1>9 DEF ClearBackgroundError
<1>10. CASE FlushBegin
  BY <1>10 DEF FlushBegin
<1>11. CASE FlushFails
  BY <1>11, FlushFailsKeepsTypes
<1>12. CASE FlushWriteTable
  <2>1. nextSSTableID \in TableID /\ Head(immutables).data \in Layer
    <3>1. Head(immutables) \in Immutables
      BY <1>12 DEF FlushWriteTable
    <3> QED BY <1>12, <3>1 DEF FlushWriteTable, Immutables
  <2>2. files' \in [TableID -> Layer] /\ onDisk' \in SUBSET TableID
    BY <1>12, <2>1 DEF FlushWriteTable
  <2>3. ~manifest.exists => onDisk' \subseteq {1}
    BY <1>12 DEF FlushWriteTable
  <2> QED BY <1>12, <2>2, <2>3 DEF FlushWriteTable
<1>13. CASE FlushPublish
  BY <1>13, FlushPublishKeepsTypes
<1>14. CASE FlushPublishFails
  BY <1>14, AbortKeepsTypes
<1>15. CASE PruneSegment
  BY <1>15, EmptyLayerType DEF PruneSegment
<1>16. CASE PruneFails
  BY <1>16 DEF PruneFails
<1>17. CASE PruneDone
  BY <1>17 DEF PruneDone
<1>18. CASE CompactWrite
  BY <1>18, CompactedType DEF CompactWrite, CompactBegin
<1>19. CASE CompactPublish
  BY <1>19, CompactPublishKeepsTypes
<1>20. CASE CompactAborts
  BY <1>20, AbortKeepsTypes
<1>21. CASE RemoveTable
  <2>1. files' \in [TableID -> Layer] /\ onDisk' \subseteq onDisk /\ todo' \subseteq todo
    BY <1>21, EmptyLayerType DEF RemoveTable
  <2> QED BY <1>21, <2>1 DEF RemoveTable
<1>22. CASE CompactDone
  BY <1>22 DEF CompactDone
<1>23. CASE ReLoad
  <2>1. mem' \in Layer
    BY <1>23, SegmentMergeType DEF ReLoad
  <2> QED BY <1>23, <2>1, SamStoreAssumption DEF ReLoad
<1>24. CASE ReLoadFails
  <2>1. PICK c \in live : mem' = Merge(segments, {s \in live : s < c})
    BY <1>24 DEF ReLoadFails
  <2>2. mem' \in Layer
    BY <2>1, SegmentMergeType
  <2> QED BY <1>24, <2>2, SamStoreAssumption DEF ReLoadFails
<1>25. CASE CloseBegin
  BY <1>25 DEF CloseBegin
<1>26. CASE CloseEnd
  BY <1>26, StopKeepsTypes DEF CloseEnd
<1>27. CASE Crash
  <2>1. PICK n : Persist(buffer, n)
    BY <1>27 DEF Crash
  <2>2. /\ segments' \in [SegmentID -> Layer]
        /\ live' \in SUBSET SegmentID
        /\ active' \in SegmentID
    BY <2>1, PersistType
  <2> QED BY <1>27, <2>2, StopKeepsTypes DEF Crash
<1>28. CASE Open
  BY <1>28, OpenKeepsTypes
<1>29. CASE UNCHANGED vars
  BY <1>29 DEF vars
<1>30. CASE CompactFails
  BY <1>30, CompactFailsKeepsTypes
<1> QED BY <1>1, <1>2, <1>3, <1>4, <1>5, <1>6, <1>7, <1>8, <1>9, <1>10, <1>11, <1>12, <1>13, <1>14, <1>15, <1>16, <1>17, <1>18, <1>19, <1>20, <1>21, <1>22, <1>23, <1>24, <1>25, <1>26, <1>27, <1>28, <1>29, <1>30
   DEF Next, Internal

(* In every reachable state of the store every variable has its type: IDs  *)
(* never leave their range, and the lists only hold layers and files of    *)
(* the store.                                                              *)
THEOREM TypeCorrect == Spec => []TypeOK
<1>1. TypeInv => TypeOK
  BY DEF TypeInv
<1> QED BY <1>1, TypeInvInit, TypeInvStep, PTL DEF Spec

-----------------------------------------------------------------------------
(* The control invariants, and what makes them inductive.                  *)

(* No operation outlives the process, no lock and no MemTable.             *)
Lifetime ==
    ~Running => /\ lock = "none"
                /\ at = "idle"
                /\ immutables = <<>>
                /\ covered = 0

(* ManifestMatches, without the case that there is no Manifest.            *)
ListsAgree ==
    /\ manifest.exists =>
          \A i \in DOMAIN manifest.tables : manifest.tables[i] \in onDisk
    /\ Running => sstables = IF manifest.exists THEN manifest.tables ELSE <<>>

(* File IDs grow, so a file that is removed because it was not published,  *)
(* or because it has been replaced, is not in the list.                    *)
ListedBelowNext == Running => \A i \in DOMAIN sstables : sstables[i] < nextSSTableID

ReplacedNotListed ==
    at = "cleanup" => \A i \in DOMAIN sstables : sstables[i] \notin todo

TablesInv == ListsAgree /\ ListedBelowNext /\ ReplacedNotListed /\ FreshTableID

ControlInv ==
    TypeInv /\ Lifetime /\ TablesInv /\ CutoffsOrdered /\ StickyErrorHasWork

-----------------------------------------------------------------------------
LEMMA ControlInvInit == Init => ControlInv
<1> SUFFICES ASSUME Init PROVE ControlInv
  OBVIOUS
<1>1. TypeInv
  BY TypeInvInit
<1>2. Lifetime /\ CutoffsOrdered /\ StickyErrorHasWork
  BY DEF Init, Lifetime, CutoffsOrdered, StickyErrorHasWork, Running
<1>3. TablesInv
  BY DEF Init, TablesInv, ListsAgree, ListedBelowNext, ReplacedNotListed,
         FreshTableID
<1> QED BY <1>1, <1>2, <1>3 DEF ControlInv

(* Without a Manifest the files on disk are the ones to load.              *)
LEMMA ListsAgreeMatch ==
    ASSUME TypeInv, ListsAgree
    PROVE  ManifestMatches
<1>1. \A i \in DOMAIN LoadedTables : LoadedTables[i] \in onDisk
  <2>1. CASE manifest.exists
    BY <2>1 DEF ListsAgree, LoadedTables
  <2>2. CASE ~manifest.exists
    <3>1. onDisk = {} \/ onDisk = {1}
      BY <2>2 DEF TypeInv, FirstFlush
    <3>2. LoadedTables = <<>> \/ (LoadedTables = <<1>> /\ onDisk = {1})
      BY <2>2, <3>1, AscendingSmall DEF LoadedTables
    <3> QED BY <3>2
  <2> QED BY <2>1, <2>2
<1> QED BY <1>1 DEF ManifestMatches, ListsAgree

-----------------------------------------------------------------------------
(* What the actions have in common.                                        *)

LEMMA WritesLeaveTables ==
    ASSUME Writes \/ FailedWrites
    PROVE  /\ phase = "open"
           /\ UNCHANGED <<onDisk, manifest, phase, tabVars, at, todo, immutables,
                          covered, flushErr, leftBehind>>
BY DEF Writes, Put, Delete, WriteBatch, Write, AppendLog, FailedWrites,
       WriteFails, Writable, memVars, tabVars, ctlVars

(* An operation that touches neither the files nor the lists.              *)
LEMMA TablesUntouched ==
    ASSUME TablesInv, UNCHANGED <<onDisk, manifest, tabVars, leftBehind>>,
           Running' => Running,
           \/ at' = at /\ todo' = todo
           \/ at' # "cleanup" /\ at \notin {"written", "compacted"}
    PROVE  TablesInv'
<1>1. ListsAgree' /\ ListedBelowNext'
  BY DEF TablesInv, ListsAgree, ListedBelowNext, tabVars
<1>2. ReplacedNotListed'
  BY DEF TablesInv, ReplacedNotListed, tabVars
<1>3. FreshTableID'
  BY DEF TablesInv, FreshTableID, tabVars
<1> QED BY <1>1, <1>2, <1>3 DEF TablesInv

(* No table in the list has the next ID.                                   *)
LEMMA NextNotListed ==
    ASSUME TypeInv, TablesInv, Running, manifest.exists,
           NEW i \in DOMAIN manifest.tables
    PROVE  manifest.tables[i] # nextSSTableID
<1>1. manifest.tables = sstables
  BY DEF TablesInv, ListsAgree
<1>2. sstables[i] < nextSSTableID
  BY <1>1 DEF TablesInv, ListedBelowNext
<1>3. nextSSTableID \in Int
  BY DEF TypeInv, TypeOK
<1> QED BY <1>1, <1>2, <1>3

(* The file under the next ID goes again, or stays behind.                 *)
LEMMA DiscardKeepsTables ==
    ASSUME TypeInv, Lifetime, TablesInv, UNCHANGED <<manifest, phase, tabVars>>,
           Discard, at # "idle", at' = "idle"
    PROVE  TablesInv'
<1>1. Running /\ Running'
  BY DEF Lifetime, Running
<1>2. ListedBelowNext' /\ ReplacedNotListed'
  BY <1>1 DEF TablesInv, ListedBelowNext, ReplacedNotListed, tabVars
<1>3. CASE onDisk' = onDisk \ {nextSSTableID}
  <2>1. ListsAgree'
    BY <1>1, <1>3, NextNotListed DEF TablesInv, ListsAgree, tabVars
  <2>2. FreshTableID'
    BY <1>1, <1>3 DEF TablesInv, FreshTableID, tabVars
  <2> QED BY <1>2, <2>1, <2>2 DEF TablesInv
<1>4. CASE onDisk' = onDisk /\ leftBehind'
  BY <1>1, <1>2, <1>4 DEF TablesInv, ListsAgree, FreshTableID, tabVars
<1> QED BY <1>3, <1>4 DEF Discard

(* A file comes under the next ID and stays.                               *)
LEMMA TableLeftKeepsTables ==
    ASSUME TablesInv, UNCHANGED <<manifest, phase, tabVars>>, NEW layer, TableLeft(layer),
           at' = "idle"
    PROVE  TablesInv'
<1>1. onDisk' = onDisk \cup {nextSSTableID} /\ leftBehind'
  BY DEF TableLeft
<1> QED BY <1>1 DEF TablesInv, ListsAgree, ListedBelowNext, ReplacedNotListed, FreshTableID,
                    Running, tabVars

-----------------------------------------------------------------------------
(* The lists of tables.                                                    *)

(* A table is published under the next ID, which is above all the others.  *)
LEMMA FlushPublishKeepsTables ==
    ASSUME TypeInv, Lifetime, TablesInv, FlushPublish
    PROVE  TablesInv'
<1>1. Running /\ Running'
  BY DEF FlushPublish, TypeInv, FlushInProgress, Running
<1>2. /\ sstables \in Seq(TableID) /\ nextSSTableID \in Nat
      /\ nextSSTableID \in onDisk
  BY DEF FlushPublish, TypeInv, TypeOK, FlushInProgress
<1>3. /\ sstables' = Append(sstables, nextSSTableID)
      /\ nextSSTableID' = nextSSTableID + 1
      /\ onDisk' = onDisk
      /\ manifest'.exists /\ manifest'.tables = sstables'
      /\ at' = "prune"
  BY DEF FlushPublish
<1>4. /\ DOMAIN sstables' = 1..(Len(sstables) + 1)
      /\ sstables'[Len(sstables) + 1] = nextSSTableID
      /\ \A i \in 1..Len(sstables) : sstables'[i] = sstables[i]
  BY <1>2, <1>3
<1>5. \A i \in DOMAIN sstables : sstables[i] \in onDisk /\ sstables[i] < nextSSTableID
  BY <1>1 DEF TablesInv, ListsAgree, ListedBelowNext
<1>6. \A i \in DOMAIN sstables' :
          sstables'[i] = nextSSTableID \/ \E j \in DOMAIN sstables : sstables'[i] = sstables[j]
  <2> SUFFICES ASSUME NEW i \in DOMAIN sstables', i # Len(sstables) + 1
               PROVE  \E j \in DOMAIN sstables : sstables'[i] = sstables[j]
    BY <1>4
  <2>1. i \in 1..Len(sstables) /\ DOMAIN sstables = 1..Len(sstables)
    BY <1>2, <1>4
  <2> QED BY <1>4, <2>1
<1>7. \A j \in DOMAIN sstables : sstables[j] \in Nat
  <2> SUFFICES ASSUME NEW j \in DOMAIN sstables PROVE sstables[j] \in Nat
    OBVIOUS
  <2>1. sstables[j] \in TableID
    BY <1>2
  <2> QED BY <2>1 DEF TableID
<1>8. \A i \in DOMAIN sstables' : sstables'[i] \in onDisk' /\ sstables'[i] < nextSSTableID'
  <2> SUFFICES ASSUME NEW i \in DOMAIN sstables'
               PROVE  sstables'[i] \in onDisk /\ sstables'[i] < nextSSTableID + 1
    BY <1>3
  <2>1. CASE sstables'[i] = nextSSTableID
    BY <1>2, <2>1
  <2>2. ASSUME NEW j \in DOMAIN sstables, sstables'[i] = sstables[j]
        PROVE  sstables'[i] \in onDisk /\ sstables'[i] < nextSSTableID + 1
    <3>1. sstables[j] \in Nat /\ sstables[j] \in onDisk /\ sstables[j] < nextSSTableID
      BY <1>5, <1>7
    <3> QED BY <1>2, <2>2, <3>1
  <2> QED BY <1>6, <2>1, <2>2
<1>9. ListsAgree' /\ ListedBelowNext' /\ ReplacedNotListed'
  BY <1>3, <1>8 DEF ListsAgree, ListedBelowNext, ReplacedNotListed
<1>10. FreshTableID'
  <2>1. onDisk \subseteq Nat
    BY DEF TypeInv, TypeOK, TableID
  <2> QED BY <1>1, <1>2, <1>3, <2>1 DEF TablesInv, FreshTableID
<1> QED BY <1>9, <1>10 DEF TablesInv

LEMMA CompactPublishKeepsTables ==
    ASSUME TypeInv, Lifetime, TablesInv, CompactPublish
    PROVE  TablesInv'
<1>1. Running /\ Running' /\ onDisk' = onDisk /\ at' = "cleanup"
      /\ at \in {"compacted", "emptied"} /\ leftBehind' = leftBehind
      /\ manifest'.exists /\ manifest'.tables = sstables'
      /\ todo' = {sstables[i] : i \in DOMAIN sstables}
  BY DEF CompactPublish, Running, history
<1>2. nextSSTableID \in Nat /\ onDisk \subseteq Nat
  BY DEF TypeInv, TypeOK, TableID
<1>3. \A i \in DOMAIN sstables : sstables[i] < nextSSTableID
  BY <1>1 DEF TablesInv, ListedBelowNext
<1>4. CASE at = "compacted"
  <2>0. nextSSTableID \in onDisk
    BY <1>4 DEF TypeInv, FlushInProgress
  <2>1. sstables' = <<nextSSTableID>> /\ nextSSTableID' = nextSSTableID + 1
    BY <1>4 DEF CompactPublish
  <2>2. ListsAgree' /\ ListedBelowNext'
    BY <1>1, <1>2, <2>0, <2>1 DEF ListsAgree, ListedBelowNext
  <2>3. ReplacedNotListed'
    BY <1>1, <1>2, <1>3, <2>1 DEF ReplacedNotListed
  <2>4. FreshTableID'
    BY <1>1, <1>2, <2>1 DEF TablesInv, FreshTableID
  <2> QED BY <2>2, <2>3, <2>4 DEF TablesInv
<1>5. CASE at = "emptied"
  <2>1. sstables' = <<>> /\ nextSSTableID' = nextSSTableID
    BY <1>5 DEF CompactPublish
  <2> QED BY <1>1, <1>5, <2>1 DEF TablesInv, ListsAgree, ListedBelowNext,
                                  ReplacedNotListed, FreshTableID
<1> QED BY <1>1, <1>4, <1>5

(* A file that is replaced goes.                                           *)
LEMMA RemoveTableKeepsTables ==
    ASSUME TypeInv, Lifetime, TablesInv, RemoveTable
    PROVE  TablesInv'
<1>1. PICK t \in todo :
          /\ todo' = todo \ {t}
          /\ onDisk' = onDisk \ {t} \/ onDisk' = onDisk
  BY DEF RemoveTable
<1>2. /\ Running /\ Running'
      /\ at = "cleanup" /\ at' = at
      /\ UNCHANGED <<manifest, sstables, nextSSTableID, leftBehind>>
  BY DEF RemoveTable, Lifetime, Running, tabVars, history
<1>3. \A i \in DOMAIN sstables : sstables[i] # t
  BY <1>1, <1>2 DEF TablesInv, ReplacedNotListed
<1>4. ListsAgree'
  BY <1>1, <1>2, <1>3 DEF TablesInv, ListsAgree
<1>5. ListedBelowNext' /\ ReplacedNotListed' /\ FreshTableID'
  BY <1>1, <1>2 DEF TablesInv, ListedBelowNext, ReplacedNotListed, FreshTableID
<1> QED BY <1>4, <1>5 DEF TablesInv

(* A restart takes an ID above every file, published or not.               *)
LEMMA OpenKeepsTables ==
    ASSUME TypeInv, Lifetime, TablesInv, Open
    PROVE  TablesInv'
<1>1. /\ onDisk' = onDisk
      /\ sstables' = LoadedTables
      /\ \A i \in DOMAIN LoadedTables : LoadedTables[i] \in onDisk
      /\ at' = "idle"
  BY DEF Open, Lifetime, Running
<1>2. nextSSTableID' = IF HighestTable >= manifest.next
                       THEN HighestTable + 1 ELSE manifest.next
  BY DEF Open
<1>3. \A t \in onDisk : t < nextSSTableID'
  <2> SUFFICES ASSUME NEW t \in onDisk PROVE t < nextSSTableID'
    OBVIOUS
  <2>1. onDisk \in Indices
    BY TableIndices DEF TypeInv, TypeOK
  <2>2. HighestTable \in Nat /\ t <= HighestTable
    BY <2>1, MaxIsGreatest DEF HighestTable
  <2>3. t \in Nat /\ manifest.next \in Nat
    BY DEF TypeInv, TypeOK, TableID, Manifests
  <2> QED BY <1>2, <2>2, <2>3
<1>4. ListsAgree'
  <2>1. CASE manifest.exists
    <3>1. manifest' = manifest /\ LoadedTables = manifest.tables
      BY <2>1 DEF Open, LoadedTables
    <3> QED BY <1>1, <2>1, <3>1 DEF ListsAgree
  <2>2. CASE ~manifest.exists /\ onDisk # {}
    <3>1. manifest'.exists /\ manifest'.tables = LoadedTables
      BY <2>2 DEF Open
    <3> QED BY <1>1, <3>1 DEF ListsAgree
  <2>3. CASE ~manifest.exists /\ onDisk = {}
    <3>1. manifest' = manifest /\ LoadedTables = <<>>
      BY <2>3, AscendingSmall DEF Open, LoadedTables
    <3> QED BY <1>1, <2>3, <3>1 DEF ListsAgree
  <2> QED BY <2>1, <2>2, <2>3
<1>5. ListedBelowNext' /\ ReplacedNotListed' /\ FreshTableID'
  BY <1>1, <1>3 DEF ListedBelowNext, ReplacedNotListed, FreshTableID
<1> QED BY <1>4, <1>5 DEF TablesInv

LEMMA TablesInvStep ==
    ASSUME TypeInv, Lifetime, TablesInv, [Next]_vars
    PROVE  TablesInv'
<1> USE DEF Running, fileVars, memVars, ctlVars, history
<1>1. CASE Writes \/ FailedWrites
  BY <1>1, WritesLeaveTables, TablesUntouched
<1>2. CASE WALFlush \/ WALFlushFails \/ CheckpointBegin \/ Freeze \/ FreezeFails
           \/ SetBackgroundError \/ ClearBackgroundError
  <2>1. UNCHANGED <<onDisk, manifest, phase, tabVars, at, todo, leftBehind>>
    BY <1>2 DEF WALFlush, WALFlushFails, CheckpointBegin, Freeze, FreezeFails,
                SetBackgroundError, ClearBackgroundError
  <2> QED BY <2>1, TablesUntouched
<1>3. CASE FlushBegin \/ PruneSegment \/ PruneFails \/ PruneDone \/ CompactDone
  <2>1. /\ UNCHANGED <<onDisk, manifest, phase, tabVars, leftBehind>>
        /\ at' # "cleanup" /\ at \notin {"written", "compacted"}
    BY <1>3 DEF FlushBegin, PruneSegment, PruneFails, PruneDone, CompactDone
  <2> QED BY <2>1, TablesUntouched
<1>4. CASE ReLoad \/ ReLoadFails \/ CloseBegin
  <2>1. UNCHANGED <<onDisk, manifest, tabVars, at, todo, leftBehind>> /\ phase = "open"
    BY <1>4 DEF ReLoad, ReLoadFails, CloseBegin
  <2> QED BY <2>1, TablesUntouched
<1>5. CASE FlushWriteTable
  BY <1>5 DEF FlushWriteTable, TablesInv, ListsAgree, ListedBelowNext,
              ReplacedNotListed, FreshTableID, tabVars
<1>6. CASE FlushPublish
  BY <1>6, FlushPublishKeepsTables
<1>7. CASE FlushPublishFails
  BY <1>7, DiscardKeepsTables DEF FlushPublishFails
<1>8. CASE CompactWrite
  <2>1. /\ UNCHANGED <<manifest, phase, tabVars, leftBehind>> /\ at = "idle"
        /\ \/ at' = "emptied" /\ onDisk' = onDisk
           \/ at' = "compacted" /\ onDisk' = onDisk \cup {nextSSTableID}
    BY <1>8 DEF CompactWrite, CompactBegin
  <2> QED BY <2>1 DEF TablesInv, ListsAgree, ListedBelowNext, ReplacedNotListed,
                      FreshTableID, tabVars
<1>9. CASE CompactPublish
  BY <1>9, CompactPublishKeepsTables
<1>10. CASE CompactAborts
  <2>1. UNCHANGED <<manifest, phase, tabVars>> /\ at # "idle" /\ at' = "idle"
    BY <1>10 DEF CompactAborts
  <2>2. CASE Discard
    BY <2>1, <2>2, DiscardKeepsTables
  <2>3. CASE at = "emptied" /\ UNCHANGED <<files, onDisk, leftBehind>>
    BY <2>1, <2>3, TablesUntouched
  <2> QED BY <1>10, <2>2, <2>3 DEF CompactAborts
<1>11. CASE RemoveTable
  BY <1>11, RemoveTableKeepsTables
<1>12. CASE CloseEnd \/ Crash
  BY <1>12 DEF CloseEnd, Crash, Stop, TablesInv, ListsAgree, ListedBelowNext,
               ReplacedNotListed, FreshTableID
<1>13. CASE Open
  BY <1>13, OpenKeepsTables
<1>14. CASE UNCHANGED vars
  BY <1>14, TablesUntouched DEF vars
<1>15. CASE FlushFails
  <2>1. UNCHANGED <<manifest, phase, tabVars>> /\ at = "flush" /\ at' = "idle"
    BY <1>15 DEF FlushFails
  <2>2. CASE UNCHANGED <<files, onDisk, leftBehind>>
    BY <2>1, <2>2, TablesUntouched
  <2>3. CASE TableLeft(Head(immutables).data)
    BY <2>1, <2>3, TableLeftKeepsTables
  <2> QED BY <1>15, <2>2, <2>3 DEF FlushFails
<1>16. CASE CompactFails
  <2>1. UNCHANGED <<manifest, phase, tabVars>> /\ at' = "idle"
    BY <1>16 DEF CompactFails, CompactBegin
  <2> QED BY <1>16, <2>1, TableLeftKeepsTables DEF CompactFails
<1> QED BY <1>1, <1>2, <1>3, <1>4, <1>5, <1>6, <1>7, <1>8, <1>9, <1>10, <1>11,
           <1>12, <1>13, <1>14, <1>15, <1>16 DEF Next, Internal

-----------------------------------------------------------------------------
(* The life of the process, the cutoffs and the sticky error.              *)

LEMMA LifetimeStep ==
    ASSUME TypeInv, Lifetime, [Next]_vars
    PROVE  Lifetime'
<1> USE DEF Lifetime, Running, fileVars, memVars, ctlVars, history
<1>1. CASE Writes \/ FailedWrites
  BY <1>1, WritesLeaveTables
<1>2. CASE WALFlush \/ WALFlushFails \/ CheckpointBegin \/ FreezeFails
           \/ SetBackgroundError \/ ClearBackgroundError
  BY <1>2 DEF WALFlush, WALFlushFails, CheckpointBegin, FreezeFails,
              SetBackgroundError, ClearBackgroundError
<1>3. CASE Freeze
  BY <1>3 DEF Freeze
<1>4. CASE FlushBegin \/ FlushFails \/ PruneSegment \/ PruneFails \/ PruneDone
           \/ CompactDone \/ FlushWriteTable \/ FlushPublish \/ FlushPublishFails
           \/ CompactWrite \/ CompactFails \/ CompactPublish \/ CompactAborts
           \/ RemoveTable
  BY <1>4 DEF FlushBegin, FlushFails, PruneSegment, PruneFails, PruneDone,
              CompactDone, FlushWriteTable, FlushPublish, FlushPublishFails,
              CompactBegin, CompactWrite, CompactFails, CompactPublish,
              CompactAborts, RemoveTable
<1>5. CASE ReLoad \/ ReLoadFails \/ CloseBegin \/ CloseEnd \/ Crash \/ Open
  BY <1>5 DEF ReLoad, ReLoadFails, CloseBegin, CloseEnd, Crash, Stop, Open
<1>6. CASE UNCHANGED vars
  BY <1>6 DEF vars
<1> QED BY <1>1, <1>2, <1>3, <1>4, <1>5, <1>6 DEF Next, Internal

(* A step that only appends to the log, or leaves it alone.                *)
LEMMA CutoffsUntouched ==
    ASSUME TypeInv, CutoffsOrdered, UNCHANGED <<immutables, covered>>,
           active' \in Int, active <= active'
    PROVE  CutoffsOrdered'
<1>1. \A i \in DOMAIN immutables : immutables[i].cutoff \in Int
  <2> SUFFICES ASSUME NEW i \in DOMAIN immutables PROVE immutables[i].cutoff \in Int
    OBVIOUS
  <2>1. immutables[i] \in Immutables
    BY DEF TypeInv, TypeOK
  <2> QED BY <2>1 DEF Immutables
<1>2. covered \in Int /\ active \in Int
  BY DEF TypeInv, TypeOK, SegmentID
<1> QED BY <1>1, <1>2 DEF CutoffsOrdered

LEMMA PersistAdvances ==
    ASSUME TypeInv, NEW data, NEW n, Persist(data, n)
    PROVE  active' \in Int /\ active <= active'
<1> DEFINE last == IF n < Len(data) THEN n + 1 ELSE n
<1>1. active \in Int /\ MaxSegment \in Int
  BY SamStoreAssumption DEF TypeInv, TypeOK, SegmentID
<1>2. PICK place \in [1..last -> active..MaxSegment] :
         active' = IF last = 0 THEN active ELSE place[last]
  BY DEF Persist
<1>3. CASE last = 0
  BY <1>1, <1>2, <1>3
<1>4. CASE last # 0
  <2>1. last \in 1..last
    BY <1>4 DEF Persist
  <2>2. active' \in active..MaxSegment
    BY <1>2, <1>4, <2>1
  <2> QED BY <1>1, <2>2
<1> QED BY <1>3, <1>4

(* The cutoff of a table that is frozen is the highest sealed segment.     *)
LEMMA FreezeKeepsCutoffs ==
    ASSUME TypeInv, CutoffsOrdered, Freeze
    PROVE  CutoffsOrdered'
<1>1. active \in Int /\ covered \in Int /\ covered' = covered
  BY DEF Freeze, TypeInv, TypeOK, SegmentID, history
<1>2. CASE mem = EmptyLayer
  <2>1. active' = active /\ immutables' = immutables
    BY <1>2 DEF Freeze
  <2> QED BY <1>1, <2>1, CutoffsUntouched
<1>3. CASE mem # EmptyLayer
  <2> DEFINE new == [data |-> mem, cutoff |-> Sealed]
  <2>1. immutables' = Append(immutables, new)
    BY <1>3 DEF Freeze
  <2>2. active' = IF segments[active] = EmptyLayer THEN active ELSE active + 1
    BY <1>3 DEF Freeze
  <2>3. Sealed \in Int /\ Sealed < active' /\ active - 1 <= Sealed /\ active <= active'
    BY <1>1, <2>2 DEF Sealed
  <2>4. immutables \in Seq(Immutables)
    BY DEF TypeInv, TypeOK
  <2>5. new \in [data : {mem}, cutoff : {Sealed}] /\ new.cutoff = Sealed
    OBVIOUS
  <2> HIDE DEF new
  <2>6. /\ DOMAIN immutables' = 1..(Len(immutables) + 1)
        /\ DOMAIN immutables = 1..Len(immutables)
        /\ Len(immutables) \in Nat
        /\ immutables'[Len(immutables) + 1] = new
        /\ \A i \in 1..Len(immutables) : immutables'[i] = immutables[i]
    BY <2>1, <2>4
  <2>7. \A i \in DOMAIN immutables :
            /\ immutables[i].cutoff \in Int
            /\ covered <= immutables[i].cutoff
            /\ immutables[i].cutoff < active
    <3> SUFFICES ASSUME NEW i \in DOMAIN immutables
                 PROVE  immutables[i].cutoff \in Int
      BY DEF CutoffsOrdered
    <3>1. immutables[i] \in Immutables
      BY <2>4
    <3> QED BY <3>1 DEF Immutables
  <2>8. covered <= Sealed /\ covered < active'
    BY <1>1, <2>2, <2>3 DEF CutoffsOrdered
  <2>9. ASSUME NEW i \in DOMAIN immutables'
        PROVE  /\ covered' <= immutables'[i].cutoff
               /\ immutables'[i].cutoff < active'
               /\ immutables'[i].cutoff <= Sealed
               /\ immutables'[i].cutoff \in Int
    <3>1. CASE i = Len(immutables) + 1
      BY <1>1, <2>3, <2>5, <2>6, <2>8, <3>1
    <3>2. CASE i \in DOMAIN immutables
      <4>1. /\ immutables'[i] = immutables[i]
            /\ immutables[i].cutoff \in Int
            /\ covered <= immutables[i].cutoff
            /\ immutables[i].cutoff < active
        BY <2>6, <2>7, <3>2
      <4>2. active' \in Int
        BY <1>1, <2>2
      <4> QED BY <1>1, <2>3, <4>1, <4>2
    <3> QED BY <2>6, <2>9, <3>1, <3>2
  <2>10. ASSUME NEW i \in DOMAIN immutables', NEW j \in DOMAIN immutables', i < j
         PROVE  immutables'[i].cutoff <= immutables'[j].cutoff
    <3>1. CASE j = Len(immutables) + 1
      <4>1. immutables'[j].cutoff = Sealed
        BY <2>5, <2>6, <3>1
      <4> QED BY <2>9, <4>1
    <3>2. CASE j # Len(immutables) + 1
      <4>1. i \in DOMAIN immutables /\ j \in DOMAIN immutables
        BY <2>6, <2>10, <3>2
      <4>2. immutables'[i] = immutables[i] /\ immutables'[j] = immutables[j]
        BY <2>6, <4>1
      <4> QED BY <2>10, <4>1, <4>2 DEF CutoffsOrdered
    <3> QED BY <3>1, <3>2
  <2>11. covered' < active'
    BY <1>1, <2>8
  <2> QED BY <2>9, <2>10, <2>11 DEF CutoffsOrdered
<1> QED BY <1>2, <1>3

(* The oldest immutable is published, and it has the smallest cutoff.      *)
LEMMA FlushPublishKeepsCutoffs ==
    ASSUME TypeInv, CutoffsOrdered, FlushPublish
    PROVE  CutoffsOrdered'
<1>1. /\ immutables \in Seq(Immutables) /\ immutables # <<>>
      /\ immutables' = Tail(immutables)
      /\ covered' = Head(immutables).cutoff
      /\ active' = active
  BY DEF FlushPublish, TypeInv, TypeOK, FlushInProgress, walVars
<1>2. /\ Len(immutables) \in Nat \ {0}
      /\ DOMAIN immutables = 1..Len(immutables)
      /\ DOMAIN immutables' = 1..(Len(immutables) - 1)
      /\ \A i \in 1..(Len(immutables) - 1) : immutables'[i] = immutables[i + 1]
      /\ Head(immutables) = immutables[1]
  BY <1>1
<1>3. 1 \in DOMAIN immutables /\ \A i \in DOMAIN immutables' : i + 1 \in DOMAIN immutables
  BY <1>2
<1>4. covered' < active'
  BY <1>1, <1>2, <1>3 DEF CutoffsOrdered
<1>5. ASSUME NEW i \in DOMAIN immutables'
      PROVE  /\ covered' <= immutables'[i].cutoff
             /\ immutables'[i].cutoff < active'
  <2>1. immutables'[i] = immutables[i + 1] /\ i + 1 \in DOMAIN immutables /\ 1 < i + 1
    BY <1>2, <1>3
  <2> QED BY <1>1, <1>2, <1>3, <2>1 DEF CutoffsOrdered
<1>6. ASSUME NEW i \in DOMAIN immutables', NEW j \in DOMAIN immutables', i < j
      PROVE  immutables'[i].cutoff <= immutables'[j].cutoff
  <2>1. /\ immutables'[i] = immutables[i + 1] /\ i + 1 \in DOMAIN immutables
        /\ immutables'[j] = immutables[j + 1] /\ j + 1 \in DOMAIN immutables
        /\ i + 1 < j + 1
    BY <1>2, <1>3, <1>6
  <2> QED BY <2>1 DEF CutoffsOrdered
<1> QED BY <1>4, <1>5, <1>6 DEF CutoffsOrdered

LEMMA CutoffsStep ==
    ASSUME TypeInv, Lifetime, CutoffsOrdered, [Next]_vars
    PROVE  CutoffsOrdered'
<1>1. active \in Int /\ active' \in SegmentID
  <2>1. TypeInv'
    BY TypeInvStep
  <2> QED BY <2>1 DEF TypeInv, TypeOK, SegmentID
<1>2. ASSUME immutables' = <<>>, covered' = 0
      PROVE  CutoffsOrdered'
  BY <1>1, <1>2 DEF CutoffsOrdered, SegmentID
<1>3. ASSUME UNCHANGED <<active, immutables, covered>>
      PROVE  CutoffsOrdered'
  BY <1>3 DEF CutoffsOrdered
<1>4. ASSUME UNCHANGED <<immutables, covered>>,
             \/ active' = active
             \/ \E data, n : Persist(data, n)
      PROVE  CutoffsOrdered'
  <2>1. active' \in Int /\ active <= active'
    BY <1>1, <1>4, PersistAdvances
  <2> QED BY <1>4, <2>1, CutoffsUntouched
<1> USE DEF Running, fileVars, walVars, memVars, ctlVars, history
<1>5. CASE Writes \/ FailedWrites
  <2>1. UNCHANGED <<immutables, covered>>
    BY <1>5, WritesLeaveTables
  <2>2. active' = active \/ \E data, n : Persist(data, n)
    BY <1>5 DEF Writes, Put, Delete, WriteBatch, Write, AppendLog, FailedWrites,
                WriteFails
  <2> QED BY <1>4, <2>1, <2>2
<1>6. CASE WALFlush \/ WALFlushFails
  BY <1>4, <1>6 DEF WALFlush, WALFlushFails
<1>7. CASE Freeze
  BY <1>7, FreezeKeepsCutoffs
<1>8. CASE FlushPublish
  BY <1>8, FlushPublishKeepsCutoffs
<1>9. CASE CheckpointBegin \/ FreezeFails \/ SetBackgroundError \/ ClearBackgroundError
           \/ FlushBegin \/ FlushFails \/ FlushWriteTable \/ FlushPublishFails
           \/ PruneSegment \/ PruneFails \/ PruneDone
           \/ CompactWrite \/ CompactFails \/ CompactPublish \/ CompactAborts
           \/ RemoveTable \/ CompactDone \/ CloseBegin
  BY <1>3, <1>9 DEF CheckpointBegin, FreezeFails, SetBackgroundError,
        ClearBackgroundError, FlushBegin, FlushFails, FlushWriteTable,
        FlushPublishFails, PruneSegment, PruneFails, PruneDone, CompactWrite,
        CompactFails, CompactPublish, CompactAborts, RemoveTable, CompactDone,
        CloseBegin
<1>10. CASE ReLoad \/ ReLoadFails \/ CloseEnd \/ Crash
  BY <1>2, <1>10 DEF ReLoad, ReLoadFails, CloseEnd, Crash, Stop
<1>11. CASE Open
  BY <1>2, <1>11 DEF Open, Lifetime
<1>12. CASE UNCHANGED vars
  BY <1>3, <1>12 DEF vars
<1> QED BY <1>5, <1>6, <1>7, <1>8, <1>9, <1>10, <1>11, <1>12 DEF Next, Internal

LEMMA StickyErrorStep ==
    ASSUME StickyErrorHasWork, [Next]_vars
    PROVE  StickyErrorHasWork'
<1> USE DEF StickyErrorHasWork, fileVars, walVars, memVars, ctlVars, history
<1>1. CASE Writes
  <2>1. flushErr' = flushErr /\ ~flushErr
    BY <1>1 DEF Writes, Put, Delete, WriteBatch, Write, AppendLog
  <2> QED BY <2>1
<1>2. CASE FailedWrites
  BY <1>2 DEF FailedWrites, WriteFails
<1>3. CASE WALFlush \/ WALFlushFails
  BY <1>3 DEF WALFlush, WALFlushFails, Restored
<1>4. CASE Freeze \/ CheckpointBegin \/ FreezeFails \/ SetBackgroundError
           \/ ClearBackgroundError \/ FlushBegin \/ FlushFails \/ FlushWriteTable
           \/ FlushPublish \/ FlushPublishFails \/ PruneSegment \/ PruneFails
           \/ PruneDone \/ CompactWrite \/ CompactFails \/ CompactPublish
           \/ CompactAborts \/ RemoveTable \/ CompactDone \/ ReLoad \/ ReLoadFails \/ CloseBegin
           \/ Open
  BY <1>4 DEF Freeze, CheckpointBegin, FreezeFails, SetBackgroundError,
        ClearBackgroundError, FlushBegin, FlushFails, FlushWriteTable,
        FlushPublish, FlushPublishFails, PruneSegment, PruneFails, PruneDone,
        CompactWrite, CompactFails, CompactPublish, CompactAborts, RemoveTable, CompactDone,
        ReLoad, ReLoadFails, CloseBegin, Open
<1>5. CASE CloseEnd \/ Crash
  BY <1>5 DEF CloseEnd, Crash, Stop
<1>6. CASE UNCHANGED vars
  BY <1>6 DEF vars
<1> QED BY <1>1, <1>2, <1>3, <1>4, <1>5, <1>6 DEF Next, Internal

-----------------------------------------------------------------------------
(* The theorems.                                                           *)

LEMMA ControlInvStep == ControlInv /\ [Next]_vars => ControlInv'
BY TypeInvStep, LifetimeStep, TablesInvStep, CutoffsStep, StickyErrorStep
   DEF ControlInv

LEMMA ControlInvHolds == Spec => []ControlInv
BY ControlInvInit, ControlInvStep, PTL DEF Spec

(* Whatever fails and wherever the process stops, a restart finds every    *)
(* table it is told to load, and the running store reads exactly the       *)
(* tables the Manifest lists.                                              *)
THEOREM ManifestAlwaysMatches == Spec => []ManifestMatches
<1>1. ControlInv => ManifestMatches
  BY ListsAgreeMatch DEF ControlInv, TablesInv
<1> QED BY <1>1, ControlInvHolds, PTL

(* For every set of faults the next file ID is free, also after a crash    *)
(* that left unpublished files, so that WriteSStable does not meet         *)
(* os.ErrExist.  Only a process that failed to remove a table it had not   *)
(* published finds that table under its next ID, and until it ends.        *)
THEOREM NextTableIDIsFresh == Spec => []FreshTableID
<1>1. ControlInv => FreshTableID
  BY DEF ControlInv, TablesInv
<1> QED BY <1>1, ControlInvHolds, PTL

(* The cutoffs of the immutables grow in the order in which they are       *)
(* flushed and stay below the active segment, so PruneThrough is never     *)
(* called with a cutoff it refuses, nor with one that goes back.           *)
THEOREM CutoffsAlwaysOrdered == Spec => []CutoffsOrdered
<1>1. ControlInv => CutoffsOrdered
  BY DEF ControlInv
<1> QED BY <1>1, ControlInvHolds, PTL

(* A sticky flush error always has buffered records behind it, whose retry *)
(* clears it.                                                              *)
THEOREM StickyErrorAlwaysHasWork == Spec => []StickyErrorHasWork
<1>1. ControlInv => StickyErrorHasWork
  BY DEF ControlInv
<1> QED BY <1>1, ControlInvHolds, PTL
=============================================================================
