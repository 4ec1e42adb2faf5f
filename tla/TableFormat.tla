---------------------------- MODULE TableFormat ----------------------------
(***************************************************************************)
(* One SSTable (sstable_writer.go, sstable_block.go, sstable_reader.go,    *)
(* sstable_scan.go, sstable_iterator.go, verify.go): records sorted and    *)
(* cut into blocks whose keys share prefixes, an index of the first and    *)
(* the last key of every block, and the three ways to read it: a lookup, a *)
(* scan, and an iterator that loads one block at a time.                   *)
(*                                                                         *)
(* A key is a sequence of bytes, <<>> no boundary.  A value is its length, *)
(* 0 standing for a deletion; the header of an entry and a restart point   *)
(* count one byte each.  Damage in a block is found by its checksum, that  *)
(* in the footer, which has none, by its magic number, its version, or the *)
(* bounds and the checksums of what it points to.                          *)
(***************************************************************************)
EXTENDS Bytes

CONSTANTS TableKey,    \* keys, sequences of numbers that are not empty
          Text,        \* the values
          Interval,    \* ReStartInterval
          BlockTarget, \* defaultDataBlockSize
          MaxRecords   \* bound on the records handed to a writer

ASSUME TableFormatAssumption ==
    /\ TableKey \subseteq Seq(Nat) \ {<<>>}
    /\ Text \subseteq Nat
    /\ Interval \in Nat \ {0}
    /\ BlockTarget \in Nat
    /\ MaxRecords \in Nat

VARIABLES
    given,     \* the records handed to WriteSStable
    file,      \* the blocks, [entries, first, last], the last two from the index
    opened,    \* s.file # nil: the table is read from the file
    damaged,   \* numbers of damaged blocks, 0 for footer, meta and index
    iterator,
    yielded    \* the records the iterator went past

tableVars == <<given, file, opened, damaged, iterator, yielded>>

-----------------------------------------------------------------------------
(* The writer.                                                             *)

Latest(indices) == Max(indices)

\* normalizeRecords: a stable sort that keeps the last record of a key.
Normalized(rs) ==
    LET keys == Listed({rs[i].key : i \in DOMAIN rs}, Precedes)
    IN [k \in DOMAIN keys |->
           rs[Latest({i \in DOMAIN rs : rs[i].key = keys[k]})]]

\* The restart interval counts from the beginning of the block.
SharedAt(rs, i) ==
    IF (i - 1) % Interval = 0 THEN 0 ELSE SharedLen(rs[i].key, rs[i - 1].key)

EncodeDataBlock(rs) ==
    [i \in DOMAIN rs |->
        [shared |-> SharedAt(rs, i),
         suffix |-> SubSeq(rs[i].key, SharedAt(rs, i) + 1, Len(rs[i].key)),
         text   |-> rs[i].text]]

BlockSize(rs) ==
    FoldSeq(LAMBDA e, sum : sum + 1 + Len(e.suffix) + e.text, 0, EncodeDataBlock(rs))
        + (Len(rs) + Interval - 1) \div Interval

Fits(rs) == BlockSize(rs) <= BlockTarget

\* splitDataBlocks: a block always takes one record, and more while they fit.
SplitDataBlocks(rs) ==
    LET end(i) == Max({n \in i .. Len(rs) :
                         \A m \in i + 1 .. n : Fits(SubSeq(rs, i, m))})
        from[i \in 1 .. Len(rs) + 1] ==
            IF i > Len(rs) THEN <<>>
            ELSE <<SubSeq(rs, i, end(i))>> \o from[end(i) + 1]
    IN from[1]

Built(rs) ==
    [b \in DOMAIN SplitDataBlocks(rs) |->
        LET block == SplitDataBlocks(rs)[b]
        IN [entries |-> EncodeDataBlock(block),
            first   |-> block[1].key,
            last    |-> block[Len(block)].key]]

-----------------------------------------------------------------------------
(* The reader.  An answer is a sequence of records; Failed is an error.    *)

Failed == <<[key |-> <<>>]>>

BugKeyOf(entry, lastKey) == entry.suffix
KeyOf(entry, lastKey) == SubSeq(lastKey, 1, entry.shared) \o entry.suffix

DecodeDataBlock(encoded) ==
    LET from[n \in 0 .. Len(encoded)] ==
            IF n = 0 THEN <<>>
            ELSE LET before  == from[n - 1]
                     lastKey == IF before = <<>> THEN <<>> ELSE Last(before).key
                 IN Append(before, [key  |-> KeyOf(encoded[n], lastKey),
                                    text |-> encoded[n].text])
    IN from[Len(encoded)]

\* st.rs, which a table has until it is opened from its file.
Records == Normalized(given)

NotBefore(key, bound) == bound = <<>> \/ ~Precedes(key, bound)
Beyond(key, bound) == bound # <<>> /\ ~Precedes(key, bound)

\* sort.Search for the first record that is not before key.
FirstAt(records, key) ==
    Min({Len(records) + 1} \cup {i \in DOMAIN records : NotBefore(records[i].key, key)})

ScanSorted(records, start, end) ==
    LET stop == Min({Len(records) + 1} \cup
                    {i \in DOMAIN records : Beyond(records[i].key, end)})
    IN SubSeq(records, FirstAt(records, start), stop - 1)

At(records, key) ==
    LET i == FirstAt(records, key)
    IN IF i <= Len(records) /\ records[i].key = key THEN <<records[i]>> ELSE <<>>

\* findIndexEntry.
BlockOf(key) == Min({Len(file) + 1} \cup {b \in DOMAIN file : ~Precedes(file[b].last, key)})

\* GetRecord; `chance' says whether the Bloom filter lets a foreign key pass.
GetRecord(key, chance) ==
    LET b == BlockOf(key) IN
    IF key \notin {r.key : r \in ToSet(Records)} /\ ~chance THEN <<>>
    ELSE IF ~opened THEN At(Records, key)
    ELSE IF b > Len(file) \/ Precedes(key, file[b].first) THEN <<>>
    ELSE IF b \in damaged THEN Failed
    ELSE At(DecodeDataBlock(file[b].entries), key)

\* The key range of the meta block meets the range asked for.
KeyRangesOverlap(start, end) ==
    /\ Records # <<>>
    /\ NotBefore(Last(Records).key, start)
    /\ ~Beyond(Records[1].key, end)

EmptyRange(start, end) == start # <<>> /\ Beyond(start, end)

BugBlockNeeded(b, start, end) ==
    /\ start = <<>> \/ Precedes(start, file[b].last)
    /\ ~Beyond(file[b].first, end)
BlockNeeded(b, start, end) ==
    NotBefore(file[b].last, start) /\ ~Beyond(file[b].first, end)

ScanTable(start, end) ==
    LET needed == {b \in DOMAIN file : BlockNeeded(b, start, end)}
        piece(b) == IF b \in needed
                    THEN ScanSorted(DecodeDataBlock(file[b].entries), start, end)
                    ELSE <<>>
    IN IF EmptyRange(start, end) \/ ~KeyRangesOverlap(start, end) THEN <<>>
       ELSE IF ~opened THEN ScanSorted(Records, start, end)
       ELSE IF needed \cap damaged # {} THEN Failed
       ELSE FlattenSeq([b \in DOMAIN file |-> piece(b)])

\* Verify of a table in use; what it compares with is the meta block.
Verified ==
    LET records == ScanTable(<<>>, <<>>)
    IN /\ records # Failed
       /\ Len(records) = Len(Records)
       /\ \A i \in 2 .. Len(records) : Precedes(records[i - 1].key, records[i].key)
       /\ records # <<>> => /\ records[1].key = Records[1].key
                            /\ Last(records).key = Last(Records).key

-----------------------------------------------------------------------------
(* The iterator.                                                           *)

NoIterator == [at |-> "none"]

\* A position in a block, unless the block's records are at their end.
Here(it) ==
    IF Beyond(it.records[it.index].key, it.end)
    THEN [it EXCEPT !.at = "end"] ELSE [it EXCEPT !.at = "record"]

\* positionCurrent and loadNextBlock, which call each other.
PositionCurrent(it) ==
    LET from[b \in 1 .. Len(file) + 1] ==
            IF b > Len(file) THEN [it EXCEPT !.at = "end", !.block = b]
            ELSE IF ~BlockNeeded(b, it.start, it.end) THEN from[b + 1]
            ELSE IF b \in damaged THEN [it EXCEPT !.at = "error", !.block = b + 1]
            ELSE LET records == DecodeDataBlock(file[b].entries)
                     i == FirstAt(records, it.start)
                 IN IF i > Len(records) THEN from[b + 1]
                    ELSE Here([it EXCEPT !.block = b + 1, !.records = records,
                                         !.index = i])
    IN IF it.index <= Len(it.records) THEN Here(it)
       ELSE IF ~opened THEN [it EXCEPT !.at = "end"]
       ELSE from[it.block]

NewIterator(start, end) ==
    /\ given # <<>>
    /\ iterator = NoIterator
    /\ LET empty == EmptyRange(start, end) \/ ~KeyRangesOverlap(start, end)
           it == [at |-> "end", start |-> start, end |-> end, block |-> 1,
                  records |-> IF opened THEN <<>> ELSE Records,
                  index |-> IF opened THEN 1 ELSE FirstAt(Records, start)]
       IN iterator' = IF empty THEN it ELSE PositionCurrent(it)
    /\ UNCHANGED <<given, file, opened, damaged, yielded>>

NextRecord ==
    /\ iterator.at = "record"
    /\ yielded' = Append(yielded, iterator.records[iterator.index])
    /\ iterator' = PositionCurrent([iterator EXCEPT !.index = @ + 1])
    /\ UNCHANGED <<given, file, opened, damaged>>

CloseIterator ==
    /\ iterator # NoIterator
    /\ iterator' = NoIterator
    /\ yielded' = <<>>
    /\ UNCHANGED <<given, file, opened, damaged>>

-----------------------------------------------------------------------------
TableInit ==
    /\ given = <<>>
    /\ file = <<>>
    /\ opened = FALSE
    /\ damaged = {}
    /\ iterator = NoIterator
    /\ yielded = <<>>

WriteSStable(rs) ==
    /\ given = <<>>
    /\ given' = rs
    /\ file' = Built(Normalized(rs))
    /\ UNCHANGED <<opened, damaged, iterator, yielded>>

\* The bytes of the file change before it is opened.
DamageFile ==
    /\ given # <<>>
    /\ ~opened
    /\ iterator = NoIterator
    /\ damaged = {}
    /\ \E part \in 0 .. Len(file) : damaged' = {part}
    /\ UNCHANGED <<given, file, opened, iterator, yielded>>

\* OpenSStable refuses a file whose footer, meta or index is damaged.
OpenSStable ==
    /\ given # <<>>
    /\ ~opened
    /\ iterator = NoIterator
    /\ 0 \notin damaged
    /\ opened' = TRUE
    /\ UNCHANGED <<given, file, damaged, iterator, yielded>>

Record == [key : TableKey, text : Text]
Bound == TableKey \cup {<<>>}

TableNext ==
    \/ \E rs \in BoundedSeq(Record, MaxRecords) : WriteSStable(rs)
    \/ DamageFile
    \/ OpenSStable
    \/ \E start, end \in Bound : NewIterator(start, end)
    \/ NextRecord
    \/ CloseIterator

TableSpec == TableInit /\ [][TableNext]_tableVars

-----------------------------------------------------------------------------
\* What was handed over for a key, and for a range in order.
Handed(key) ==
    LET all == {i \in DOMAIN given : given[i].key = key}
    IN IF all = {} THEN <<>> ELSE <<given[Max(all)]>>

InRange(key, start, end) == NotBefore(key, start) /\ ~Beyond(key, end)

HandedIn(start, end) ==
    LET keys == {k \in {given[i].key : i \in DOMAIN given} : InRange(k, start, end)}
        sorted == Listed(keys, Precedes)
    IN [i \in DOMAIN sorted |-> Handed(sorted[i])[1]]

(* A lookup and a scan answer the last record handed to the writer for a   *)
(* key, from memory as from the file, wherever blocks and restart points   *)
(* fall; in a damaged file they answer that or an error, and Verify finds  *)
(* the damage.  (An iterator changes nothing of this.)                     *)
TableAnswers ==
  given # <<>> /\ iterator = NoIterator =>
    LET intact == ~opened \/ damaged = {} IN
    /\ \A key \in TableKey, chance \in BOOLEAN :
          GetRecord(key, chance) \in
              {Handed(key)} \cup IF intact THEN {} ELSE {Failed}
    /\ \A start, end \in Bound :
          ScanTable(start, end) \in
              {HandedIn(start, end)} \cup IF intact THEN {} ELSE {Failed}
    /\ Verified <=> intact

(* An iterator yields the records of its range in order and leaves none    *)
(* out: it stops early only with an error, never silently at the border of *)
(* two blocks or at a block it cannot read.                                *)
IteratorExact ==
    iterator # NoIterator =>
        LET range == HandedIn(iterator.start, iterator.end)
            seen == IF iterator.at = "record"
                    THEN Append(yielded, iterator.records[iterator.index])
                    ELSE yielded
        IN /\ IsPrefix(seen, range)
           /\ iterator.at = "end" => seen = range
           /\ iterator.at = "error" => opened /\ damaged # {}
=============================================================================
