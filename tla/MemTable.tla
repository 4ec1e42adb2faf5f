------------------------------ MODULE MemTable ------------------------------
(***************************************************************************)
(* A MemTable (MemTable.go, memtable_scan.go): a skip list of records, and *)
(* beside it atomics for its approximate size and for whether it may still *)
(* be written.  A write looks at the one, sets the record, and then        *)
(* corrects the other, and several may do so at once; freezing and         *)
(* clearing are the owner's, who calls them when nobody writes.            *)
(*                                                                         *)
(* A value is its length; Tombstone is that of a deleted record.           *)
(***************************************************************************)
EXTENDS SkipList, Subsequences

CONSTANTS MemWriter,
          Overhead,      \* ApproximateEntrySize and the length of a key
          MemLimit       \* the size at which to flush, 0 for never

Tombstone == 0

ASSUME MemTableAssumption ==
    /\ SkipValue \subseteq Nat
    /\ Overhead \in Nat
    /\ MemLimit \in Nat

VARIABLES
    size,      \* mt.size
    mutable,   \* mt.mutable
    writing    \* [writer -> where it is, what it still has to add to size]

Idle == [at |-> "idle", add |-> 0]
memVars == <<skipVars, size, mutable, writing>>

MemInit ==
    /\ SkipInit
    /\ size = 0
    /\ mutable = TRUE
    /\ writing = [w \in MemWriter |-> Idle]

-----------------------------------------------------------------------------
recordSize(value) == Overhead + value

BugGrowth(old, value) == recordSize(value)
Growth(old, value) ==
    recordSize(value) - (IF old = Nil THEN 0 ELSE recordSize(old))

\* Put, and Delete with a tombstone.  A writer that has seen `mutable' goes
\* on when the table is frozen meanwhile.
Check(w) ==
    /\ writing[w] = Idle
    /\ mutable
    /\ writing' = [writing EXCEPT ![w].at = "checked"]
    /\ UNCHANGED <<skipVars, size, mutable>>

SetRecord(w, key, value) ==
    /\ writing[w].at = "checked"
    /\ SkipPut(key, value, TRUE)
    /\ writing' = [writing EXCEPT
                       ![w] = [at |-> "set", add |-> Growth(Lookup(key), value)]]
    /\ UNCHANGED <<size, mutable>>

AddSize(w) ==
    /\ writing[w].at = "set"
    /\ size' = size + writing[w].add
    /\ writing' = [writing EXCEPT ![w] = Idle]
    /\ UNCHANGED <<skipVars, mutable>>

Unwritten == \A w \in MemWriter : writing[w] = Idle

MarkImmutable ==
    /\ Unwritten
    /\ mutable' = FALSE
    /\ UNCHANGED <<skipVars, size, writing>>

MemClear ==
    /\ Unwritten
    /\ SkipClear
    /\ size' = 0
    /\ mutable' = TRUE
    /\ UNCHANGED writing

MemNext ==
    \/ \E w \in MemWriter :
          \/ Check(w)
          \/ \E key \in SkipKey, value \in SkipValue : SetRecord(w, key, value)
          \/ AddSize(w)
    \/ MarkImmutable
    \/ MemClear

MemSpec == MemInit /\ [][MemNext]_memVars

-----------------------------------------------------------------------------
ShouldFlush == MemLimit > 0 /\ size >= MemLimit

AtLeast(entry, key) == entry[1] >= key

\* Scan: the two binary searches, and the empty boundary 0.
Cut(key, default) ==
    IF key = 0 THEN default
    ELSE Min({Len(ListEntries) + 1} \cup
             {i \in DOMAIN ListEntries : AtLeast(ListEntries[i], key)})

MemScan(startKey, endKey) ==
    SubSeq(ListEntries, Cut(startKey, 1), Cut(endKey, Len(ListEntries) + 1) - 1)

(* When no write is under way the size is that of the records that are     *)
(* there, so that ShouldFlush asks for a flush when, and only when, the    *)
(* table has grown to its limit: two writers of one key each subtract the  *)
(* record they replaced and no other.                                      *)
SizeMatches ==
    Unwritten =>
        LET total == SumFunctionOnSet([k \in DOMAIN entries |-> recordSize(entries[k])],
                                      DOMAIN entries)
        IN size = total /\ (ShouldFlush <=> MemLimit > 0 /\ total >= MemLimit)

Least(keys) == IF keys = {} THEN Nil ELSE Min(keys)

(* Get, LowerBound, First, Last, Len, Entries and Scan answer what the map *)
(* the table stands for answers, tombstones included, whatever heights the *)
(* nodes drew and whichever of them were unlinked.                         *)
ReadsTheMap ==
    /\ \A key \in SkipKey :
          /\ Lookup(key) = IF key \in DOMAIN entries THEN entries[key] ELSE Nil
          /\ LowerBound(key) = Least({k \in DOMAIN entries : k >= key})
    /\ FirstKey = Least(DOMAIN entries)
    /\ LastKey = IF DOMAIN entries = {} THEN Nil ELSE Max(DOMAIN entries)
    /\ length = Cardinality(DOMAIN entries)
    /\ \A startKey, endKey \in SkipKey \cup {0} :
          LET keys == {k \in DOMAIN entries :
                          k >= startKey /\ (endKey = 0 \/ k < endKey)}
          IN MemScan(startKey, endKey) =
                 [i \in 1 .. Cardinality(keys) |->
                     <<Nth(keys, i - 1), entries[Nth(keys, i - 1)]>>]
=============================================================================
