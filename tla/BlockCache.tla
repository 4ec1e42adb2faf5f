----------------------------- MODULE BlockCache -----------------------------
(***************************************************************************)
(* Reading a data block (block_cache.go, sstable_reader.go, pool.go): from *)
(* the cache all tables share, or from the file into a buffer of a pool,   *)
(* which goes back to the pool when the block is decoded.  The cache keeps *)
(* copies; a reader decodes what it was given without any lock.            *)
(*                                                                         *)
(* `bytes' is what the slices hold, and a slice nobody refers to is free   *)
(* again.  The classes of the pool are one class here, for blocks of at    *)
(* most MaxPooled bytes.                                                   *)
(***************************************************************************)
EXTENDS Subsequences, SequencesExt

CONSTANTS
    Block,       \* the blocks on disk
    BlockBytes(_),
    FileOf(_),   \* the table a block is in
    Reader,
    Slice,       \* slices of bytes, numbers
    Capacity,    \* BlockCacheBytes
    MaxPooled

ASSUME BlockCacheAssumption ==
    /\ Slice \subseteq Nat
    /\ Capacity \in Int
    /\ \A b \in Block : BlockBytes(b) \in Nat \ {0}

VARIABLES
    lru,       \* the entries of the cache, the most recently used first
    used,      \* cache.used
    pooled,    \* the slices in the pool
    bytes,     \* [slice -> the block whose bytes it holds]
    reading,   \* [reader -> what it is doing]
    retired,   \* tables a compaction has replaced
    forgotten  \* those of them that removeFile has been through

cacheVars == <<lru, used, pooled, bytes, reading, retired, forgotten>>

Blank == "blank"
NotReading == [at |-> "idle", block |-> Blank, slice |-> 0, own |-> FALSE,
               locked |-> FALSE]

Tables == {FileOf(b) : b \in Block}

CacheInit ==
    /\ lru = <<>>
    /\ used = 0
    /\ pooled = {}
    /\ bytes = [s \in Slice |-> Blank]
    /\ reading = [r \in Reader |-> NotReading]
    /\ retired = {}
    /\ forgotten = {}

-----------------------------------------------------------------------------
Cached(b)  == \E i \in DOMAIN lru : lru[i].block = b
EntryOf(b) == lru[CHOOSE i \in DOMAIN lru : lru[i].block = b]
Without(b) == Pick(lru, {i \in DOMAIN lru : lru[i].block # b})

Referred == pooled \cup {lru[i].slice : i \in DOMAIN lru}
                   \cup {reading[r].slice : r \in Reader}
Fresh == Min(Slice \ Referred)

\* What is in a slice of the pool, or in one nobody refers to, is forgotten.
Wiped(b) ==
    [s \in Slice |-> IF \/ \E i \in DOMAIN lru' : lru'[i].slice = s
                       \/ \E r \in Reader : reading'[r].slice = s
                    THEN b[s] ELSE Blank]

\* TieredPool.Get: a slice of the pool, or a new one if there is none.  The
\* pool may also drop a slice, which is as if it had never been put there.
Gettable(b) ==
    IF BlockBytes(b) <= MaxPooled /\ pooled # {} THEN pooled ELSE {Fresh}

\* What releaseBlock, or the release that does nothing, gives to the pool.
Returned(r) ==
    IF reading[r].own /\ BlockBytes(reading[r].block) <= MaxPooled
    THEN {reading[r].slice} ELSE {}

\* Eviction from the back until the rest fits.
BytesOf(items) == SumFunction([i \in DOMAIN items |-> BlockBytes(items[i].block)])
Kept(items) ==
    SubSeq(items, 1, Max({n \in 0 .. Len(items) :
                              BytesOf(SubSeq(items, 1, n)) <= Capacity}))

-----------------------------------------------------------------------------
\* readDataBlock: the lookup.  Lookups and scans use the cache and hold st.mu;
\* so does compactAll, which holds maintenanceMu: the tables of both are live.
\* Verify, CompactLevel and restoreSequence do not use the cache, and the
\* table Verify reads may have been replaced.
StartRead(r, b, useCache) ==
    /\ reading[r].at = "idle"
    /\ useCache => FileOf(b) \notin retired
    /\ IF useCache /\ Capacity > 0 /\ Cached(b)
       THEN /\ reading' = [reading EXCEPT ![r] =
                   [at |-> "decode", block |-> b, slice |-> EntryOf(b).slice,
                    own |-> FALSE, locked |-> TRUE]]
            /\ lru' = <<EntryOf(b)>> \o Without(b)
            /\ UNCHANGED pooled
       ELSE /\ \E s \in Gettable(b) :
                  /\ reading' = [reading EXCEPT ![r] =
                         [at |-> "fill",
                          block |-> b, slice |-> s, own |-> TRUE,
                          locked |-> useCache]]
                  /\ pooled' = pooled \ {s}
            /\ UNCHANGED lru
    /\ UNCHANGED <<used, bytes, retired, forgotten>>

\* readBlock: ReadAt and the checksum; on an error, which is certain once the
\* table is closed, the slice goes back.
Fill(r) ==
    /\ reading[r].at = "fill"
    /\ UNCHANGED <<lru, used, retired, forgotten>>
    /\ \/ /\ FileOf(reading[r].block) \notin retired
          /\ bytes' = [bytes EXCEPT ![reading[r].slice] = reading[r].block]
          /\ reading' = [reading EXCEPT ![r].at =
                             IF reading[r].locked THEN "keep" ELSE "decode"]
          /\ UNCHANGED pooled
       \/ /\ pooled' = pooled \cup Returned(r)
          /\ reading' = [reading EXCEPT ![r] = NotReading]
          /\ bytes' = Wiped(bytes)

BugCopyOf(r) == reading[r].slice
CopyOf(r) == Fresh

BugUsedAfter(b, items) == used + BlockBytes(b)
UsedAfter(b, items) == BytesOf(items)

\* cache.put.  An entry that is there is overwritten in its own slice.
Keep(r) ==
    /\ reading[r].at = "keep"
    /\ LET b == reading[r].block
           s == IF Cached(b) THEN EntryOf(b).slice ELSE CopyOf(r)
           items == Kept(<<[block |-> b, slice |-> s]>> \o Without(b))
       IN /\ reading' = [reading EXCEPT ![r].at = "decode"]
          /\ IF Capacity <= 0 \/ BlockBytes(b) > Capacity
             THEN UNCHANGED <<lru, used, bytes>>
             ELSE /\ lru' = items
                  /\ used' = UsedAfter(b, items)
                  /\ bytes' = Wiped([bytes EXCEPT ![s] = bytes[reading[r].slice]])
    /\ UNCHANGED <<pooled, retired, forgotten>>

\* DecodeDataBlock copies what it returns; then the release.
Decode(r) ==
    /\ reading[r].at = "decode"
    /\ pooled' = pooled \cup Returned(r)
    /\ reading' = [reading EXCEPT ![r] = NotReading]
    /\ UNCHANGED <<lru, used, retired, forgotten>>
    /\ bytes' = Wiped(bytes)

BugMayRetire(f) == f \notin retired
\* A compaction publishes its outputs under st.mu, which lookups and scans
\* hold, and after its own reads.
MayRetire(f) == f \notin retired /\ \A r \in Reader : ~reading[r].locked

Retire(f) ==
    /\ MayRetire(f)
    /\ retired' = retired \cup {f}
    /\ UNCHANGED <<lru, used, pooled, bytes, reading, forgotten>>

\* removeFile, behind the Unlock.
Forget(f) ==
    /\ f \in retired \ forgotten
    /\ lru' = Pick(lru, {i \in DOMAIN lru : FileOf(lru[i].block) # f})
    /\ used' = BytesOf(lru')
    /\ forgotten' = forgotten \cup {f}
    /\ UNCHANGED <<pooled, reading, retired>>
    /\ bytes' = Wiped(bytes)

CacheNext ==
    \/ \E r \in Reader :
          \/ \E b \in Block, useCache \in BOOLEAN : StartRead(r, b, useCache)
          \/ Fill(r)
          \/ Keep(r)
          \/ Decode(r)
    \/ \E f \in Tables : Retire(f) \/ Forget(f)

CacheSpec == CacheInit /\ [][CacheNext]_cacheVars

-----------------------------------------------------------------------------
(* A reader decodes the bytes of the block it asked for, from beginning to *)
(* end: no slice it looks at is in the pool, or in the hands of a reader   *)
(* that fills it, whatever is evicted, overwritten or released meanwhile.  *)
ReadsOwnBlock ==
    \A r \in Reader : reading[r].at = "decode" =>
        bytes[reading[r].slice] = reading[r].block

(* The bytes the cache counts are those of its entries, no block is in it  *)
(* twice, and it never exceeds its capacity.                               *)
CacheAccounts ==
    /\ used = BytesOf(lru)
    /\ used <= (IF Capacity > 0 THEN Capacity ELSE 0)
    /\ \A i, j \in DOMAIN lru : lru[i].block = lru[j].block => i = j

(* When a compaction has removed a table's blocks from the cache, none     *)
(* comes back: no reader is between its read and its put then.             *)
ForgottenStaysOut == \A i \in DOMAIN lru : FileOf(lru[i].block) \notin forgotten
=============================================================================
