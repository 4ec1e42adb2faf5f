------------------------------ MODULE SamStore ------------------------------
(***************************************************************************)
(* The write, checkpoint, compaction and recovery paths of StoreManger     *)
(* (pkg/store/store.go) together with the part of WalManger (pkg/wal) they *)
(* depend on.  One action is one critical section of the code, or one step *)
(* on a file that a crash can separate from the next one.                  *)
(*                                                                         *)
(* st.mu is the variable lock, maintenanceMu is "at # idle".  WAL          *)
(* segments, SSTable files and the Manifest survive a crash; everything    *)
(* else is memory.                                                         *)
(*                                                                         *)
(* Operators named Bug... are used by no definition: each is a mistake the *)
(* code could make in the definition that follows it, and PROJECT.json     *)
(* says which property catches it.                                         *)
(***************************************************************************)
EXTENDS Layers

CONSTANTS SyncPolicy,     \* "SyncEveryWrite" or "SyncInterval"
          BufferSize,     \* records the WAL buffer takes
          MaxBatch,       \* records in one WriteBatch
          MaxSegment,     \* bound on WAL segment IDs
          MaxTable,       \* bound on SSTable file IDs
          Faults          \* the I/O failures that may happen

FaultKinds == {"append",    \* a direct WAL write fails, its bytes on file or not
               "flush",     \* a flush of the WAL buffer fails part-way
               "rotate",    \* sealing the active segment fails
               "sstable",   \* writing an SSTable file fails
               "manifest",  \* saving the Manifest fails
               "list",      \* enumerating the segments to prune fails
               "remove",    \* removing one pruned segment fails
               "cleanup",   \* removing an SSTable that was not published fails
               "unlink",    \* removing a compacted SSTable file fails
               "replay"}    \* ReLoad hits an I/O error in the middle of the log

ASSUME SamStoreAssumption ==
    /\ SyncPolicy \in {"SyncEveryWrite", "SyncInterval"}
    /\ BufferSize \in Nat
    /\ MaxBatch \in Nat
    /\ MaxSegment \in Nat \ {0}
    /\ MaxTable \in Nat
    /\ Faults \subseteq FaultKinds

SegmentID == 1..MaxSegment
TableID   == 1..MaxTable

VARIABLES
    \* The files.
    segments,       \* segments[s]: what replaying wal-<s>.log yields
    live,           \* the segment files that exist
    files,          \* files[t]: what <t>.sst holds
    onDisk,         \* the .sst files that exist
    manifest,       \* the Manifest CURRENT points to
    \* The process.
    phase,          \* "open"; "closed": st.closed is set, operations that
                    \* passed their check still run; "down": no process
    active,         \* wm.activeWriter.segment.ID
    buffer,         \* wm.buffer: records not yet written to a segment
    flushErr,       \* wm.flushErr # nil
    mem,            \* st.mem
    immutables,     \* st.immutables, oldest first, with their WAL cutoffs
    sstables,       \* st.sstables, oldest first, by file ID
    nextSSTableID,  \* st.nextSSTableID
    backgroundErr,  \* st.backgroundErr # nil
    lock,           \* who holds st.mu between two steps
    at,             \* where the maintenance operation is; "emptied": a
                    \* compaction that found nothing to write
    todo,           \* the files the maintenance operation still has to remove
    \* History, read by no action's guard.
    covered,        \* WAL cutoff of the last immutable published since Open
    doubt,          \* doubt[k]: entries of failed writes to k that reached a
                    \* file and that no later acknowledged write hides
    older,          \* older[k]: answers a crash may bring back while the
                    \* newest write to k is only buffered
    leftBehind      \* this process could not remove a table it never published

fileVars == <<segments, live, files, onDisk, manifest>>
walVars  == <<active, buffer, flushErr>>
memVars  == <<mem, immutables>>
tabVars  == <<sstables, nextSSTableID>>
ctlVars  == <<backgroundErr, lock, at, todo>>
history  == <<covered, doubt, older, leftBehind>>
vars     == <<fileVars, phase, walVars, memVars, tabVars, ctlVars, history>>

-----------------------------------------------------------------------------
(* Reading.                                                                *)

Frozen == [i \in DOMAIN immutables |-> immutables[i].data]

(* The tables of a list of file IDs, as a stack of layers.                 *)
Tables(ids) == [i \in DOMAIN ids |-> files[ids[i]]]
OnTables(ids, k) == Newest(Tables(ids), DOMAIN ids, k)

(* The newest entry among the active MemTable and the immutables above j.  *)
InMemory(j, k) ==
    Over(mem[k], Newest(Frozen, {i \in DOMAIN immutables : i > j}, k))

(* GetWithError: active table, newer to older immutables, then SSTables.   *)
Lookup(k) == Over(InMemory(0, k), OnTables(sstables, k))

(* What replaying the segments above cutoff c yields for k, and what the   *)
(* segments already covered by a table would yield.                        *)
Replayed(c, k) == Newest(segments, {s \in live : s > c}, k)
Leftover(k) == Newest(segments, {s \in live : s <= covered}, k)

(* The same with the records that are still buffered.                      *)
Logged(c, k) == Over(Newest(buffer, DOMAIN buffer, k), Replayed(c, k))

(* loadSSTables: the Manifest names the tables; without a Manifest every   *)
(* .sst file is loaded in name order.                                      *)
Ascending(S) ==
    CHOOSE q \in [1..Cardinality(S) -> S] :
        \A i, j \in DOMAIN q : i < j => q[i] < q[j]
BugLoadEveryFile == Ascending(onDisk)
LoadedTables == IF manifest.exists THEN manifest.tables ELSE Ascending(onDisk)

(* What a process started now would answer.                                *)
Recovered(k) == Over(Replayed(0, k), OnTables(LoadedTables, k))

-----------------------------------------------------------------------------
Init ==
    /\ segments = [s \in SegmentID |-> EmptyLayer]
    /\ live = {1}
    /\ files = [t \in TableID |-> EmptyLayer]
    /\ onDisk = {}
    /\ manifest = [exists |-> FALSE, tables |-> <<>>, next |-> 1]
    /\ phase = "open"
    /\ active = 1
    /\ buffer = <<>>
    /\ flushErr = FALSE
    /\ mem = EmptyLayer
    /\ immutables = <<>>
    /\ sstables = <<>>
    /\ nextSSTableID = 1
    /\ backgroundErr = FALSE
    /\ lock = "none"
    /\ at = "idle"
    /\ todo = {}
    /\ covered = 0
    /\ doubt = [k \in Key |-> {}]
    /\ older = [k \in Key |-> {}]
    /\ leftBehind = FALSE

-----------------------------------------------------------------------------
(* The write-ahead log.                                                    *)

(* writeAndSyncLocked stopped after the first n records of data.  place[i] *)
(* is the segment of record i; the last one is where the log went on to    *)
(* when the write of a record failed.  A rotation may come before every    *)
(* record, and never leaves an empty segment behind.                       *)
Persist(data, n) ==
    /\ n \in 0..Len(data)
    /\ LET last == IF n < Len(data) THEN n + 1 ELSE n
       IN \E place \in [1..last -> active..MaxSegment] :
             /\ \A i, j \in 1..last : i < j => place[i] <= place[j]
             /\ segments' = [s \in SegmentID |->
                   Overlay(segments[s], Merge(data, {i \in 1..n : place[i] = s}))]
             /\ active' = IF last = 0 THEN active ELSE place[last]
    /\ live' = live \cup active..active'
    /\ \A s \in active..(active' - 1) : segments'[s] # EmptyLayer

Running == phase # "down"

(* flushBufferLocked has written whatever was buffered (WALFlush).         *)
Drained == buffer = <<>>

(* A batch that failed goes back in front of the buffer.                   *)
BugDropsBatch == <<>>
Restored == buffer

(* flushBufferLocked, called by the ticker, AppendLog, Rotate, Flush and   *)
(* Close.  The buffered records become durable and the sticky error goes.  *)
WALFlush ==
    /\ Running
    /\ lock # "publish"
    /\ buffer # <<>>
    /\ Persist(buffer, Len(buffer))
    /\ buffer' = <<>>
    /\ flushErr' = FALSE
    /\ older' = [k \in Key |-> {}]
    /\ UNCHANGED <<files, onDisk, manifest, phase, memVars, tabVars, ctlVars,
                   covered, doubt, leftBehind>>

(* The write failed part-way: the batch goes back in front of the buffer   *)
(* and AppendLog refuses until a retry succeeds.                           *)
WALFlushFails ==
    /\ "flush" \in Faults
    /\ Running
    /\ lock # "publish"
    /\ buffer # <<>>
    /\ \E n \in 0..Len(buffer) : Persist(buffer, n)
    /\ buffer' = Restored
    /\ flushErr' = TRUE
    /\ UNCHANGED <<files, onDisk, manifest, phase, memVars, tabVars,
                   ctlVars, history>>

(* Records that bypass the buffer: strict mode, or more than it takes.     *)
Direct(data) == SyncPolicy = "SyncEveryWrite" \/ Len(data) > BufferSize

(* AppendLog returned nil.  A direct write has flushed the buffer first,   *)
(* and a record that does not fit waits for a flush: both are WALFlush.    *)
AppendLog(data) ==
    /\ ~flushErr
    /\ IF Direct(data)
       THEN /\ Drained
            /\ Persist(data, Len(data))
            /\ UNCHANGED buffer
       ELSE /\ Len(buffer) + Len(data) <= BufferSize
            /\ buffer' = buffer \o data
            /\ UNCHANGED <<segments, live, active>>
    /\ UNCHANGED flushErr

-----------------------------------------------------------------------------
(* Writing.                                                                *)

Written(data, k) == {data[i][k] : i \in DOMAIN data} \ {Absent}

(* checkWritableLocked, under st.mu.                                       *)
Writable == phase = "open" /\ lock = "none" /\ ~backgroundErr

(* Put, Delete and WriteBatch: WAL first, then the active MemTable, then   *)
(* maybeFreezeLocked.  Whether the table is full is a matter of sizes,     *)
(* left open here; when it is, the call goes on to freeze it under st.mu.  *)
Write(data) ==
    /\ Writable
    /\ AppendLog(data)
    /\ mem' = Overlay(mem, Merge(data, DOMAIN data))
    /\ lock' \in {"none", "freeze"}
    /\ doubt' = [k \in Key |-> IF Written(data, k) = {} THEN doubt[k] ELSE {}]
    /\ older' = [k \in Key |->
          IF Written(data, k) = {} THEN older[k]
          ELSE IF Direct(data) THEN {}
          ELSE older[k] \cup {Answer(Lookup(k))}
                 \cup {Answer(e) : e \in doubt[k] \cup Written(data, k)}]
    /\ UNCHANGED <<files, onDisk, manifest, phase, immutables, tabVars,
                   backgroundErr, at, todo, covered, leftBehind>>

Put(k, v) == Write(<<Record(k, v)>>)

Delete(k) == Write(<<Record(k, Tombstone)>>)

(* An empty batch returns at once and changes nothing.                     *)
WriteBatch(batch) ==
    Write([i \in DOMAIN batch |-> Record(batch[i][1], batch[i][2])])

(* A direct write returned an error: any prefix of its records may be in   *)
(* the segment, the MemTable is left alone and the store stays writable.   *)
WriteFails(data) ==
    /\ "append" \in Faults
    /\ Writable
    /\ ~flushErr
    /\ Direct(data)
    /\ Drained
    /\ \E n \in 0..Len(data) :
          /\ Persist(data, n)
          /\ doubt' = [k \in Key |->
                doubt[k] \cup Written(SubSeq(data, 1, n), k)]
    /\ UNCHANGED <<files, onDisk, manifest, phase, buffer, flushErr, memVars,
                   tabVars, ctlVars, covered, older, leftBehind>>

(* Checkpoint up to its freezeActiveLocked: unlike a write it only asks    *)
(* whether the store is open.                                              *)
CheckpointBegin ==
    /\ phase = "open"
    /\ lock = "none"
    /\ lock' = "checkpoint"
    /\ UNCHANGED <<fileVars, phase, walVars, memVars, tabVars, backgroundErr,
                   at, todo, history>>

(* The highest sealed segment once Rotate is done; an empty active segment *)
(* stays active.                                                           *)
BugSealsEmpty == active
Sealed == IF segments[active] = EmptyLayer THEN active - 1 ELSE active

(* freezeActiveLocked.  Rotate flushes the buffer (WALFlush), seals the    *)
(* active segment unless it is empty, and returns the highest sealed ID;   *)
(* the full table joins the immutables with that cutoff.                   *)
Freeze ==
    /\ lock \in {"freeze", "checkpoint"}
    /\ lock' = "none"
    /\ IF mem = EmptyLayer
       THEN UNCHANGED <<live, active, mem, immutables>>
       ELSE /\ Drained
            /\ active' = IF segments[active] = EmptyLayer
                         THEN active ELSE active + 1
            /\ active' \in SegmentID
            /\ live' = live \cup {active'}
            /\ immutables' =
                  Append(immutables, [data |-> mem, cutoff |-> Sealed])
            /\ mem' = EmptyLayer
    /\ UNCHANGED <<segments, files, onDisk, manifest, phase, buffer, flushErr,
                   tabVars, backgroundErr, at, todo, history>>

(* Rotate failed.  Inside a write the error is kept as backgroundErr, and  *)
(* the write still succeeds; Checkpoint returns it.                        *)
FreezeFails ==
    /\ "rotate" \in Faults
    /\ lock \in {"freeze", "checkpoint"}
    /\ mem # EmptyLayer
    /\ lock' = "none"
    /\ backgroundErr' = (backgroundErr \/ lock = "freeze")
    /\ UNCHANGED <<fileVars, phase, walVars, memVars, tabVars, at, todo, history>>

(* setBackgroundError and clearBackgroundError take st.mu on their own,    *)
(* after the operation whose outcome they report has released every lock.  *)
(* Their callers are the maintenance goroutine, Checkpoint and any reader  *)
(* that met a bad block, so here they may come at any time.                *)
SetBackgroundError ==
    /\ Faults # {}
    /\ Running
    /\ lock = "none"
    /\ backgroundErr' = TRUE
    /\ UNCHANGED <<fileVars, phase, walVars, memVars, tabVars, lock, at, todo,
                   history>>

ClearBackgroundError ==
    /\ Running
    /\ lock = "none"
    /\ backgroundErr' = FALSE
    /\ UNCHANGED <<fileVars, phase, walVars, memVars, tabVars, lock, at, todo,
                   history>>

-----------------------------------------------------------------------------
(* flushOldestImmutable, step by step, under maintenanceMu.                *)

(* The immutable, its cutoff and the next path are read under st.mu.RLock; *)
(* then wm.Flush writes what is buffered (WALFlush).                       *)
FlushBegin ==
    /\ Running
    /\ at = "idle"
    /\ lock = "none"
    /\ immutables # <<>>
    /\ at' = "flush"
    /\ UNCHANGED <<fileVars, phase, walVars, memVars, tabVars, backgroundErr,
                   lock, todo, history>>

(* WriteSStable failed after the rename, and so did its os.Remove, whose   *)
(* error nobody looks at: the finished file stays.                         *)
TableLeft(layer) ==
    /\ {"sstable", "cleanup"} \subseteq Faults
    /\ nextSSTableID \in TableID \ onDisk
    /\ files' = [files EXCEPT ![nextSSTableID] = layer]
    /\ onDisk' = onDisk \cup {nextSSTableID}
    /\ leftBehind' = TRUE

(* A table that cannot be published is removed, and the error ignored.     *)
Discard ==
    \/ /\ files' = [files EXCEPT ![nextSSTableID] = EmptyLayer]
       /\ onDisk' = onDisk \ {nextSSTableID}
       /\ UNCHANGED leftBehind
    \/ /\ "cleanup" \in Faults
       /\ leftBehind' = TRUE
       /\ UNCHANGED <<files, onDisk>>

(* wm.Flush or WriteSStable returned an error, os.ErrExist included.       *)
FlushFails ==
    /\ at = "flush"
    /\ at' = "idle"
    /\ \/ /\ Faults \cap {"flush", "sstable"} # {} \/ nextSSTableID \in onDisk
          /\ UNCHANGED <<files, onDisk, leftBehind>>
       \/ TableLeft(Head(immutables).data)
    /\ UNCHANGED <<segments, live, manifest, phase, walVars, memVars, tabVars,
                   backgroundErr, lock, todo, covered, doubt, older>>

(* WriteSStable renames the finished file into place, and never over one   *)
(* that exists (os.ErrExist).                                              *)
FlushWriteTable ==
    /\ at = "flush"
    /\ nextSSTableID \in TableID \ onDisk
    /\ files' = [files EXCEPT ![nextSSTableID] = Head(immutables).data]
    /\ onDisk' = onDisk \cup {nextSSTableID}
    /\ at' = "written"
    /\ UNCHANGED <<segments, live, manifest, phase, walVars, memVars, tabVars,
                   backgroundErr, lock, todo, history>>

(* Under st.mu: save the Manifest, publish the table, drop the immutable,  *)
(* and start PruneThrough(cutoff).  A crash after this step finds the      *)
(* table in the Manifest and the old segments still there.                 *)
FlushPublish ==
    /\ at = "written"
    /\ lock = "none"
    /\ lock' = "publish"
    /\ at' = "prune"
    /\ sstables' = Append(sstables, nextSSTableID)
    /\ nextSSTableID' = nextSSTableID + 1
    /\ manifest' = [exists |-> TRUE, tables |-> sstables',
                    next |-> nextSSTableID']
    /\ immutables' = Tail(immutables)
    /\ covered' = Head(immutables).cutoff
    /\ todo' = {s \in live : s <= covered'}
    /\ UNCHANGED <<segments, live, files, onDisk, phase, walVars, mem,
                   backgroundErr, doubt, older, leftBehind>>

(* saveManifest failed: the new file is discarded, nothing is published.   *)
FlushPublishFails ==
    /\ "manifest" \in Faults
    /\ at = "written"
    /\ lock = "none"
    /\ at' = "idle"
    /\ Discard
    /\ UNCHANGED <<segments, live, manifest, phase, walVars, memVars, tabVars,
                   backgroundErr, lock, todo, covered, doubt, older>>

BugPruneNewest == Max(todo)
PruneNext == Min(todo)

(* pruneThroughLocked visits the sealed segments in ascending order.  One  *)
(* that cannot be removed is skipped, and the loop goes on.                *)
PruneSegment ==
    /\ at = "prune"
    /\ todo # {}
    /\ LET s == PruneNext
       IN /\ todo' = todo \ {s}
          /\ \/ /\ live' = live \ {s}
                /\ segments' = [segments EXCEPT ![s] = EmptyLayer]
             \/ /\ "remove" \in Faults
                /\ UNCHANGED <<live, segments>>
    /\ UNCHANGED <<files, onDisk, manifest, phase, walVars, memVars, tabVars,
                   backgroundErr, lock, at, history>>

(* ListSegments failed: nothing is removed now, and the next checkpoint    *)
(* starts again from the oldest segment.                                   *)
PruneFails ==
    /\ "list" \in Faults
    /\ at = "prune"
    /\ todo = {s \in live : s <= covered}
    /\ todo' = {}
    /\ UNCHANGED <<fileVars, phase, walVars, memVars, tabVars, backgroundErr,
                   lock, at, history>>

PruneDone ==
    /\ at = "prune"
    /\ todo = {}
    /\ at' = "idle"
    /\ lock' = "none"
    /\ UNCHANGED <<fileVars, phase, walVars, memVars, tabVars, backgroundErr,
                   todo, history>>

-----------------------------------------------------------------------------
(* compactAll, under maintenanceMu.                                        *)

(* Every table is merged and, since nothing lies below, tombstones go.     *)
Compacted ==
    [k \in Key |-> Answer(OnTables(sstables, k))]

CompactBegin ==
    /\ phase = "open"
    /\ at = "idle"
    /\ lock = "none"
    /\ sstables # <<>>

(* The merged table is written, unless nothing is left to write.           *)
CompactWrite ==
    /\ CompactBegin
    /\ IF Compacted = EmptyLayer
       THEN /\ at' = "emptied"
            /\ UNCHANGED <<files, onDisk>>
       ELSE /\ at' = "compacted"
            /\ nextSSTableID \in TableID \ onDisk
            /\ files' = [files EXCEPT ![nextSSTableID] = Compacted]
            /\ onDisk' = onDisk \cup {nextSSTableID}
    /\ UNCHANGED <<segments, live, manifest, phase, walVars, memVars, tabVars,
                   backgroundErr, lock, todo, history>>

(* The writer failed.  That changes nothing unless its file stays.         *)
CompactFails ==
    /\ CompactBegin
    /\ Compacted # EmptyLayer
    /\ TableLeft(Compacted)
    /\ UNCHANGED <<segments, live, manifest, phase, walVars, memVars, tabVars,
                   ctlVars, covered, doubt, older>>

(* Under st.mu: the one table replaces all the others.                     *)
CompactPublish ==
    /\ phase = "open"
    /\ at \in {"compacted", "emptied"}
    /\ lock = "none"
    /\ at' = "cleanup"
    /\ IF at = "compacted"
       THEN /\ sstables' = <<nextSSTableID>>
            /\ nextSSTableID' = nextSSTableID + 1
       ELSE /\ sstables' = <<>>
            /\ UNCHANGED nextSSTableID
    /\ manifest' = [exists |-> TRUE, tables |-> sstables',
                    next |-> nextSSTableID']
    /\ todo' = {sstables[i] : i \in DOMAIN sstables}
    /\ UNCHANGED <<segments, live, files, onDisk, phase, walVars, memVars,
                   backgroundErr, lock, history>>

(* The store was closed meanwhile, or saveManifest failed.                 *)
CompactAborts ==
    /\ at \in {"compacted", "emptied"}
    /\ lock = "none"
    /\ phase = "closed" \/ "manifest" \in Faults
    /\ IF at = "compacted" THEN Discard
       ELSE UNCHANGED <<files, onDisk, leftBehind>>
    /\ at' = "idle"
    /\ UNCHANGED <<segments, live, manifest, phase, walVars, memVars, tabVars,
                   backgroundErr, lock, todo, covered, doubt, older>>

(* The replaced files are closed and removed after st.mu is released.      *)
RemoveTable ==
    /\ at = "cleanup"
    /\ \E t \in todo :
          /\ todo' = todo \ {t}
          /\ \/ /\ onDisk' = onDisk \ {t}
                /\ files' = [files EXCEPT ![t] = EmptyLayer]
             \/ /\ "unlink" \in Faults
                /\ UNCHANGED <<onDisk, files>>
    /\ UNCHANGED <<segments, live, manifest, phase, walVars, memVars, tabVars,
                   backgroundErr, lock, at, history>>

CompactDone ==
    /\ at = "cleanup"
    /\ todo = {}
    /\ at' = "idle"
    /\ UNCHANGED <<fileVars, phase, walVars, memVars, tabVars, backgroundErr,
                   lock, todo, history>>

-----------------------------------------------------------------------------
(* Replay, shutdown, crash and restart.                                    *)

(* ReLoad: flush the buffer (WALFlush), then rebuild the active MemTable   *)
(* from every segment; the immutables are dropped, since they are replayed *)
(* too.                                                                    *)
ReLoad ==
    /\ phase = "open"
    /\ lock = "none"
    /\ at = "idle"
    /\ Drained
    /\ mem' = Merge(segments, live)
    /\ immutables' = <<>>
    /\ covered' = 0
    /\ doubt' = [k \in Key |-> {}]
    /\ UNCHANGED <<fileVars, phase, walVars, tabVars, ctlVars, older, leftBehind>>

(* The replay stopped at segment c.  The old tables are already gone, and  *)
(* the half-filled one stays in use.                                       *)
ReLoadFails ==
    /\ "replay" \in Faults
    /\ phase = "open"
    /\ lock = "none"
    /\ at = "idle"
    /\ Drained
    /\ \E c \in live : mem' = Merge(segments, {s \in live : s < c})
    /\ immutables' = <<>>
    /\ covered' = 0
    /\ UNCHANGED <<fileVars, phase, walVars, tabVars, ctlVars, doubt, older,
                   leftBehind>>

(* Close sets st.closed, then waits for the maintenance in progress.       *)
CloseBegin ==
    /\ phase = "open"
    /\ lock = "none"
    /\ phase' = "closed"
    /\ UNCHANGED <<fileVars, walVars, memVars, tabVars, ctlVars, history>>

(* Memory is gone; the files are all that is left.                         *)
Stop ==
    /\ phase' = "down"
    /\ buffer' = <<>>
    /\ flushErr' = FALSE
    /\ mem' = EmptyLayer
    /\ immutables' = <<>>
    /\ sstables' = <<>>
    /\ nextSSTableID' = 1
    /\ backgroundErr' = FALSE
    /\ lock' = "none"
    /\ at' = "idle"
    /\ todo' = {}
    /\ covered' = 0
    /\ doubt' = [k \in Key |-> {}]
    /\ older' = [k \in Key |-> {}]
    /\ leftBehind' = FALSE
    /\ UNCHANGED <<files, onDisk, manifest>>

(* wm.Close has flushed the buffer (WALFlush).  If that flush fails, what  *)
(* was buffered is lost as in a Crash.                                     *)
CloseEnd ==
    /\ phase = "closed"
    /\ lock = "none"
    /\ at = "idle"
    /\ Drained
    /\ Stop
    /\ UNCHANGED <<segments, live, active>>

(* The process dies.  A flush in progress may have written some records.   *)
Crash ==
    /\ Running
    /\ \E n \in 0..Len(buffer) :
          /\ lock = "publish" => n = 0 /\ active' = active
          /\ Persist(buffer, n)
    /\ Stop

BugTrustsManifest == 0
BugNextIsTaken == IF onDisk = {} THEN 0 ELSE Max(onDisk) + 1
HighestTable == IF onDisk = {} THEN 0 ELSE Max(onDisk)

(* NewStoreMangerWithOptions: open the newest segment for appending, load  *)
(* the tables, replay every segment into the active MemTable, and freeze   *)
(* it if it is full.                                                       *)
Open ==
    /\ phase = "down"
    /\ phase' = "open"
    /\ active' = IF live = {} THEN 1 ELSE Max(live)
    /\ live' = live \cup {active'}
    /\ \A i \in DOMAIN LoadedTables : LoadedTables[i] \in onDisk
    /\ sstables' = LoadedTables
    /\ nextSSTableID' = IF HighestTable >= manifest.next
                        THEN HighestTable + 1 ELSE manifest.next
    /\ manifest' = IF ~manifest.exists /\ onDisk # {}
                   THEN [exists |-> TRUE, tables |-> LoadedTables,
                         next |-> nextSSTableID']
                   ELSE manifest
    /\ mem' = Merge(segments, live)
    /\ lock' \in {"none", "freeze"}
    /\ UNCHANGED <<segments, files, onDisk, buffer, flushErr, immutables,
                   backgroundErr, at, todo, history>>

-----------------------------------------------------------------------------
Batches == UNION {[1..n -> Key \X Entry] : n \in 2..MaxBatch}

Writes == \/ \E k \in Key : \/ \E v \in Value : Put(k, v)
                            \/ Delete(k)
          \/ \E batch \in Batches : WriteBatch(batch)

FailedWrites ==
    \/ \E k \in Key, e \in Entry : WriteFails(<<Record(k, e)>>)
    \/ \E batch \in Batches :
          WriteFails([i \in DOMAIN batch |-> Record(batch[i][1], batch[i][2])])

(* Every step but an acknowledged write.                                   *)
Internal ==
    \/ FailedWrites
    \/ WALFlush \/ WALFlushFails
    \/ CheckpointBegin \/ Freeze \/ FreezeFails
    \/ SetBackgroundError \/ ClearBackgroundError
    \/ FlushBegin \/ FlushFails \/ FlushWriteTable
    \/ FlushPublish \/ FlushPublishFails
    \/ PruneSegment \/ PruneFails \/ PruneDone
    \/ CompactWrite \/ CompactFails \/ CompactPublish \/ CompactAborts
    \/ RemoveTable \/ CompactDone
    \/ ReLoad \/ ReLoadFails
    \/ CloseBegin \/ CloseEnd \/ Crash \/ Open

Next == Writes \/ Internal

Spec == Init /\ [][Next]_vars

-----------------------------------------------------------------------------
(* Properties.                                                             *)

Manifests == [exists : BOOLEAN, tables : Seq(TableID), next : 1..(MaxTable + 1)]

Immutables == [data : Layer, cutoff : 0..MaxSegment]

TypeOK ==
    /\ segments \in [SegmentID -> Layer]
    /\ live \in SUBSET SegmentID
    /\ files \in [TableID -> Layer]
    /\ onDisk \in SUBSET TableID
    /\ manifest \in Manifests
    /\ phase \in {"open", "closed", "down"}
    /\ active \in SegmentID
    /\ buffer \in Seq(Layer)
    /\ flushErr \in BOOLEAN
    /\ mem \in Layer
    /\ immutables \in Seq(Immutables)
    /\ sstables \in Seq(TableID)
    /\ nextSSTableID \in 1..(MaxTable + 1)
    /\ backgroundErr \in BOOLEAN
    /\ lock \in {"none", "freeze", "checkpoint", "publish"}
    /\ at \in {"idle", "flush", "written", "prune", "compacted", "emptied",
              "cleanup"}
    /\ todo \in SUBSET (SegmentID \cup TableID)
    /\ covered \in 0..MaxSegment
    /\ doubt \in [Key -> SUBSET Entry]
    /\ older \in [Key -> SUBSET Answers]
    /\ leftBehind \in BOOLEAN

(* What is on disk, completed with the records still buffered, answers     *)
(* every key as the running store does, except where a write that failed   *)
(* left its bytes behind.  So freezing, flushing, publishing, pruning and  *)
(* compacting, each interrupted at any step, lose and revive nothing.      *)
LogCompletes ==
    Running => \A k \in Key :
        Answer(Over(Logged(0, k), OnTables(LoadedTables, k)))
            \in {Answer(e) : e \in {Lookup(k)} \cup doubt[k]}

(* Segments a published table has covered may stay behind, after a crash   *)
(* or a failed ListSegments; whatever they still hold only repeats what    *)
(* the tables answer.  So a prune may stop at any segment.                 *)
LeftoversRepeat ==
    Running => \A k \in Key :
        Logged(covered, k) = Absent /\ Leftover(k) # Absent =>
            Answer(Leftover(k))
                \in {Answer(e) : e \in {OnTables(sstables, k)} \cup doubt[k]}

(* Removing a segment never changes what a restart would answer, unless    *)
(* the answer was that of a write that had failed.                         *)
PruneKeepsAnswers ==
    [][Running /\ live' # live /\ live' \subseteq live =>
          \A k \in Key : \/ Answer(Recovered(k)') = Answer(Recovered(k))
                         \/ Recovered(k) \in doubt[k]]_vars

(* A restart at any moment finds every table it is told to load, and the   *)
(* running store reads the tables the Manifest lists.                      *)
ManifestMatches ==
    /\ \A i \in DOMAIN LoadedTables : LoadedTables[i] \in onDisk
    /\ Running => sstables = IF manifest.exists THEN manifest.tables ELSE <<>>

(* The file ID to be used next is free, so that WriteSStable does not meet *)
(* os.ErrExist: not after a crash that left unpublished files either.  A   *)
(* process that could not remove a table it never published is the one     *)
(* exception: every flush of it fails, until a restart picks a free ID.    *)
FreshTableID ==
    Running => \A t \in onDisk :
        \/ t < nextSSTableID
        \/ /\ t = nextSSTableID
           /\ at \in {"written", "compacted"} \/ leftBehind

(* The sticky flush error is always backed by buffered records whose retry *)
(* clears it: flushing an empty buffer would leave it set for ever.        *)
StickyErrorHasWork == flushErr => buffer # <<>>

(* Cutoffs grow in flush order and stay below the active segment, so that  *)
(* PruneThrough never returns ErrInvalidPrune.                             *)
CutoffsOrdered ==
    /\ \A i \in DOMAIN immutables :
          /\ covered <= immutables[i].cutoff
          /\ immutables[i].cutoff < active
          /\ \A j \in DOMAIN immutables :
                i < j => immutables[i].cutoff <= immutables[j].cutoff
    /\ covered < active
=============================================================================
