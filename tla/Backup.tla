------------------------------- MODULE Backup -------------------------------
(***************************************************************************)
(* Copying a store that is in use (backup.go): Backup makes a checkpoint,  *)
(* then holds maintenanceMu and a read lock while it copies the Manifest,  *)
(* the log and the tables one after the other; RestoreBackup makes a       *)
(* directory of the copy.  Writers, the ticker of the log, flushes and     *)
(* compactions go on around it, and the process may die anywhere.          *)
(*                                                                         *)
(* What a file holds is a set of writes, or for the Manifest the tables it *)
(* names.  Which write is the newest of its key is not told apart here.    *)
(***************************************************************************)
EXTENDS Integers, FiniteSetsExt, Sequences

CONSTANTS MaxWrites,      \* bound on the writes
          MaxSegments,    \* bound on the numbers of segments
          MaxTableFiles   \* and of table files

ASSUME BackupAssumption ==
    /\ MaxWrites \in Nat
    /\ MaxSegments \in Nat
    /\ MaxTableFiles \in Nat

VARIABLES
    written,      \* the number of writes so far, which are 1 .. written
    buffered,     \* those that are in the buffer of the log alone
    segments,     \* [segment -> the writes in it], the last being active
    waiting,      \* the immutables: [writes, the segment that covers them]
    tableFiles,   \* [table file -> the writes in it]
    named,        \* the tables the Manifest names
    pointer,      \* the name of the file that names the Manifest, or ""
    worker,       \* what the holder of maintenanceMu is doing
    copying,      \* the Backup that runs: where it is, what is left to copy
    copies,       \* and the files it has copied
    snapshot,     \* the writes there were when it took the locks
    digests,      \* the files the metadata of the backup lists
    backupFiles,  \* and those that are there
    restored      \* the files of the directory RestoreBackup has made

storeVars  == <<written, buffered, segments, waiting, tableFiles, named, pointer>>
copyVars   == <<copying, copies, snapshot, digests, backupFiles, restored>>
backupVars == <<storeVars, worker, copyVars>>

(* Files with one more, or with one that holds something else.              *)
WithFile(f, name, content) ==
    [n \in DOMAIN f \cup {name} |-> IF n = name THEN content ELSE f[n]]

Free     == [does |-> "nothing"]
NoBackup == [at |-> "none", todo |-> {}]

BackupInit ==
    /\ written = 0
    /\ buffered = {}
    /\ segments = [s \in {1} |-> {}]
    /\ waiting = <<>>
    /\ tableFiles = <<>>
    /\ named = {}
    /\ pointer = ""
    /\ worker = Free
    /\ copying = NoBackup
    /\ copies = <<>>
    /\ snapshot = {}
    /\ digests = <<>>
    /\ backupFiles = <<>>
    /\ restored = <<>>

-----------------------------------------------------------------------------
Active   == Max(DOMAIN segments)
Logged   == [segments EXCEPT ![Active] = @ \cup buffered]
InLog    == UNION {segments[s] : s \in DOMAIN segments}
InTables == UNION {tableFiles[t] : t \in named}
Frozen   == UNION {waiting[i].writes : i \in DOMAIN waiting}

\* The active MemTable.
InMemTable == (InLog \cup buffered) \ (InTables \cup Frozen)

\* st.mu is held for reading.
BugLocked == FALSE
Locked == copying.at = "copy"

-----------------------------------------------------------------------------
(* The store around a backup.                                              *)

PutRecord ==
    /\ ~Locked
    /\ written < MaxWrites
    /\ written' = written + 1
    /\ buffered' = buffered \cup {written + 1}
    /\ UNCHANGED <<segments, waiting, tableFiles, named, pointer, worker, copyVars>>

\* The ticker of the log takes none of the locks of the store.
FlushBuffer ==
    /\ buffered # {}
    /\ segments' = Logged
    /\ buffered' = {}
    /\ UNCHANGED <<written, waiting, tableFiles, named, pointer, worker, copyVars>>

\* freezeActiveLocked: the log goes on in a segment of its own.
Freezing ==
    /\ Active < MaxSegments
    /\ waiting' = Append(waiting, [writes |-> InMemTable, covers |-> Active])
    /\ segments' = WithFile(Logged, Active + 1, {})
    /\ buffered' = {}

FreezeRecords ==
    /\ ~Locked
    /\ InMemTable # {}
    /\ Freezing
    /\ UNCHANGED <<written, tableFiles, named, pointer, worker, copyVars>>

\* maintenanceMu is taken and a table written: of the oldest immutable, or of
\* all tables.
WriteTableFile ==
    /\ worker = Free
    /\ \E does \in {"flush", "compact"}, id \in 1 .. MaxTableFiles :
       /\ id = Max(DOMAIN tableFiles \cup {0}) + 1
       /\ IF does = "flush" THEN waiting # <<>> ELSE named # {}
       /\ tableFiles' = WithFile(tableFiles, id,
              IF does = "flush" THEN waiting[1].writes ELSE InTables)
       /\ worker' = [does |-> does, table |-> id]
    /\ UNCHANGED <<written, buffered, segments, waiting, named, pointer, copyVars>>

\* Under st.mu the Manifest is saved and the log pruned, as far as it goes.
PublishFlush ==
    /\ worker.does = "flush"
    /\ ~Locked
    /\ named' = named \cup {worker.table}
    /\ pointer' = "CURRENT"
    /\ segments' \in {segments,
           [s \in {s \in DOMAIN segments : s > waiting[1].covers} |-> segments[s]]}
    /\ waiting' = Tail(waiting)
    /\ worker' = Free
    /\ UNCHANGED <<written, buffered, tableFiles, copyVars>>

PublishCompacted ==
    /\ worker.does = "compact"
    /\ ~Locked
    /\ named' = {worker.table}
    /\ pointer' = "CURRENT"
    /\ worker' = [does |-> "remove", tables |-> named]
    /\ UNCHANGED <<written, buffered, segments, waiting, tableFiles, copyVars>>

\* The inputs are removed without st.mu, but still under maintenanceMu.
RemoveInputs ==
    /\ worker.does = "remove"
    /\ tableFiles' = [t \in DOMAIN tableFiles \ worker.tables |-> tableFiles[t]]
    /\ worker' = Free
    /\ UNCHANGED <<written, buffered, segments, waiting, named, pointer, copyVars>>

-----------------------------------------------------------------------------
(* The backup.                                                             *)

NameOf(kind, id) == [kind |-> kind, id |-> id]
ManifestFile     == NameOf("MANIFEST", 0)
CurrentFile      == NameOf("CURRENT", 0)
FilesOf(kind, f) == {name.id : name \in {n \in DOMAIN f : n.kind = kind}}

\* The files of the directory, as they are now.
Directory ==
    [name \in {NameOf("wal", s) : s \in DOMAIN segments}
              \cup {NameOf("sst", t) : t \in DOMAIN tableFiles}
              \cup (IF pointer = "" THEN {} ELSE {ManifestFile})
              \cup (IF pointer = "CURRENT" THEN {CurrentFile} ELSE {}) |->
        CASE name.kind = "wal"      -> segments[name.id]
          [] name.kind = "sst"      -> tableFiles[name.id]
          [] name.kind = "MANIFEST" -> named
          [] OTHER                  -> {}]

\* The writes a store finds in a directory with these files.
Opened(f) ==
    (UNION {f[NameOf("sst", t)] : t \in f[ManifestFile]})
        \cup (UNION {f[NameOf("wal", s)] : s \in FilesOf("wal", f)})

\* VerifyBackup: the digests of what the metadata lists, and that it is enough.
Intact ==
    /\ digests # <<>>
    /\ \A name \in DOMAIN digests :
           name \in DOMAIN backupFiles /\ backupFiles[name] = digests[name]
    /\ {ManifestFile, CurrentFile} \subseteq DOMAIN digests
    /\ FilesOf("wal", digests) # {}
    /\ digests[ManifestFile] \subseteq FilesOf("sst", digests)

\* Checkpoint: freezes what there is, and waits for the flushes.
CallBackup ==
    /\ copying = NoBackup
    /\ digests = <<>>
    /\ IF InMemTable = {} THEN UNCHANGED <<buffered, segments, waiting>> ELSE Freezing
    /\ copying' = [NoBackup EXCEPT !.at = "checkpoint"]
    /\ UNCHANGED <<written, tableFiles, named, pointer, worker, copies, snapshot,
                   digests, backupFiles, restored>>

CheckpointDone ==
    /\ copying.at = "checkpoint"
    /\ worker = Free
    /\ waiting = <<>>
    /\ copying' = [copying EXCEPT !.at = "lock"]
    /\ UNCHANGED <<storeVars, worker, copies, snapshot, digests, backupFiles, restored>>

\* Both locks are taken, the log is flushed, a missing Manifest is written, and
\* the files to copy are listed.
LockFiles ==
    /\ copying.at = "lock"
    /\ worker = Free
    /\ worker' = [does |-> "backup"]
    /\ segments' = Logged
    /\ buffered' = {}
    /\ pointer' = IF pointer = "" THEN "CURRENT" ELSE pointer
    /\ copying' = [at |-> "copy",
                   todo |-> {CurrentFile, ManifestFile}
                            \cup {NameOf("wal", s) : s \in DOMAIN segments}
                            \cup {NameOf("sst", t) : t \in named}]
    /\ snapshot' = InMemTable \cup Frozen \cup InTables
    /\ UNCHANGED <<written, waiting, tableFiles, named, copies, digests,
                   backupFiles, restored>>

\* One file after the other; a missing one leaves only BackupFails.
CopyNext ==
    /\ copying.at = "copy"
    /\ copying.todo # {}
    /\ LET name == CHOOSE n \in copying.todo : TRUE IN
       /\ name \in DOMAIN Directory
       /\ copies' = WithFile(copies, name, Directory[name])
       /\ copying' = [copying EXCEPT !.todo = @ \ {name}]
    /\ UNCHANGED <<storeVars, worker, snapshot, digests, backupFiles, restored>>

\* The directory of the copies gets its name.
FinishBackup ==
    /\ copying.at = "copy"
    /\ copying.todo = {}
    /\ digests' = copies
    /\ backupFiles' = copies
    /\ copying' = NoBackup
    /\ copies' = <<>>
    /\ worker' = Free
    /\ UNCHANGED <<storeVars, snapshot, restored>>

\* Any step of it may fail, and a missing file makes it fail.
BackupFails ==
    /\ copying # NoBackup
    /\ copying' = NoBackup
    /\ copies' = <<>>
    /\ worker' = IF worker.does = "backup" THEN Free ELSE worker
    /\ UNCHANGED <<storeVars, snapshot, digests, backupFiles, restored>>

\* The backup loses a file, or one of its files what it holds.
SpoilBackup ==
    /\ digests # <<>>
    /\ backupFiles = digests
    /\ \E name \in DOMAIN digests :
       \/ backupFiles' = [backupFiles EXCEPT ![name] = {}]
       \/ backupFiles' = [n \in DOMAIN backupFiles \ {name} |-> backupFiles[n]]
    /\ UNCHANGED <<storeVars, worker, copying, copies, snapshot, digests, restored>>

\* The files the metadata lists are copied, and appear at once.
RestoreBackup ==
    /\ restored = <<>>
    /\ Intact
    /\ restored' = [name \in DOMAIN digests |-> backupFiles[name]]
    /\ UNCHANGED <<storeVars, worker, copying, copies, snapshot, digests, backupFiles>>

\* The process dies, in the middle of a publication if there is one, and the
\* directory is opened again: without a Manifest it is made of all tables.
CrashReopen ==
    /\ worker # Free \/ buffered # {} \/ copying # NoBackup
    /\ buffered' = {}
    /\ waiting' = <<>>
    /\ IF pointer = ""
       THEN /\ named' = DOMAIN tableFiles
            /\ pointer' = IF tableFiles = <<>> THEN "" ELSE "CURRENT"
       ELSE /\ UNCHANGED named
            /\ \/ UNCHANGED pointer
               \/ /\ worker.does \in {"flush", "compact"}
                  /\ pointer' = "CURRENT.bak"
    /\ worker' = Free
    /\ copying' = NoBackup
    /\ copies' = <<>>
    /\ UNCHANGED <<written, segments, tableFiles, snapshot, digests, backupFiles, restored>>

-----------------------------------------------------------------------------
BackupNext ==
    \/ PutRecord \/ FlushBuffer \/ FreezeRecords
    \/ WriteTableFile \/ PublishFlush \/ PublishCompacted \/ RemoveInputs
    \/ CallBackup \/ CheckpointDone \/ LockFiles \/ CopyNext
    \/ FinishBackup \/ BackupFails \/ SpoilBackup \/ RestoreBackup
    \/ CrashReopen

BackupSpec == BackupInit /\ [][BackupNext]_backupVars

-----------------------------------------------------------------------------
(* A backup is one moment of a store that is in use: as long as nobody     *)
(* has changed its files it verifies, and it holds exactly the writes      *)
(* there were when Backup took its locks, each in the log or in a table    *)
(* its Manifest names, whatever was flushed, compacted, pruned or written  *)
(* before, during and after.  A directory that RestoreBackup made of it    *)
(* holds the same, even when the backup was damaged before.                *)
BackupExact ==
    /\ (digests # <<>> /\ backupFiles = digests) => (Intact /\ Opened(digests) = snapshot)
    /\ restored # <<>> => Opened(restored) = snapshot
=============================================================================
