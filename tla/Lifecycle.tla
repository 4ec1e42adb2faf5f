------------------------------ MODULE Lifecycle ------------------------------
(***************************************************************************)
(* The background work of a store and its end (store.go, upgrade.go,       *)
(* directory_lock.go): one maintenance goroutine that is woken through two *)
(* channels of capacity one, clients that call Checkpoint, CompactLevel,   *)
(* ReLoad and UpgradeFormat meanwhile, Close, and the lock on the          *)
(* directory that Close gives back.                                        *)
(*                                                                         *)
(* What lies in a table is abstracted to a count: `active' records, tables *)
(* `frozen' in memory, tables of level 0.  What happens to the records is  *)
(* module SamStore's subject, how files are merged that of module Levels.  *)
(* Everything the code does under one hold of st.mu is one step.           *)
(***************************************************************************)
EXTENDS Integers, FiniteSets

CONSTANTS
    Client,          \* the goroutines that call the store
    Nobody,
    AutoCheckpoint,  \* the option of this name
    Limit,           \* MemTableLimit, in records
    Threshold,       \* CompactionThreshold
    MaxTables,       \* bound on the tables ever frozen
    MaxErrors,       \* bound on the errors that happen
    MayFail          \* what may fail

FailureKinds == {"freeze", "flush", "prune", "compaction", "read", "sync", "save"}

Worker == "worker"
Closer == "close"
Proc   == Client \cup {Worker, Closer}

ASSUME LifecycleAssumption ==
    /\ Client \cap {Worker, Closer} = {}
    /\ Nobody \notin Proc
    /\ AutoCheckpoint \in BOOLEAN
    /\ Limit \in Nat \ {0}
    /\ Threshold \in Nat \ {0}
    /\ MaxTables \in Nat
    /\ MaxErrors \in Nat
    /\ MayFail \subseteq FailureKinds

VARIABLES
    active,           \* records in the active MemTable, Limit standing for more
    frozen,           \* len(st.immutables)
    level0,           \* published tables of level 0
    unpublished,      \* SSTables written that no Manifest names yet
    format,           \* FormatVersion of the Manifest: "old" or "current"
    flushToken,       \* something is in flushCh
    compactionToken,  \* something is in compactionCh
    backgroundErr,    \* st.backgroundErr # nil
    closed,           \* st.closed, and st.done is closed
    maintenance,      \* who holds maintenanceMu
    doing,            \* where every goroutine is
    holder,           \* who holds the directory lock: "store", "other", "none"
    made, errors,   \* how many tables were frozen, calls failed
    masked            \* an error was cleared while tables were waiting

disk  == <<level0, unpublished, format>>
bookkeeping == <<made, errors>>
tokens == <<flushToken, compactionToken>>
lifeVars == <<active, frozen, disk, tokens, backgroundErr, closed, maintenance,
              doing, holder, bookkeeping, masked>>

-----------------------------------------------------------------------------
Go(p, where) == doing' = [doing EXCEPT ![p] = where]

Fails(kind) ==
    /\ kind \in MayFail
    /\ errors < MaxErrors
    /\ errors' = errors + 1

SetError == backgroundErr' = TRUE

ClearError ==
    /\ masked' = (masked \/ (backgroundErr /\ frozen > 0))
    /\ backgroundErr' = FALSE

CompactionDue(count) == count >= Threshold

\* maintenanceMu.Lock(), to go on at `where'.
Acquire(p, where) ==
    /\ maintenance = Nobody
    /\ maintenance' = p
    /\ Go(p, where)

\* The deferred Unlock, to go on at `where'.
Unlock(p, where) ==
    /\ maintenance' = Nobody
    /\ Go(p, where)

\* freezeActiveLocked when the table is not empty and Rotate succeeds.
Freeze ==
    /\ made < MaxTables
    /\ made' = made + 1
    /\ frozen' = frozen + 1
    /\ active' = 0

LifecycleInit ==
    /\ level0 = 0
    /\ unpublished = 0
    /\ format \in {"old", "current"}
    /\ compactionToken = FALSE
    /\ closed = FALSE
    /\ maintenance = Nobody
    /\ doing = [p \in Proc |-> IF p = Worker THEN "select" ELSE "idle"]
    /\ holder = "store"
    /\ errors = 0
    /\ masked = FALSE
    /\ \/ /\ active \in 0 .. Limit - (IF AutoCheckpoint THEN 1 ELSE 0)
          /\ frozen = 0
          /\ made = 0
          /\ flushToken = FALSE
          /\ backgroundErr = FALSE
       \/ /\ AutoCheckpoint                \* the replayed log fills a table
          /\ active = 0
          /\ frozen = 1
          /\ made = 1
          /\ flushToken = TRUE
          /\ backgroundErr = FALSE
       \/ /\ AutoCheckpoint
          /\ "freeze" \in MayFail         \* and it could not be frozen
          /\ active = Limit
          /\ frozen = 0
          /\ made = 0
          /\ flushToken = FALSE
          /\ backgroundErr = TRUE

-----------------------------------------------------------------------------
(* The callers of Put and Get.  Each holds st.mu from beginning to end.    *)

\* scheduleFlushLocked: what is in flushCh after it.
BugScheduled == flushToken
Scheduled == TRUE

Put ==
    /\ ~closed
    /\ ~backgroundErr
    /\ UNCHANGED <<disk, compactionToken, closed, maintenance, doing, holder,
                   masked>>
    /\ LET full == AutoCheckpoint /\ active + 1 >= Limit IN
       \/ /\ ~full
          /\ active' = IF active < Limit THEN active + 1 ELSE active
          /\ UNCHANGED <<frozen, flushToken, backgroundErr, bookkeeping>>
       \/ /\ full
          /\ Freeze
          /\ flushToken' = Scheduled
          /\ UNCHANGED <<backgroundErr, errors>>
       \/ /\ full
          /\ Fails("freeze")
          /\ active' = Limit
          /\ SetError
          /\ UNCHANGED <<frozen, flushToken, made>>

\* GetWithError meets a block it cannot read; it does not ask for closed.
ReadFails ==
    /\ Fails("read")
    /\ SetError
    /\ UNCHANGED <<active, frozen, disk, tokens, closed, maintenance, doing,
                   holder, made, masked>>

-----------------------------------------------------------------------------
(* flushAllImmutables, called by the worker and by Checkpoint.  It does    *)
(* not ask whether the store was closed meanwhile.                         *)

BeginFlush(p) ==
    /\ doing[p] = "waitToFlush"
    /\ Acquire(p, "flush")
    /\ UNCHANGED <<active, frozen, disk, tokens, backgroundErr, closed, holder,
                   bookkeeping, masked>>

BugAllFlushed == TRUE
AllFlushed == frozen = 0

FlushDone(p) ==
    /\ doing[p] = "flush"
    /\ AllFlushed
    /\ Unlock(p, "flushed")
    /\ UNCHANGED <<active, frozen, disk, tokens, backgroundErr, closed, holder,
                   bookkeeping, masked>>

WriteTable(p) ==
    /\ doing[p] = "flush"
    /\ frozen > 0
    /\ \/ /\ unpublished' = unpublished + 1
          /\ Go(p, "publish")
          /\ UNCHANGED <<maintenance, errors>>
       \/ /\ Fails("flush")
          /\ Unlock(p, "flushFailed")
          /\ UNCHANGED unpublished
    /\ UNCHANGED <<active, frozen, level0, format, tokens, backgroundErr, closed,
                   holder, made, masked>>

\* From saveManifest to PruneThrough, and scheduleCompactionLocked.
PublishTable(p) ==
    /\ doing[p] = "publish"
    /\ unpublished' = unpublished - 1
    /\ \/ /\ level0' = level0 + 1
          /\ frozen' = frozen - 1
          /\ masked' = (masked /\ frozen > 1)
          /\ \/ /\ Go(p, "flush")
                /\ compactionToken' =
                       (compactionToken \/ CompactionDue(level0 + 1))
                /\ UNCHANGED <<maintenance, errors>>
             \/ /\ Fails("prune")
                /\ Unlock(p, "flushFailed")
                /\ UNCHANGED compactionToken
       \/ /\ Fails("flush")
          /\ Unlock(p, "flushFailed")
          /\ UNCHANGED <<level0, frozen, masked, compactionToken>>
    /\ UNCHANGED <<active, format, flushToken, backgroundErr, closed, holder, made>>

-----------------------------------------------------------------------------
(* CompactLevel and compactAll, called by the worker and by clients.       *)

\* The first look at st.closed, under maintenanceMu.
BeginCompaction(p) ==
    /\ doing[p] \in {"waitToCompact", "waitToRewrite"}
    /\ maintenance = Nobody
    /\ IF closed THEN Go(p, "storeClosed") /\ UNCHANGED maintenance
       ELSE Acquire(p, IF doing[p] = "waitToCompact" THEN "merge" ELSE "rewrite")
    /\ UNCHANGED <<active, frozen, disk, tokens, backgroundErr, closed, holder,
                   bookkeeping, masked>>

Merge(p) ==
    /\ doing[p] \in {"merge", "rewrite"}
    /\ LET all == doing[p] = "rewrite" IN
       \/ /\ unpublished' = unpublished + 1
          /\ Go(p, IF all THEN "publishRewrite" ELSE "publishMerge")
          /\ UNCHANGED <<maintenance, errors>>
       \/ /\ Fails("compaction")
          /\ Unlock(p, "compactionFailed")
          /\ UNCHANGED unpublished
    /\ UNCHANGED <<active, frozen, level0, format, tokens, backgroundErr, closed,
                   holder, made, masked>>

\* The second look at st.closed; the inputs leave level 0.  An error after
\* the Manifest is saved, in removing them, is an error all the same.
PublishMerge(p) ==
    /\ doing[p] \in {"publishMerge", "publishRewrite"}
    /\ unpublished' = unpublished - 1
    /\ LET all == doing[p] = "publishRewrite" IN
       \/ /\ closed
          /\ Unlock(p, "storeClosed")
          /\ UNCHANGED <<level0, errors>>
       \/ /\ ~closed
          /\ level0' = 0
          /\ Unlock(p, IF all THEN "rewritten" ELSE "compacted")
          /\ UNCHANGED errors
       \/ /\ ~closed
          /\ level0' \in {0, level0}
          /\ Fails("compaction")
          /\ Unlock(p, "compactionFailed")
    /\ UNCHANGED <<active, frozen, format, tokens, backgroundErr, closed, holder,
                   made, masked>>

-----------------------------------------------------------------------------
(* runMaintenance.                                                         *)

TakeFlush ==
    /\ doing[Worker] = "select"
    /\ flushToken
    /\ flushToken' = FALSE
    /\ Go(Worker, "waitToFlush")
    /\ UNCHANGED <<active, frozen, disk, compactionToken, backgroundErr, closed,
                   maintenance, holder, bookkeeping, masked>>

\* CompactNextLevel returns at once if no level is due.
TakeCompaction ==
    /\ doing[Worker] = "select"
    /\ compactionToken
    /\ compactionToken' = FALSE
    /\ Go(Worker, IF CompactionDue(level0) THEN "waitToCompact" ELSE "compacted")
    /\ UNCHANGED <<active, frozen, disk, flushToken, backgroundErr, closed,
                   maintenance, holder, bookkeeping, masked>>

BugMayExit == closed /\ frozen = 0
MayExit == closed

WorkerExits ==
    /\ doing[Worker] = "select"
    /\ MayExit
    /\ Go(Worker, "exited")
    /\ UNCHANGED <<active, frozen, disk, tokens, backgroundErr, closed,
                   maintenance, holder, bookkeeping, masked>>

FlushSucceeded ==
    /\ doing[Worker] = "flushed"
    /\ ClearError
    /\ Go(Worker, "select")
    /\ UNCHANGED <<active, frozen, disk, tokens, closed, maintenance, holder,
                   bookkeeping>>

FlushFailed ==
    /\ doing[Worker] = "flushFailed"
    /\ SetError
    /\ Go(Worker, "select")
    /\ UNCHANGED <<active, frozen, disk, tokens, closed, maintenance, holder,
                   bookkeeping, masked>>

CompactionSucceeded ==
    /\ doing[Worker] = "compacted"
    /\ ClearError
    /\ Go(Worker, "reschedule")
    /\ UNCHANGED <<active, frozen, disk, tokens, closed, maintenance, holder,
                   bookkeeping>>

Reschedule ==
    /\ doing[Worker] = "reschedule"
    /\ compactionToken' = (compactionToken \/ CompactionDue(level0))
    /\ Go(Worker, "select")
    /\ UNCHANGED <<active, frozen, disk, flushToken, backgroundErr, closed,
                   maintenance, holder, bookkeeping, masked>>

\* ErrStoreClosed is not kept as an error.
CompactionFailed ==
    /\ doing[Worker] \in {"compactionFailed", "storeClosed"}
    /\ IF doing[Worker] = "storeClosed" THEN UNCHANGED backgroundErr
       ELSE SetError
    /\ Go(Worker, "select")
    /\ UNCHANGED <<active, frozen, disk, tokens, closed, maintenance, holder,
                   bookkeeping, masked>>

-----------------------------------------------------------------------------
(* The clients.  UpgradeFormat begins with a Checkpoint; whether a client  *)
(* called the one or the other is decided when that Checkpoint returns.    *)

\* Checkpoint up to its Unlock.
CallCheckpoint(c) ==
    /\ doing[c] = "idle"
    /\ ~closed
    /\ \/ /\ active > 0
          /\ Freeze
          /\ Go(c, "waitToFlush")
          /\ UNCHANGED errors
       \/ /\ active = 0
          /\ Go(c, "waitToFlush")
          /\ UNCHANGED <<active, frozen, bookkeeping>>
       \/ /\ active > 0
          /\ Fails("freeze")
          /\ UNCHANGED <<active, frozen, made, doing>>
    /\ UNCHANGED <<disk, tokens, backgroundErr, closed, maintenance, holder, masked>>

\* The end of Checkpoint.  wm.Flush is called, and may fail, if there was
\* nothing to write; here it may fail in any case.
CheckpointSucceeded(c) ==
    /\ doing[c] = "flushed"
    /\ \/ /\ ClearError
          /\ doing' \in {[doing EXCEPT ![c] = w] : w \in {"idle", "upgrade"}}
          /\ UNCHANGED errors
       \/ /\ Fails("sync")
          /\ Go(c, "idle")
          /\ UNCHANGED <<backgroundErr, masked>>
    /\ UNCHANGED <<active, frozen, disk, tokens, closed, maintenance, holder, made>>

CheckpointFailed(c) ==
    /\ doing[c] = "flushFailed"
    /\ SetError
    /\ Go(c, "idle")
    /\ UNCHANGED <<active, frozen, disk, tokens, closed, maintenance, holder,
                   bookkeeping, masked>>

\* UpgradeFormat after its Checkpoint.
Upgrade(c) ==
    /\ doing[c] = "upgrade"
    /\ Go(c, IF closed \/ format = "current" THEN "idle" ELSE "waitToRewrite")
    /\ UNCHANGED <<active, frozen, disk, tokens, backgroundErr, closed,
                   maintenance, holder, bookkeeping, masked>>

\* It saves the Manifest under st.mu alone.
SaveFormat(c) ==
    /\ doing[c] = "rewritten"
    /\ Go(c, "idle")
    /\ \/ /\ format' = "current"
          /\ UNCHANGED errors
       \/ /\ Fails("save")
          /\ UNCHANGED format
    /\ UNCHANGED <<active, frozen, level0, unpublished, tokens, backgroundErr,
                   closed, maintenance, holder, made, masked>>

CallCompact(c) ==
    /\ doing[c] = "idle"
    /\ Go(c, "waitToCompact")
    /\ UNCHANGED <<active, frozen, disk, tokens, backgroundErr, closed,
                   maintenance, holder, bookkeeping, masked>>

\* A client gets the error; it is not kept in the store.
CompactReturns(c) ==
    /\ doing[c] \in {"compacted", "compactionFailed", "storeClosed"}
    /\ Go(c, "idle")
    /\ UNCHANGED <<active, frozen, disk, tokens, backgroundErr, closed,
                   maintenance, holder, bookkeeping, masked>>

\* ReLoad holds both locks throughout: what was frozen is active again.
ReLoad(c) ==
    /\ doing[c] = "idle"
    /\ maintenance = Nobody
    /\ ~closed
    /\ frozen' = 0
    /\ active' = IF frozen > 0 THEN Limit ELSE active
    /\ masked' = FALSE
    /\ UNCHANGED <<disk, tokens, backgroundErr, closed, maintenance, doing,
                   holder, bookkeeping>>

-----------------------------------------------------------------------------
(* Close, and what another process does with the directory.                *)

SignalClose ==
    /\ doing[Closer] = "idle"
    /\ closed' = TRUE
    /\ Go(Closer, "join")
    /\ UNCHANGED <<active, frozen, disk, tokens, backgroundErr, maintenance,
                   holder, bookkeeping, masked>>

BugMayJoin == maintenance = Nobody
MayJoin == doing[Worker] = "exited"

\* workerWG.Wait().
Join ==
    /\ doing[Closer] = "join"
    /\ MayJoin
    /\ Go(Closer, "lock")
    /\ UNCHANGED <<active, frozen, disk, tokens, backgroundErr, closed,
                   maintenance, holder, bookkeeping, masked>>

\* Both locks are taken, everything is closed, the directory is given back.
FinishClose ==
    /\ doing[Closer] = "lock"
    /\ maintenance = Nobody
    /\ holder' = "none"
    /\ Go(Closer, "closed")
    /\ UNCHANGED <<active, frozen, disk, tokens, backgroundErr, closed,
                   maintenance, bookkeeping, masked>>

\* acquireDirectoryLock in another process; it fails while the lock is held.
OtherOpens ==
    /\ holder = "none"
    /\ holder' = "other"
    /\ UNCHANGED <<active, frozen, disk, tokens, backgroundErr, closed,
                   maintenance, doing, bookkeeping, masked>>

OtherCloses ==
    /\ holder = "other"
    /\ holder' = "none"
    /\ UNCHANGED <<active, frozen, disk, tokens, backgroundErr, closed,
                   maintenance, doing, bookkeeping, masked>>

-----------------------------------------------------------------------------
Acquiring(p) == BeginFlush(p) \/ BeginCompaction(p)

Working(p) ==
    \/ FlushDone(p)
    \/ WriteTable(p)
    \/ PublishTable(p)
    \/ Merge(p)
    \/ PublishMerge(p)

WorkerStep ==
    \/ TakeFlush
    \/ TakeCompaction
    \/ WorkerExits
    \/ FlushSucceeded
    \/ FlushFailed
    \/ CompactionSucceeded
    \/ Reschedule
    \/ CompactionFailed

ClientReturns(c) ==
    \/ CheckpointSucceeded(c)
    \/ CheckpointFailed(c)
    \/ Upgrade(c)
    \/ SaveFormat(c)
    \/ CompactReturns(c)

LifecycleNext ==
    \/ Put
    \/ ReadFails
    \/ WorkerStep
    \/ \E p \in Client \cup {Worker} : Acquiring(p) \/ Working(p)
    \/ \E c \in Client :
          \/ CallCheckpoint(c)
          \/ CallCompact(c)
          \/ ReLoad(c)
          \/ ClientReturns(c)
    \/ SignalClose
    \/ Join
    \/ FinishClose
    \/ OtherOpens
    \/ OtherCloses

(* A goroutine that can run does; sync.Mutex hands itself to a waiter that *)
(* has waited long enough.  Nothing makes a client call, or Close.         *)
LifecycleFairness ==
    /\ WF_lifeVars(WorkerStep)
    /\ \A p \in Client \cup {Worker} :
          SF_lifeVars(Acquiring(p)) /\ WF_lifeVars(Working(p))
    /\ \A c \in Client : WF_lifeVars(ClientReturns(c))
    /\ WF_lifeVars(Join)
    /\ SF_lifeVars(FinishClose)

LifecycleSpec == LifecycleInit /\ [][LifecycleNext]_lifeVars /\ LifecycleFairness

-----------------------------------------------------------------------------
Flushing == {"waitToFlush", "flush", "publish", "flushFailed"}

(* A frozen table always has somebody who will write it or an error that   *)
(* stops the writers: a token in flushCh, a goroutine in                   *)
(* flushAllImmutables, or backgroundErr.  The one way out is an error that *)
(* was cleared by work of somebody else while the table was waiting, after *)
(* which only the next freeze or Checkpoint flushes it.                    *)
NoTableForgotten ==
    frozen > 0 =>
        \/ flushToken
        \/ \E p \in Proc : doing[p] \in Flushing
        \/ backgroundErr
        \/ masked

(* The maintenance goroutine writes nothing to the directory after Close   *)
(* has given the directory back.                                           *)
WorkerOwnsDirectory ==
    [][doing'[Worker] # doing[Worker] /\ disk' # disk => holder = "store"]_lifeVars

(* No goroutine of a store writes to its directory when the store no       *)
(* longer holds the lock, when another process may have opened it.         *)
DirectoryOwned == [][disk' # disk => holder = "store"]_lifeVars

(* Close returns: it waits for the worker and for maintenanceMu, and the   *)
(* worker ends whatever it is woken for meanwhile.                         *)
CloseReturns == closed ~> doing[Closer] = "closed"

(* A frozen table is flushed, unless a failure is reported or hidden or    *)
(* the store is closed first.                                              *)
FrozenFlushed ==
    frozen > 0 ~> (frozen = 0 \/ backgroundErr \/ masked \/ closed)
=============================================================================
