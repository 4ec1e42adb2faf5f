------------------------------- MODULE Levels -------------------------------
(***************************************************************************)
(* Leveled compaction (pkg/store/leveled_compaction.go and                 *)
(* compaction_tasks.go), full compaction with retention (compaction.go),   *)
(* and the table list they maintain.                                       *)
(*                                                                         *)
(* A key is a natural number, so that keys are ordered; an SSTable is a    *)
(* layer.  The position of a table in the list is its age, its level is a  *)
(* promise about key ranges.  maintenanceMu is "at # idle", so a flush is  *)
(* one step here (SamStore has its inside); a compaction is planned,       *)
(* writes one file per key range in parallel, publishes and cleans up.     *)
(*                                                                         *)
(* Operators named Bug... are used by no definition: each is a mistake the *)
(* code could make in the definition that follows it.                      *)
(***************************************************************************)
EXTENDS Layers, Subsequences, Functions

CONSTANTS LogKey,         \* structured log keys, in the order of their time
          Levelings,      \* the values of MaxLevels a start may find
          Threshold,      \* CompactionThreshold
          BaseSize,       \* LevelBaseSizeBytes, in records
          Multiplier,     \* LevelSizeMultiplier
          MaxInt,         \* math.MaxInt64
          Workers,        \* CompactionWorkers
          TaskSize,       \* CompactionTaskBytes, in records
          BlockSize,      \* records in a data block
          MaxSize,        \* MaxSizeBytes, in records; 0 is no limit
          Batches,        \* the layers that a flush may write
          MaxTable,       \* bound on SSTable file IDs
          Faults          \* the failures that may happen

FaultKinds == {"write",     \* one of the output files cannot be written
               "manifest",  \* saving the Manifest fails
               "unlink",    \* a replaced file cannot be removed
               "cleanup"}   \* an output of a failed compaction cannot be removed

ASSUME LevelsAssumption ==
    /\ Key \subseteq Nat \ {0} /\ IsFiniteSet(Key)
    /\ LogKey \subseteq Key
    /\ Levelings \subseteq Nat \ {0, 1}
    /\ {Threshold, MaxSize, MaxTable} \subseteq Nat
    /\ Batches \subseteq Layer \ {EmptyLayer}
    /\ {BaseSize, MaxInt, Workers, TaskSize, BlockSize} \subseteq Nat \ {0}
    /\ Multiplier \in Nat \ {0, 1}
    /\ Faults \subseteq FaultKinds

TableID == 1..MaxTable

VARIABLES
    files,       \* files[t]: what <t>.sst holds
    onDisk,      \* the .sst files that exist
    saved,       \* the Manifest CURRENT points to
    running,     \* there is a process
    maxLevels,   \* st.options.MaxLevels
    list,        \* st.sstables with st.manifest.SSTables, oldest first
    nextID,      \* st.nextSSTableID
    at,          \* where the compaction is ("repair" belongs to Repair)
    job,         \* what it merges into what
    todo,        \* outputs to write, then files to remove
    failed,      \* one of its outputs could not be written
    expired,     \* the log keys older than Retention
    kv           \* history: the answers the flushed records amount to

fileVars == <<files, onDisk, saved>>
listVars == <<list, nextID>>
jobVars  == <<at, job, todo, failed>>
vars == <<fileVars, running, maxLevels, listVars, jobVars, expired, kv>>

NoJob == [inputs |-> {}, target |-> 0, outputs |-> <<>>, full |-> FALSE]

-----------------------------------------------------------------------------
(* Tables and lookups.                                                     *)

Tables(l) == [i \in DOMAIN l |-> files[l[i].id]]

(* GetWithError: from the end of the list to its start.                    *)
Lookup(l, k) == Newest(Tables(l), DOMAIN l, k)

KeysOf(layer) == {k \in Key : layer[k] # Absent}
MinKey(t) == Min(KeysOf(files[t]))
MaxKey(t) == Max(KeysOf(files[t]))

AtLevel(n) == {i \in DOMAIN list : list[i].level = n}

RangesOverlap(min1, max1, min2, max2) == min1 <= max2 /\ min2 <= max1

(* The sizes of the tables, in records.                                    *)
Sizes == [i \in DOMAIN list |-> Cardinality(KeysOf(files[list[i].id]))]

-----------------------------------------------------------------------------
(* Choosing what to compact.                                               *)

(* selectLevelCompaction: every table of level 0, or the first one of a    *)
(* deeper level, and the tables of the next level that overlap them.       *)
BugSelect(n) ==
    IF n = 0 THEN AtLevel(0) ELSE {Min(AtLevel(n))}
SelectLevel(n) ==
    LET sources == IF n = 0 THEN AtLevel(0) ELSE {Min(AtLevel(n))}
        min == Min({MinKey(list[i].id) : i \in sources})
        max == Max({MaxKey(list[i].id) : i \in sources})
    IN sources \cup {i \in AtLevel(n + 1) :
            RangesOverlap(min, max, MinKey(list[i].id), MaxKey(list[i].id))}

(* levelCapacity: grows by Multiplier and stops at the largest integer.    *)
LevelCapacity(n) ==
    LET capacity[i \in 1..n] ==
          IF i = 1 THEN BaseSize
          ELSE IF capacity[i - 1] > MaxInt \div Multiplier THEN MaxInt
          ELSE capacity[i - 1] * Multiplier
    IN capacity[n]

LevelBytes(n) == SumFunctionOnSet(Sizes, AtLevel(n))

(* nextCompactionLevelLocked: the levels automatic compaction works on.    *)
Overfull ==
    {n \in 0..(maxLevels - 2) :
        IF n = 0 THEN Threshold > 0 /\ Cardinality(AtLevel(0)) >= Threshold
                 ELSE LevelBytes(n) > LevelCapacity(n)}

-----------------------------------------------------------------------------
(* Splitting a compaction into key ranges.                                 *)

(* The first key of every data block of a table.                           *)
FirstKeys(t) ==
    LET keys == KeysOf(files[t])
    IN {k \in keys : Cardinality({j \in keys : j < k}) % BlockSize = 0}

(* compactionWorkerCount: one task per TaskSize of input.                  *)
WorkerCount(inputs) ==
    LET size == SumFunctionOnSet(Sizes, inputs)
    IN Max({1, Min({Workers, (size + TaskSize - 1) \div TaskSize})})

(* planCompactionRanges, as the keys at which a new range starts.          *)
Cuts(inputs) ==
    LET starts == UNION {FirstKeys(list[i].id) : i \in inputs}
        tasks == Min({WorkerCount(inputs), Cardinality(starts)})
    IN IF Cardinality(starts) < 2 THEN {}
       ELSE {Nth(starts, (task * Cardinality(starts)) \div tasks) :
                task \in 1..(tasks - 1)}

(* The range a key falls into, from 0.                                     *)
RangeOf(cuts, k) == Cardinality({c \in cuts : c <= k})

-----------------------------------------------------------------------------
(* What a compaction keeps.                                                *)

(* compactLevelRecords and compactAll: tombstones and expired logs go when *)
(* nothing can lie below.                                                  *)
Kept(layer, bottom) ==
    [k \in Key |-> IF ~bottom THEN layer[k]
                   ELSE IF k \in expired THEN Absent ELSE Answer(layer[k])]

(* enforceSizeRetention: the oldest logs go until the size fits.           *)
Retained(layer) ==
    LET logs == KeysOf(layer) \cap LogKey
        excess == Cardinality(KeysOf(layer)) - MaxSize
    IN IF MaxSize = 0 THEN layer
       ELSE [k \in Key |->
               IF k \in logs /\ Cardinality({j \in logs : j < k}) < excess
               THEN Absent ELSE layer[k]]

(* runCompactionTasks with applyGlobalSizeRetention: the newest record of  *)
(* every key among the inputs, those of the oldest table first.            *)
Merged(inputs, bottom) ==
    LET kept == Kept(Merge(Tables(list), inputs), bottom)
    IN IF bottom THEN Retained(kept) ELSE kept

(* One output for every range that is not empty.                           *)
Split(layer, cuts) ==
    LET ranges == {RangeOf(cuts, k) : k \in KeysOf(layer)}
    IN [j \in 1..Cardinality(ranges) |->
          [k \in Key |-> IF RangeOf(cuts, k) = Nth(ranges, j - 1)
                         THEN layer[k] ELSE Absent]]

-----------------------------------------------------------------------------
Init ==
    /\ files = [t \in TableID |-> EmptyLayer]
    /\ onDisk = {}
    /\ saved = [list |-> <<>>, next |-> 1]
    /\ running = TRUE
    /\ maxLevels \in Levelings
    /\ list = <<>>
    /\ nextID = 1
    /\ at = "idle"
    /\ job = NoJob
    /\ todo = {}
    /\ failed = FALSE
    /\ expired = {}
    /\ kv = [k \in Key |-> Absent]

(* flushOldestImmutable: a new table of level 0 at the end of the list.    *)
Flushed(t) == Append(list, [id |-> t, level |-> 0])

Flush(data) ==
    /\ running
    /\ at = "idle"
    /\ nextID \in TableID \ onDisk
    /\ files' = [files EXCEPT ![nextID] = data]
    /\ onDisk' = onDisk \cup {nextID}
    /\ list' = Flushed(nextID)
    /\ nextID' = nextID + 1
    /\ saved' = [list |-> list', next |-> nextID']
    /\ kv' = [k \in Key |-> IF data[k] = Absent THEN kv[k] ELSE Answer(data[k])]
    /\ UNCHANGED <<running, maxLevels, jobVars, expired>>

(* Time passes, and the oldest log is older than Retention.                *)
Expire ==
    /\ LogKey \ expired # {}
    /\ expired' = expired \cup {Min(LogKey \ expired)}
    /\ UNCHANGED <<fileVars, running, maxLevels, listVars, jobVars, kv>>

-----------------------------------------------------------------------------
(* A compaction, under maintenanceMu.                                      *)

Begin(inputs, target, bottom, cuts, full) ==
    /\ running
    /\ at = "idle"
    /\ inputs # {}
    /\ job' = [inputs |-> inputs, target |-> target,
               outputs |-> Split(Merged(inputs, bottom), cuts), full |-> full]
    /\ nextID + Len(job'.outputs) - 1 <= MaxTable
    /\ todo' = DOMAIN job'.outputs
    /\ at' = "write"
    /\ UNCHANGED <<fileVars, running, maxLevels, listVars, failed, expired, kv>>

BugBottom(n) == TRUE
Bottom(n) == n + 1 = maxLevels - 1

(* CompactLevel(n).                                                        *)
CompactLevel(n) ==
    /\ n \in 0..(maxLevels - 2)
    /\ AtLevel(n) # {}
    /\ LET inputs == SelectLevel(n)
       IN Begin(inputs, n + 1, Bottom(n), Cuts(inputs), FALSE)

(* CompactNextLevel: level 0 first, then the first level that is too big.  *)
CompactNextLevel == Overfull # {} /\ CompactLevel(Min(Overfull))

(* compactAll: everything becomes one table of level 1.  A single table is *)
(* rewritten only if there is something to retain, or by an upgrade.       *)
CompactAll == Begin(DOMAIN list, 1, TRUE, {}, TRUE)

OutputID(j) == nextID + j - 1

(* The workers write their files, and never over one that exists.  Which   *)
(* of them succeed and which were done when the process died is one        *)
(* choice: nobody reads the files before all workers have returned.        *)
WriteOutputs ==
    /\ at = "write"
    /\ todo # {}
    /\ \E done \in SUBSET {j \in todo : OutputID(j) \notin onDisk} :
          /\ done # {}
          /\ failed' = (done # todo)
          /\ failed' => \/ "write" \in Faults
                        \/ \E j \in todo : OutputID(j) \in onDisk
          /\ files' = [t \in TableID |->
                         IF \E j \in done : t = OutputID(j)
                         THEN job.outputs[t - nextID + 1] ELSE files[t]]
          /\ onDisk' = onDisk \cup {OutputID(j) : j \in done}
    /\ todo' = {}
    /\ UNCHANGED <<saved, running, maxLevels, listVars, at, job, expired, kv>>

(* The outputs take the place of the last input.                           *)
OutputsAt == Max(job.inputs)

BugOutputs ==
    [j \in DOMAIN job.outputs |-> [id |-> OutputID(j), level |-> job.target - 1]]
Outputs ==
    [j \in DOMAIN job.outputs |-> [id |-> OutputID(j), level |-> job.target]]

NewList ==
    LET rest(a, b) == Pick(list, (a..b) \ job.inputs)
    IN rest(1, OutputsAt) \o Outputs \o rest(OutputsAt + 1, Len(list))

(* Under st.mu, once every output is on disk.                              *)
WorkersDone == todo = {} /\ ~failed

Publish ==
    /\ at = "write"
    /\ WorkersDone
    /\ list' = NewList
    /\ nextID' = nextID + Len(job.outputs)
    /\ saved' = [list |-> list', next |-> nextID']
    /\ todo' = {list[i].id : i \in job.inputs}
    /\ job' = NoJob
    /\ failed' = FALSE
    /\ at' = "cleanup"
    /\ UNCHANGED <<files, onDisk, running, maxLevels, expired, kv>>

(* The files this compaction has written so far.                           *)
BugWritten == {}
Written == {OutputID(j) : j \in DOMAIN job.outputs} \cap onDisk

(* An output or the Manifest could not be written, or Close came first:    *)
(* cleanupCompactionOutputs, whose own errors are ignored.                 *)
Abort ==
    /\ at = "write"
    /\ todo = {}
    /\ \E gone \in SUBSET Written :
          /\ gone = Written \/ "cleanup" \in Faults
          /\ onDisk' = onDisk \ gone
          /\ files' = [t \in TableID |->
                         IF t \in gone THEN EmptyLayer ELSE files[t]]
    /\ failed \/ "manifest" \in Faults
    /\ at' = "idle"
    /\ job' = NoJob
    /\ failed' = FALSE
    /\ UNCHANGED <<saved, running, maxLevels, listVars, todo, expired, kv>>

(* The replaced files go, except those that cannot be removed.             *)
RemoveInputs ==
    /\ at = "cleanup"
    /\ \E gone \in SUBSET todo :
          /\ gone = todo \/ "unlink" \in Faults
          /\ onDisk' = onDisk \ gone
          /\ files' = [t \in TableID |->
                         IF t \in gone THEN EmptyLayer ELSE files[t]]
    /\ todo' = {}
    /\ at' = "idle"
    /\ UNCHANGED <<saved, running, maxLevels, listVars, job, failed, expired, kv>>

-----------------------------------------------------------------------------
(* The process dies, or closes when nothing is going on.                   *)
Crash ==
    /\ running
    /\ running' = FALSE
    /\ list' = <<>>
    /\ nextID' = 1
    /\ at' = "idle"
    /\ job' = NoJob
    /\ todo' = {}
    /\ failed' = FALSE
    /\ UNCHANGED <<fileVars, maxLevels, expired, kv>>

HighestTable == Max(onDisk \cup {0})

(* loadSSTablesFromManifest, with the options of this start.               *)
Open ==
    /\ ~running
    /\ at = "idle"
    /\ \A i \in DOMAIN saved.list : saved.list[i].id \in onDisk
    /\ running' = TRUE
    /\ maxLevels' \in Levelings
    /\ list' = saved.list
    /\ nextID' = Max({saved.next, HighestTable + 1})
    /\ UNCHANGED <<fileVars, jobVars, expired, kv>>

-----------------------------------------------------------------------------
Next ==
    \/ \E data \in Batches : Flush(data)
    \/ Expire
    \/ \E n \in 0..(maxLevels - 2) : CompactLevel(n)
    \/ CompactNextLevel
    \/ CompactAll
    \/ WriteOutputs \/ Publish \/ Abort \/ RemoveInputs
    \/ Crash \/ Open

Spec == Init /\ [][Next]_vars

-----------------------------------------------------------------------------
(* Properties.                                                             *)

Current == IF running THEN list ELSE saved.list

(* Retention may remove a log for good; nothing else changes an answer.    *)
MayVanish(k) == k \in LogKey /\ (k \in expired \/ MaxSize > 0)

(* The answers of the table list for the keys of K.                        *)
AnswersHold(K) ==
    \A k \in K :
        LET answer == Answer(Lookup(Current, k))
        IN answer = kv[k] \/ (answer = Absent /\ MayVanish(k))

(* Whatever has been compacted into whatever, in any order of levels, with *)
(* any split into ranges, with crashes and failures in between: a reader   *)
(* gets the newest flushed value or nothing where that was deleted or      *)
(* retention has removed it, never an older one and never a lost one.      *)
NoOldValue == AnswersHold(Key)

(* Below level 0 the tables of a level do not overlap, and the list has    *)
(* the deeper levels first: both are what lets selectLevelCompaction pick  *)
(* one table and leave the rest of its level alone.                        *)
LevelsDisjoint ==
    \A i, j \in DOMAIN Current : i < j =>
        /\ Current[i].level >= Current[j].level
        /\ Current[i].level = Current[j].level /\ Current[i].level > 0 =>
               ~RangesOverlap(MinKey(Current[i].id), MaxKey(Current[i].id),
                              MinKey(Current[j].id), MaxKey(Current[j].id))

(* The running store reads the tables of the Manifest, and the IDs it      *)
(* hands out next are free: no failed, crashed or half-finished compaction *)
(* makes a later flush fail or write over a table.                         *)
IDsFresh ==
    running => /\ list = saved.list
               /\ at = "idle" => \A t \in onDisk : t < nextID

(* The records of the list, each with every level it could still sink from.*)
Sinking ==
    {p \in TableID \X Key \X (0 .. maxLevels - 1) :
        \E i \in DOMAIN list : /\ list[i].id = p[1]
                               /\ list[i].level <= p[3]
                               /\ p[2] \in KeysOf(files[p[1]])}
Potential == Cardinality(Sinking)

(* Every level compaction brings records closer to the bottom, so that the *)
(* maintenance goroutine, which schedules the next one after each success, *)
(* comes to an end.                                                        *)
CompactionsSink ==
    [][at = "write" /\ at' = "cleanup" /\ ~job.full
          => Potential' < Potential]_vars
=============================================================================
