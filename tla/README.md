# SamKv in TLA+

SamKv is a single-node key-value and log store in Go: a log-structured merge
tree with a write-ahead log, SSTable files, a Manifest that names them,
checkpoints, compaction, backup and repair tools, and an HTTP server in front.
These modules model the parts of it that have to stay right when goroutines
interleave, writes fail, files are damaged and the process dies, and the
algorithms everything else relies on. TLC checks them on small instances, and
TLAPS proves what the section *Proofs* lists.

Line numbers refer to the sources under `src/`; `PROJECT.json` maps every
definition to the lines it translates.

## The system

| Component | State | Operations | Talks to | What makes it right |
|---|---|---|---|---|
| `StoreManger` write and read path (`store.go`, `MemTable.go`, `batch.go`) | active MemTable, immutables with their WAL cutoffs, SSTable list, `backgroundErr`, `closed` | `Put`, `Delete`, `WriteBatch`, `GetWithError`, freezing a full table | WAL (call under `st.mu`), maintenance (channels) | a read sees the newest acknowledged write, whatever layer it is in |
| Checkpoint (`store.go`) | the immutable being flushed, the next file ID | `Checkpoint`, `flushOldestImmutable` | WAL `Flush`, `Rotate`, `PruneThrough`; SSTable writer; Manifest | every acknowledged record is in a table or in the log at every step |
| WAL (`pkg/wal`) | two buffers, `flushErr`, active segment, segment files | `AppendLog`, `Flush`, `Rotate`, `PruneThrough`, `Close`, ticker, replay | files | what was reported durable is replayed, in order; callers do not hang |
| Manifest (`manifest.go`, `manifest_files.go`) | `MANIFEST-<n>` generations, `CURRENT` | save, load, migrate, prune generations | files | a save that fails leaves the old one, a crash leaves one of the two |
| Compaction (`compaction.go`, `leveled_compaction.go`, `compaction_tasks.go`) | inputs, outputs, levels | `Compaction`, `CompactLevel`, `CompactNextLevel`, retention | SSTable list under `st.mu`, files outside it | lookups do not change; levels above 0 stay disjoint; removed files are not in use |
| Startup and recovery (`store.go`, `recovery.go`, `wal/recovery.go`) | files only | `NewStoreMangerWithOptions`, `ReLoad`, `ReplaySegments` | all of the above | answers after a restart are those before it |
| Lifecycle (`store.go`, `upgrade.go`, `directory_lock.go`) | `flushCh`, `compactionCh`, `workerWG`, `maintenanceMu`, directory lock | maintenance goroutine, `Close`, `UpgradeFormat` | everything | nobody touches the files after `Close`; scheduled work gets done; errors are kept |
| Logs (`log.go`, `query.go`, `utils/key.go`, `utils/value.go`) | `sequence`; bytes of keys and values | `WriteLogs`, `Query`, `restoreSequence` | store | numbers are never used twice; a query finds what was written |
| SSTable format (`sstable_*.go`, `bloomfilter.go`) | one immutable file | write, point read, scan, iterate, verify | block cache | a scan and a point read agree with the records written |
| Block cache and buffer pool (`block_cache.go`, `pool.go`) | LRU list, index, byte count; pooled slices | get, put, drop table | readers | never above its limit; no slice changes under a reader |
| MemTable, skip list (`MemTable.go`, `skipList.go`) | nodes, forward pointers, size | `Put`, `Delete`, `Scan`, ... | store | an ordered map with the right size |
| Tools (`backup.go`, `repair.go`, `verify.go`) | directories | backup, restore, repair, verify | checkpoint, Manifest | a restored backup answers like the store it was taken from |
| Matcher (`match.go`) | two positions | `Matcher` | log queries | agrees with what a pattern means |
| Query parser, options, HTTP server, CLIs, daemon | none that matters | one store call per request | store | – |

Hard behaviour: writers, the maintenance goroutine, the WAL ticker and `Close`
interleave at `st.mu`, `maintenanceMu`, `writeMu` and `bufmu`; a crash can
fall between any two steps on files; writes can fail with part of their bytes
on file and be retried; pruning, compaction and recovery all decide from IDs
and key ranges which records are still needed; readers use tables that a
compaction is closing. `PROJECT.json` lists each of these hazards at its line,
with the properties that would notice it going wrong.

## Modules

### The store

`Layers` is the data. A MemTable, an SSTable and a WAL segment are the same
thing to the properties: for every key the newest entry, a value or a
tombstone, or nothing. A lookup walks a stack of layers from the newest down
(`Newest`); replay and compaction collapse a stack into one layer (`Merge`).

`SamStore` is the core: the write path, checkpoints, full compaction, `ReLoad`,
`Close`, crash and restart of `StoreManger`, with the part of the WAL they
depend on. One action is one critical section of `st.mu`, or one step on files
that a crash can separate from the next.

| In the model | In the code |
|---|---|
| `mem`, `immutables`, `sstables`, `nextSSTableID`, `backgroundErr` | the fields of `StoreManger` |
| `lock` | `st.mu` held across several steps: a write or `Checkpoint` on its way into `freezeActiveLocked`, or a flush from publishing to the end of `PruneThrough` |
| `at`, `todo` | `maintenanceMu` and where its holder is |
| `phase` | `st.closed`, and whether there is a process |
| `active`, `buffer`, `flushErr` | the same in `WalManger` |
| `segments`, `live`, `files`, `onDisk`, `manifest` | the files; `segments[s]` is what replaying segment `s` yields |
| `covered`, `doubt`, `older`, `leftBehind` | history variables; no guard reads them |

A write may rotate any number of times, before any of its records, and stop at
any of them (`Persist`). `Faults` names the I/O failures a run allows: a failing
direct write, buffer flush, rotation, SSTable write, Manifest save, segment
listing, removal of a segment, removal of a compacted file, removal of a table
that could not be published, or a replay that stops half-way.

The last but one, `cleanup`, is the `_ = os.Remove(path)` of `store.go:403`,
`compaction.go:125-155` and `sstable_writer.go:123`: nobody looks at the error.
The table stays under the next free ID, and because `writeSStable` never writes
over a file (`os.ErrExist`, `sstable_writer.go:115`), every flush of this process
fails from then on, and every compaction that has something to write, also
without a further fault (`FlushFails`). A restart takes an ID above every file.
`leftBehind` says that this process has left such a table.

`DurableKV` is what the store promises its clients: a map from keys to answers;
a write that is acknowledged changes the answer of its key, one that fails
makes it uncertain after the next crash, and a crash may bring back only
answers that were not yet durable. `SamStoreContract` instantiates it over
`SamStore` and states `KeepsContract`, the refinement.

`WriteAheadLog` is `pkg/wal` at the level of frames: the double buffer with the
capacities of its two slices, `writeMu` and `bufmu` as steps, direct writes,
rotation inside a write, retry of a failed batch, `Close` racing with appends,
and replay of segments whose frames may be torn. `SamStore` assumes of it that
a segment is a set of whole records; `DurableReplayed` is that assumption.
A frame is two units of header and one of payload: that tells apart a tear
inside the header, right after it, and inside the payload.

`AtomicManifest` is what `saveManifest` and `loadManifest` promise: one cell; a
save that returns an error has not changed it, one that returns nil has, and a
crash leaves the old or the new content. `ManifestFiles` is how they do it: one
action per operation on `MANIFEST-<n>`, `CURRENT`, `CURRENT.bak` and the files
of the old layout with their migration. `IsAtomic` is the refinement, and the
reason why `SamStore` takes a save for one step. A rename onto a name that is
taken may fail in every run, as it does on platforms that do not replace;
fault `rename` lets a rename of the fallback onto a free name fail, fault `free`
the first one.

`Levels` is leveled compaction: the list of tables with their levels and key
ranges, the choice of a level and of the tables that overlap, the split into
tasks with one output each, tombstones and retention at the bottom,
publication, cleanup, crash and restart with other options. Keys are ordered
numbers, and the third is a log that retention may remove. A flush is one step
here, since `SamStore` has its inside. `Repair` extends it by what happens
while the store is down: table files or `CURRENT` go bad, and `RepairDirectory`
writes a new Manifest.

`Lifecycle` is the background work: the two channels of capacity one, the
maintenance goroutine with its rescheduling, who sets and clears
`backgroundErr`, clients in `Checkpoint`, `CompactLevel`, `ReLoad` and
`UpgradeFormat`, `Close` in its three steps, and another process that waits for
the directory. Tables are counts.

`Backup` composes the store, seen as sets of writes in files, with a backup
that copies them one by one while it runs, and with the restore.

### The parts

`SkipList`, `MemTable`: nodes with forward pointers per level, and around them
the size counter and the `mutable` flag, which a writer touches in steps of its
own. `BlockCache`: readers that take a block from the cache or read it into a
pooled slice, LRU eviction, and compactions that drop tables.
`LogQuery`: which tables a query looks at, and what it answers.
`LogSequence`: the atomic counter, `WriteLogs` taking and observing numbers,
`ReLoad` and restart restoring it. `TableFormat`: blocks with shared prefixes
and restart points, index, lookup, scan, iterator and damaged files.
`BloomFilter`: bits in words of small width, and the binary form. `Matcher`:
the loop with its backtracking. `LogCodec`: keys and values of logs byte by
byte in a small base. `Bytes` has the order of strings.

`MCParts` checks these, `ManifestFiles` and `Backup` in one run. They share no
variable: `subject`, chosen at the start, says which of them moves, and the
others stay in one initial state. What the run shows of each is what a run of
its own would show. Writers and readers are symmetric.

### Proofs and instances

Eight modules hold theorems. `NaturalSets` and `LayersTheorems` are the lemmas
the others share. `SamStoreProofs` has the types and the control invariants of
`SamStore`, `SamStoreRecovery` what a restart answers and the refinement of
`DurableKV`. `WriteAheadLogProofs` and `LevelsProofs` (with `Repair`) belong to
the modules of these names, `FormatProofs` to `LogCodec` and `TableFormat`, and `PartsProofs` to
`LogSequence`, `ManifestFiles`, `BlockCache`, `LogQuery`, `BloomFilter`, `Backup`,
`Matcher`, `SkipList`, `MemTable` and `Lifecycle`. `Subsequences` has the two
operators that stand for loops which skip elements. `MCSamStore` adds the
symmetry sets for TLC, `MCLevels` the batches that are flushed.

Operators named `Bug...` are used by nothing: each is a mistake the code could
make in the definition behind it, and `PROJECT.json` says which property
notices it.

## Runs

| Run | Instance | Question |
|---|---|---|
| `store_control` | `MCSamStore`: 1 key, buffer of 1, batches up to 2, every fault | control state: the Manifest names existing files and the ones in use, the next file ID is free unless this process could not remove a table it never published, the sticky error has work, cutoffs are ordered |
| `contract_strict` | `SamStoreContract`: 1 key, 3 segments, 3 files; failing rotate, sstable, manifest, cleanup, list, unlink | does a crash at any step lose or revive an acknowledged record (`LogCompletes`), do segments that a prune left behind only repeat the tables (`LeftoversRepeat`), does removing one ever change what a restart answers (`PruneKeepsAnswers`), and the refinement of `DurableKV` when every write is synced |
| `contract_interval` | 1 key, buffer of 2, batches up to 3; failing append, flush and manifest | the refinement with records that are only buffered, and batches that bypass the buffer |
| `wal` | `WriteAheadLog`: 3 records, data of up to 3 records, buffer of 2, segments of 2 records, one failure, crashes | `DurableReplayed`, `SizeCoversFile`, `AcceptedHeldInOrder`, `ClosedKeepsAll`; the ticker alone makes every buffered record durable in spite of a failed flush (`BufferDrains`); `AppendLog` returns as long as nothing has failed (`AppendReturnsUnlessFailed`) |
| `levels` | `MCLevels`: 3 levels, 3 keys, 5 tables, one damaged table or `CURRENT`, failing writes, Manifests and unlinks | lookups give the newest value of every key no damage touches (`OnlySpoiledKeysSuffer`), levels stay disjoint, IDs stay free, compactions move records down (`CompactionsSink`), a repair does not bring back replaced tables (`OrphansStayOut`) and what it leaves can be opened at every step (`RepairedOpens`) |
| `lifecycle` | `Lifecycle`: a client, the goroutine, `Close`, another process; all failures, one error | `NoTableForgotten`, `WorkerOwnsDirectory`; liveness: `Close` returns, a frozen table is flushed or there is an error |
| `parts` | `MCParts` | 13 invariants and the refinement `IsAtomic`, see below |
| `prune_faults`, `wal_frames`, `wal_stuck`, `levels_reopened`, `close_overlap` | small | disagreements with the comments, see *Findings* |

What `parts` shows of each subject:

| Property | What it says |
|---|---|
| `IsAtomic` | `CURRENT` and the generation files implement one atomic cell: 3 Manifests, 4 generations, a directory of either layout, failing writes, renames and removals, crashes |
| `ReadsTheMap` | whatever heights the nodes drew, `Get`, `LowerBound`, `First`, `Last`, `Len`, `Entries` and `Scan` answer for the ordered map |
| `SizeMatches` | two writers of one key never lose or count twice the record they replace |
| `ReadsOwnBlock` | no slice a reader decodes is in the pool or being filled by another reader |
| `CacheAccounts`, `ForgottenStaysOut` | the byte count is that of the entries and never above the limit; blocks of a table that was dropped do not come back |
| `QueryExact` | no table that matters is skipped, tombstones included, before and after a full compaction |
| `NumbersFresh` | a number that is picked is new, whatever writers take or raise at once and across restarts, unless the counter wrapped or a `ReLoad` took numbers back |
| `TableAnswers`, `IteratorExact` | lookup, scan and iterator answer for the records that were written, or report damage; none stops early in silence |
| `FilterSafe` | no false denial; no index outside of the words after reading damaged bytes |
| `MatcherExact` | the greedy loop agrees with the search through all fits, for patterns and texts of up to 3 |
| `LogComesBack` | a log decodes to itself and lies in the key ranges of exactly the queries it answers; `UnixNano` wraps times outside of the 64 bits (before 1678 or after 2262), such as the zero `time.Time`, and of those it says only that labels, number and message come back |
| `BackupExact` | a backup taken from a store in use, and what is restored from it, hold the writes of one moment |

The bounds are enough for the cases that matter. Three segments and three
tables give two checkpoints in a row with writes in between, a checkpoint
after a crash that left covered segments behind, and a compaction that merges
two tables while a third is being built. One key and one value with a
tombstone suffice for loss and revival: the answers are "v" and "not found".
The WAL run rotates inside a write, retries a batch across a rotation, and
crashes in both. In `Levels` five tables and three keys give a tombstone that
sinks to the bottom below a value, a table whose range spans the key of
another, a compaction with two tasks of which one fails, and a flush after
each. Two readers and blocks of two sizes fill the cache beyond its limit while
both hold a block. Three records in `TableFormat` give two blocks with two
restart points in one. Words of two bits and a width of 8 let `(m + 63) / 64`
wrap. Base 4 leaves the order of digits and the sign of a time as they are.

Time, sizes, blocks and hashes are not measured but chosen: a table may freeze
after any write in `SamStore`, a filter may have any hashes, `Levels` counts a
record as one unit.

The runs say `CHECK_DEADLOCK FALSE` because the models do stop: when the IDs or
the records are used up, when a store is closed for good, and, in
`WriteAheadLog`, when a restart refuses a corrupt log, as the program does.

### Fairness

`WriteAheadLog!FairSpec`: weak fairness for the steps of a goroutine that is
running and of the holder of `writeMu`, strong fairness for getting `writeMu`
(`sync.Mutex` hands a lock to a waiter that has starved for a millisecond), and
the ticker ticks. The holder's steps include the end of a write: on an open file
it may fail but need not, on a closed one it fails at once (`BatchRefused`). `Lifecycle!LifecycleFairness`: weak fairness for the
maintenance goroutine and for whoever holds `maintenanceMu`, strong fairness for
getting it. Nobody is assumed to call, close or restart anything, and no
operation is assumed to succeed.

## Proofs

The theorems hold for every value of the constants that the named assumptions
of the modules admit: any keys and values, numbers of clients, readers and
writers, sizes and limits, and, unless a hypothesis is named here, any set of
failures. The assumptions say only that bounds are natural numbers, that
sentinels are no values and that sets of keys are finite.

| Theorem | Property | Hypothesis |
|---|---|---|
| `SamStoreProofs!TypeCorrect` | `TypeOK` | |
| `SamStoreProofs!ManifestAlwaysMatches` | `ManifestMatches` | |
| `SamStoreProofs!NextTableIDIsFresh` | `FreshTableID` | |
| `SamStoreProofs!CutoffsAlwaysOrdered` | `CutoffsOrdered` | |
| `SamStoreProofs!StickyErrorAlwaysHasWork` | `StickyErrorHasWork` | |
| `SamStoreRecovery!LogAlwaysCompletes` | `LogCompletes` | `PrunesAndReplays` |
| `SamStoreRecovery!LeftoversAlwaysRepeat` | `LeftoversRepeat` | `PrunesAndReplays` |
| `SamStoreRecovery!PruningKeepsAnswers` | `PruneKeepsAnswers` | `PrunesAndReplays`, strict sync |
| `SamStoreRecovery!ContractKept` | `KeepsContract`: `SamStore` implements `DurableKV` | `PrunesAndReplays` |
| `WriteAheadLogProofs!BufferedInOrder` | `AcceptedHeldInOrder` | |
| `WriteAheadLogProofs!CloseKeepsWhatWasAccepted` | `ClosedKeepsAll` | |
| `WriteAheadLogProofs!SizeNeverBehind` | `SizeCoversFile` | |
| `WriteAheadLogProofs!DurableIsReplayed` | `DurableReplayed` | whole frames |
| `LevelsProofs!LevelsStayDisjoint` | `LevelsDisjoint` | |
| `LevelsProofs!OnlySpoiledKeysEverSuffer` | `OnlySpoiledKeysSuffer` | `SameLevels` |
| `LevelsProofs!NoOldValueWithoutDamage` | `NoOldValue` | `SameLevels`, no damage |
| `LevelsProofs!IDsStayFresh` | `IDsFresh` | `CleanupSucceeds` |
| `LevelsProofs!RepairedManifestOpens` | `RepairedOpens` | |
| `LevelsProofs!CompactionsAlwaysSink` | `CompactionsSink` | |
| `LevelsProofs!OrphansAlwaysStayOut` | `OrphansStayOut` | |
| `PartsProofs!TablesAreNotForgotten` | `NoTableForgotten` | |
| `PartsProofs!WorkerGoesFirst` | `WorkerOwnsDirectory` | |
| `PartsProofs!NumbersAreFresh` | `NumbersFresh` | |
| `PartsProofs!ManifestIsAtomic` | `IsAtomic`: `ManifestFiles` implements `AtomicManifest` | `FreeNamesRename` |
| `PartsProofs!ReadersSeeTheirBlock` | `ReadsOwnBlock` | `SlicesNeverRunOut` |
| `PartsProofs!ForgottenForGood` | `ForgottenStaysOut` | `SlicesNeverRunOut` |
| `PartsProofs!CacheCountsItsBytes` | `CacheAccounts` | `SlicesNeverRunOut` |
| `PartsProofs!QueryFindsItsLogs` | `QueryExact` | |
| `PartsProofs!NoItemDenied` | `FilterSafe` | |
| `PartsProofs!BackupsAreExact` | `BackupExact` | |
| `PartsProofs!MatcherAnswersRight` | `MatcherExact` | |
| `PartsProofs!SkipListReadsTheMap` | `ReadsTheMap`, of the list by itself | |
| `PartsProofs!MemTableReadsTheMap` | `ReadsTheMap` | |
| `PartsProofs!MemTableSizeMatches` | `SizeMatches` | |
| `FormatProofs!LogsComeBack` | `LogComesBack` | |
| `FormatProofs!TablesAnswerRight` | `TableAnswers` | |
| `FormatProofs!IteratorsAreExact` | `IteratorExact` | |

The theorems about `SamStore` hold for every set of failures, a failing clean-up
included: `NextTableIDIsFresh` excuses the process that has left a table behind,
and the theorems about answers need no free ID. The hypotheses are these. For the first three a run shows what happens
without them.

* `PrunesAndReplays`: no removal of a segment is skipped while newer ones are
  removed, and no replay of a `ReLoad` stops half-way. `prune_faults` violates
  `PruneKeepsAnswers` with either of the two. All other faults, and every
  crash, are covered. `PruningKeepsAnswers` also needs the policy that syncs
  every write: with buffered records a prune may happen between an old answer
  and a new one that a crash could still take back, and both are allowed then.
* `SameLevels`: every start uses the same number of levels, and for
  `NoOldValueWithoutDamage` no file is damaged. `levels_reopened` violates
  `NoOldValue` with either.
* Whole frames, `Faults \subseteq {"fail"}`: a write that fails stops between two
  frames, and no crash leaves the header of a frame without a byte of its
  payload. Failing writes, syncs and rotations, and crashes anywhere else in a
  write, are covered. `wal_frames` violates `DurableReplayed` with either of the
  other two faults.
* `CleanupSucceeds`: the outputs of a compaction that failed can be removed. If
  they cannot, they lie at the next free IDs until a restart, which looks at the
  directory; the writer never overwrites a file, so that whatever writes a
  table under such an ID fails with `os.ErrExist` until then. `FreshTableID` of `SamStore`
  has this fault and says that it is the only exception.
* `FreeNamesRename`: a rename onto a name that does not exist succeeds. The
  fault `free` is the hazard at `manifest_files.go:206`, see *Findings*.
* `SlicesNeverRunOut`: there is memory for one more slice. The model numbers
  slices, and `parts` has enough for its readers.

### The store

`TypeOK` is not inductive: the checkpoint that publishes a table adds its ID to
the list, which is an ID only if the file was written first, and the very first
flush of a directory without Manifest decides what a restart would load.
`TypeInv` adds these two facts (`FlushInProgress`, `FirstFlush`).

`ControlInv` carries the four control invariants. `FreshTableID` alone would
allow a flush whose Manifest save fails to remove a listed file, so
`ListedBelowNext` adds that listed IDs are below the next one, also while a table
lies at that ID which could not be removed;
`ReplacedNotListed` says that compaction removes only files it has taken off the
list; `Lifetime` that nothing outlives the process. `ManifestMatches` also says
that the guard of `Open` on missing files is always true.

`RecoveryInv` is about what a restart answers, key by key. The immutables are
flushed from the left, so each of them is a place up to which the tables may have
come when the process dies, with its own WAL cutoff. `MemoryLogged`
says that the log above every such cutoff holds what memory holds above it,
`TablesAllowed` that what the log is silent about may be answered from what is
below. `CrashAllowed` says it for every number of buffered records that reach
the file. These have to be stated for all places at once, because a flush moves
from one to the next, and a freeze adds one. `LeftoverRepeats` is what makes a
prune harmless that stopped, and `FrozenOnFile` what a freeze gets from flushing
the buffer first. Before there is a Manifest a restart loads whatever table it
finds, and that may be one a process could not remove, while newer writes are in
the log; `FirstFileLogged` says that the log has every key of such a table.
Wherever the records of a write go when it rotates, they end up above the
segments that were there and in order (`Placed`). A write that failed may or may
not be in the log (`doubt`), and one that is only buffered may give way to an
older answer (`older`); `Uncertain` says that no key has both.

`ContractKept` maps the state to `DurableKV` by what `Get` answers, and shows each
step to be a write, a refused write, a sync, a recovery or a stutter. Only the
recovery needs `RecoveryInv`.

### The log

`BufferInv` orders records by age: durable ones, the batch being written, the
buffer, the data of the call under way (`AgeOrder`). A failed write puts the batch
back in front of a buffer that has grown meanwhile. It needs `LockHeld`: a client
or `Close` that holds `writeMu` behind its flush finds nothing buffered, so that
a direct write overtakes nothing.

`SizeInv` is the size in memory against the length of the last file. A write
that is cut off has moved both; `Open` takes the length of the file as it was
before the torn tail is removed, so the two may part, but in one direction only.

`FileInv` is what the files look like without replaying them: while there is a
process every segment is a sequence of whole frames; after a crash the last one
may have a beginning of a frame behind them (`Torn`), which the next start
removes. Of such a file `Scan` gives the record of each frame (`ScanFramed`).
Every durable record is in some frame with no older one behind it. A retry may
write records a second time, but the whole batch again and in order, so that
what comes behind the new copy is newer; this is where `AgeOrder` is needed,
since the batch is younger than anything durable. Where a write puts its frames
over the segments it rotates into is `LayoutIs`: the segment of a frame never
decreases, and the units of one frame are in one segment.

### Levels

`LevelsInv` has a part for each thing a compaction relies on while it works
outside the lock. `ListInv`: levels descend along the list, tables of one level
above 0 lie apart, and no file is empty. `JobInv`: the outputs may take the place
of the inputs (`PlaceFree`), and say what these say except where nothing lies
below (`OutputsMerge`). `AnswersInv` is the answer of every key that no damage
touches. `DamageInv` and `SpoiledInv` say what damage there is and that its
keys are known, `FreshInv` which file IDs are taken. Publication is the step
that uses them all: the new list is the old one without the inputs, with the
outputs before the first table of a lower level, and a lookup is cut there.

`CompactionsSink` needs `JobSinks`: a level compaction takes at least one table
from the level above its target and none from below it. The places a record may
still sink from are counted (`Sinking`), and the proof maps those after a
publication one to one to those before it, which leaves out one place of that
table.

### Lifecycle

`NoTableForgotten` is inductive with the types; the three ways in which the last
responsible goroutine goes away are the cases of the proof. `WorkerOwnsDirectory`,
an action property, rests on the order of the three steps of `Close`
(`CloseInOrder`).

### The parts

*Numbers.* `CounterAhead`: the counter is not below any number known to the store
or to a running write unless a `ReLoad` has taken it back, and a writer between
`Load` and `CompareAndSwap` wants to raise what it saw. `RestoredIsAhead` is why
`restoreSequence` keeps it.

*Manifest.* `ManifestInv`: `CURRENT` or its backup names a generation that exists,
and `CURRENT` is missing only while it is being replaced. The cell holds what the
one of them that a load would use names, so that it changes in the step that
renames.

*Block cache.* `SlicesOwned`: a slice is in the pool, or in one entry of the cache
with any number of readers that only look at it, or with the one reader that
fills it. `RightBytes` then survives eviction, because a slice is reused only
when nobody refers to it.

The byte count (`CacheAccounts`) is a sum over the entries of the list, in any
order: a hit moves an entry to the front and a removal shifts the others, which
renumbers the sum (`SumRenumbered`).

*Queries.* `QueryInv`: a table summarises the times and tokens of its records,
and `live` is what the newest record of each log says (`Told`). The table that
holds the newest record of a log which matches, or of its deletion, is one that
the query reads; this is why a table with a tombstone for such a log must not be
skipped either.

*Bloom filter.* `EnoughWords` is the inequality `m <= WordBits * words`, which
rounding up and the check of `UnmarshalBinary` establish in arithmetic that
wraps; it needs that the largest filter does not reach the width
(`(MaxWords + 1) * WordBits <= Wrap`), as with 2^64.

*Backup.* `LogCovers`: a segment that a flush may prune holds nothing that is not
in a table by then, and what waits to be flushed is in the log; so the log and
the tables the Manifest names hold every write that is not in the buffer alone.
`WorkerHolds` is why a publication and a removal keep this. `CopyingInv`: while
the two locks are held nothing that is still to be copied, or has been, changes,
and the files to copy hold the snapshot. `BackupHolds` then says it of the
finished backup and of what is restored from it.

*Matcher.* Where a text may begin that the rest of the pattern stands for is a
set of places (`Beginnings`). Before the first `%` the target matches exactly if
the place now is in the set of the position now (`NoStar`). After one, it matches
exactly if some place not before `matchIdx` is in the set behind the last `%`, so
that the loop need not go back further; and what has been taken since then fits
for every such place as it did for `matchIdx` (`AfterStar`).

*Skip list and MemTable.* On every level the pointer of a node leads to the next
node of that level in the order of keys, and the nodes are the keys of the map;
`Delete` therefore leaves nobody who points to what it unlinks. A walk ends at
the last node of its level that comes before the key, so that the descent ends
right before it, whatever heights there are. Of the size, what a writer has
still to add is the difference its `Set` made at that moment: the size and these
differences are the sum over the map, and between writes the size alone is.

*Keys of logs.* Sorting gives each element the place that counts what comes
before it (`ListedIs`). Escaping replaces every byte by a code of its own
(`CodeOf`), and no code holds a separator; so the first bar of an encoding ends
the first label, the first equals sign ends its name, and `Unescape`, at the
place where a code begins, reads that byte and goes to the next code
(`ReadsCode`). Two recursions that agree at every place where a piece begins
agree at the first. Two digits order as their number does (`PrefixBefore`), with
the sign bit flipped also for negative times, so that a range of keys holds the
keys of its times and no others.

*Tables.* Two sequences in the order of keys that hold the same records are the
same (`SameHeld`), and one that holds the lowest records of the other is its
beginning (`BeginningIs`); so for everything a reader returns it is enough to
say which records it holds and that they ascend. `TableBuilt` is what the
writer leaves: the last record handed over for each key, in order; blocks that
hold them all, each block before the next (`Blocks`); first and last keys in the
index that bound their block (`BlockIs`). Decoding a block undoes encoding it
because an entry shares its beginning with the entry before, which is decoded
by then, and none at a restart point (`Grows`, `DecodesBlock`). Then the block that
the index finds is the only one that can hold a key (`BlockFound`), and a block
that is not needed holds nothing of the range (`NeededIs`). Of an iterator the
invariant is the frontier (`Frontier`): every record of the range is behind it,
in the rest of the block it holds, or in a block it has not come to, and these
three lie in this order; passing a block, loading one and taking a record each
keep it, and an iterator at its end has the whole range behind it.

### Lemmas

`LayersTheorems` has the lemmas about stacks: `Newest` is an entry of the stack
(`NewestType`), does not depend on anything else (`NewestSame`), and splits at
any height (`NewestSplit`). `NaturalSets` has those about greatest elements,
the n-th element of a set, picking from a sequence, division, and sums over
finite sets, from the well-foundedness of strict subsets, because the induction
theorems with operator parameters cannot be instantiated. For the same reason
recursion is reasoned about without induction: `JumpRecursion` and
`StepRecursion` say that a function exists which satisfies the equation of a
recursion over numbers, by the least number up to which there is none. What a
recursive definition stands for then satisfies the equation too (`FitsAre`,
`WalkIs`, `LayoutIs`, `ScanIs`), and what it says of every argument holds because
there is no last argument for which it does not.

### Only model-checked

Liveness under fairness, which is out of the prover's reach: `BufferDrains`,
`AppendReturnsUnlessFailed`, `CloseReturns` and `FrozenFlushed`. Every other
property of a passing run is stated by a theorem.

## Findings

Each is a run that TLC must find violated, with its trace in the run. Two runs
have two causes; each of them alone violates the property too, with the
constants `PROJECT.json` names.

* `prune_faults`: `pruneThroughLocked` skips a segment it cannot remove and
  removes newer ones; on the next start the skipped segment hides the table.
  And a `ReLoad` that fails half-way leaves a half-filled MemTable in use, and
  the next checkpoint prunes what it lacks.
* `wal_frames`: a crash right after the 8 header bytes is taken for a clean end
  of the log, and the next acknowledged record is unreadable. And after a write
  that failed inside a frame the log goes on behind the fragment.
* `wal_stuck`: a flush of one record fails, and the batch comes back in a slice
  as long as that record; the retry and one more flush later this slice is the
  active buffer. An append of two records, which fits the configured buffer,
  now finds it full, flushes nothing, and loops for ever while it holds `st.mu`.
  That takes four records, and the log stays open.
* `levels_reopened`: a start with fewer levels drops tombstones above the
  tables of the old bottom, and deleted values come back. And a repair without
  a readable Manifest lists tables again that a compaction has replaced.
* `close_overlap`: a `Checkpoint` that waits for `maintenanceMu` goes on after
  `Close` has given the directory back.

The runs that pass leave exactly these out: `Faults` excludes `remove`,
`replay`, `header` and `tear` where the property could not hold with them, and
`levels` always starts with the same number of levels, speaks of the keys no
damage touches, and excludes `cleanup`, with which its IDs are not fresh
(`SamStore` has that fault, and the exception). `parts` excludes `free`, a failing rename onto a `CURRENT`
that does not exist: after a crash in the fallback `CURRENT.bak` is the only
pointer, and `publishCurrent` removes it (`manifest_files.go:206`) before it
tries again. No comment promises otherwise, so it is listed as a hazard only.

Two more things that were seen and that no comment contradicts:

* A query for a label with an empty value also finds logs that lack the label
  while they are in a MemTable, and not once they are in a table, whose filter
  has no token for them (`log.go:163`). `QueryExact` speaks of the queries
  whose labels all have a value.
* `Verify` of a store whose compaction closes a table while it is scanned
  reports a healthy store as damaged. No data is at risk.

## Not modelled

* The query parser (`parse/parse.go`): it checks each field of a request by
  itself, has no state, and its tests cover the cases.
* Options, statistics, the rate limiter: validation of single values, counters
  nothing depends on, and delays, which the models allow anywhere.
* HTTP server, routers, metrics: each request is one call of the store, made by
  the clients of the other modules.
* Daemon control and the command-line tools: clients of the HTTP interface.
* Of the WAL: rotation by record count, `Replace` and `Reset`, which the store
  does not call, and the migration of `wal.log`. Of the tables: the bytes of
  footer, meta and index, and older versions. Of the pool: its size classes. Of
  logs: the compression libraries. Of backups: damage between the verification
  and the copy inside one `RestoreBackup`.
* `SamStore` treats a full compaction as one output table; `Levels` has several.
* A power failure that loses unsynced bytes is covered only as far as it equals
  a crash earlier in the same write. Directory entries are taken to be durable
  once renamed.
* Data races in the Go sense: the fields in the models are accessed under the
  locks or with the atomics named above.

## Plan

Every invariant, action property and refinement that the passing runs check is
proved, some under the hypotheses above. What would add most next:

1. A model of durability in which a power failure keeps any part of what was
   written since the last sync, for the log as for directory entries.
2. Full compaction with several output tables inside `SamStore`, as `Levels`
   has it, so that the contract is proved of both kinds of compaction at once.
