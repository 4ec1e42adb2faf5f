---------------------------- MODULE LogSequence ----------------------------
(***************************************************************************)
(* The numbers that tell apart logs of one time and one set of labels      *)
(* (log.go): an atomic counter from which WriteLogs takes numbers without  *)
(* st.mu, which a number given by the caller raises, and which a restart   *)
(* and ReLoad restore from the Manifest and from the keys of all records.  *)
(*                                                                         *)
(* The counter is 64 bits wide, here Largest + 1 numbers; it wraps.        *)
(***************************************************************************)
EXTENDS Integers, FiniteSets, FiniteSetsExt

CONSTANTS
    LogWriter,
    Largest,       \* the largest number, 2^64 - 1
    Given,         \* the numbers callers give
    MaxBatchSize,  \* bound on the entries of a batch
    MaxRestarts    \* bound on crashes

ASSUME LogSequenceAssumption ==
    /\ Largest \in Nat
    /\ Given \subseteq 1 .. Largest
    /\ MaxBatchSize \in Nat
    /\ MaxRestarts \in Nat

VARIABLES
    sequence,      \* st.sequence
    numbered,      \* the numbers of the records in the store
    lastSequence,  \* LastSequence of the Manifest
    batch,         \* [writer -> its batch: numbers taken, and what it is doing]
    reloading,     \* what ReLoad has found so far, or NotReloading
    restarts,
    known,         \* numbers taken since the start, and those of records
    clash,         \* a number was taken that was neither new nor taken back
    takenBack,     \* numbers that a ReLoad made free again since the start
    wrapped        \* the counter passed Largest since the start

seqVars == <<sequence, numbered, lastSequence, batch, reloading, restarts,
             known, clash, takenBack, wrapped>>

NotReloading == -1
NoBatch == [at |-> "idle", numbers |-> {}, count |-> 0, given |-> 0, seen |-> 0]

SeqInit ==
    /\ sequence = 0
    /\ numbered = {}
    /\ lastSequence = 0
    /\ batch = [w \in LogWriter |-> NoBatch]
    /\ reloading = NotReloading
    /\ restarts = 0
    /\ known = {}
    /\ clash = FALSE
    /\ takenBack = {}
    /\ wrapped = FALSE

-----------------------------------------------------------------------------
MoreEntries(w) == batch[w].at = "idle" /\ batch[w].count < MaxBatchSize

\* st.sequence.Add(1).
Take(w) ==
    /\ MoreEntries(w)
    /\ LET n == (sequence + 1) % (Largest + 1) IN
       /\ sequence' = n
       /\ wrapped' = (wrapped \/ n = 0)
       /\ batch' = [batch EXCEPT ![w].numbers = @ \cup {n}, ![w].count = @ + 1]
       /\ clash' = (clash \/ n \in known \ takenBack)
       /\ known' = known \cup {n}
    /\ UNCHANGED <<numbered, lastSequence, reloading, restarts, takenBack>>

\* observeSequence: Load, and the loop around CompareAndSwap.
Give(w, n) ==
    /\ MoreEntries(w)
    /\ batch' = [batch EXCEPT ![w].at = "load", ![w].given = n]
    /\ UNCHANGED <<sequence, numbered, lastSequence, reloading, restarts, known,
                   clash, takenBack, wrapped>>

\* The entry has its number, the one that was given.
EntryNumbered(w) ==
    [batch EXCEPT ![w] =
        [at |-> "idle", numbers |-> batch[w].numbers \cup {batch[w].given},
         count |-> batch[w].count + 1, given |-> 0, seen |-> 0]]

Load(w) ==
    /\ batch[w].at = "load"
    /\ IF sequence >= batch[w].given
       THEN /\ batch' = EntryNumbered(w)
            /\ known' = known \cup {batch[w].given}
       ELSE /\ batch' = [batch EXCEPT ![w].at = "swap", ![w].seen = sequence]
            /\ UNCHANGED known
    /\ UNCHANGED <<sequence, numbered, lastSequence, reloading, restarts,
                   clash, takenBack, wrapped>>

BugUnchanged(w) == TRUE
Unchanged(w) == sequence = batch[w].seen

CompareAndSwap(w) ==
    /\ batch[w].at = "swap"
    /\ IF Unchanged(w)
       THEN /\ sequence' = batch[w].given
            /\ batch' = EntryNumbered(w)
            /\ known' = known \cup {batch[w].given}
       ELSE /\ batch' = [batch EXCEPT ![w].at = "load"]
            /\ UNCHANGED <<sequence, known>>
    /\ UNCHANGED <<numbered, lastSequence, reloading, restarts, clash,
                   takenBack, wrapped>>

\* WriteBatch under st.mu, which ReLoad holds; or the batch is given up, by
\* an entry that cannot be encoded or an append that fails.
Commit(w) ==
    /\ batch[w].at = "idle"
    /\ batch[w].count > 0
    /\ reloading = NotReloading
    /\ numbered' = numbered \cup batch[w].numbers
    /\ batch' = [batch EXCEPT ![w] = NoBatch]
    /\ UNCHANGED <<sequence, lastSequence, reloading, restarts, known, clash,
                   takenBack, wrapped>>

GiveUp(w) ==
    /\ batch[w].at = "idle"
    /\ batch[w].count > 0
    /\ batch' = [batch EXCEPT ![w] = NoBatch]
    /\ UNCHANGED <<sequence, numbered, lastSequence, reloading, restarts, known,
                   clash, takenBack, wrapped>>

\* A flush or a compaction saves a Manifest.
SaveSequence ==
    /\ reloading = NotReloading
    /\ lastSequence' = sequence
    /\ UNCHANGED <<sequence, numbered, batch, reloading, restarts, known, clash,
                   takenBack, wrapped>>

\* Retention, or Delete and a compaction.
DropRecord(n) ==
    /\ reloading = NotReloading
    /\ numbered' = numbered \ {n}
    /\ UNCHANGED <<sequence, lastSequence, batch, reloading, restarts, known,
                   clash, takenBack, wrapped>>

\* restoreSequence from a first value of the counter.
Restored(first) == Max({first} \cup numbered)

Restart ==
    /\ restarts < MaxRestarts
    /\ restarts' = restarts + 1
    /\ sequence' = Restored(lastSequence)
    /\ batch' = [w \in LogWriter |-> NoBatch]
    /\ reloading' = NotReloading
    /\ known' = numbered
    /\ clash' = FALSE
    /\ takenBack' = {}
    /\ wrapped' = FALSE
    /\ UNCHANGED <<numbered, lastSequence>>

\* ReLoad: the counter is read, the records are, and it is written back.
ReLoadBegins ==
    /\ reloading = NotReloading
    /\ reloading' = sequence
    /\ UNCHANGED <<sequence, numbered, lastSequence, batch, restarts, known,
                   clash, takenBack, wrapped>>

ReLoadEnds ==
    /\ reloading # NotReloading
    /\ sequence' = Restored(reloading)
    /\ takenBack' = takenBack \cup {n \in known : n > Restored(reloading)}
    /\ reloading' = NotReloading
    /\ UNCHANGED <<numbered, lastSequence, batch, restarts, known, clash, wrapped>>

\* What comes after the counter has wrapped is not followed.
SeqNext ==
    /\ ~wrapped
    /\ \/ \E w \in LogWriter :
              \/ Take(w)
              \/ \E n \in Given : Give(w, n)
              \/ Load(w)
              \/ CompareAndSwap(w)
              \/ Commit(w)
              \/ GiveUp(w)
       \/ SaveSequence
       \/ \E n \in numbered : DropRecord(n)
       \/ Restart
       \/ ReLoadBegins
       \/ ReLoadEnds

SeqSpec == SeqInit /\ [][SeqNext]_seqVars

-----------------------------------------------------------------------------
(* A number the store picks was not taken before by a write it still runs  *)
(* or a record it holds, across restarts and whatever numbers callers gave *)
(* concurrently.  The two ways to lose this are a ReLoad, which takes back *)
(* the numbers taken while it was reading, and a caller who gives so large *)
(* a number that the counter wraps.                                        *)
NumbersFresh == wrapped \/ ~clash
=============================================================================
