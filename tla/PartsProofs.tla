----------------------------- MODULE PartsProofs -----------------------------
(***************************************************************************)
(* Theorems of the parts of the store that stand alone.  They share no     *)
(* variable, and every theorem speaks of one of them: the numbers of logs, *)
(* for any number of writers, any width of the counter and any numbers     *)
(* given by callers; the files of the Manifest, for any contents and       *)
(* number of generations; the cache of blocks, for any blocks, readers and *)
(* capacities; queries, for any logs and labels; the Bloom filter, for any *)
(* items, hashes and sizes; Backup, for any number of writes, segments and *)
(* tables; the matcher, for any alphabet, pattern and target; the skip     *)
(* list and the MemTable around it, for any keys, values, heights and      *)
(* number of writers; and the background work, for any clients, bounds and *)
(* failures.                                                               *)
(***************************************************************************)
EXTENDS LogSequence, ManifestFiles, BlockCache, LogQuery, BloomFilter, Backup,
        Matcher, MemTable, Lifecycle, NaturalSets, SequenceTheorems

-----------------------------------------------------------------------------
(* LogSequence.                                                            *)

Numbers == 0 .. Largest

Batches == [at : {"idle", "load", "swap"}, numbers : SUBSET Numbers,
            count : Nat, given : Numbers, seen : Numbers]

SeqTypes ==
    /\ sequence \in Numbers
    /\ lastSequence \in Numbers
    /\ numbered \in SUBSET Numbers
    /\ known \in SUBSET Numbers
    /\ reloading \in Numbers \cup {NotReloading}
    /\ batch \in [LogWriter -> Batches]

(* Every number somebody holds is known; a swap goes upwards; and the      *)
(* counter is ahead of every number that no ReLoad has taken back.         *)
CounterAhead ==
    /\ numbered \subseteq known
    /\ \A w \in LogWriter : batch[w].numbers \subseteq known
    /\ \A w \in LogWriter : batch[w].at = "swap" => batch[w].seen < batch[w].given
    /\ ~wrapped => \A n \in known \ takenBack : n <= sequence

SeqInv == SeqTypes /\ CounterAhead /\ NumbersFresh

-----------------------------------------------------------------------------
(* What restoreSequence stores is not below the numbers of the records.    *)
LEMMA RestoredIsAhead ==
    ASSUME SeqTypes, NEW first \in Numbers
    PROVE  /\ Restored(first) \in Numbers
           /\ \A n \in numbered : n <= Restored(first)
<1>1. Numbers \in Indices
  BY IntervalIndices, LogSequenceAssumption DEF Numbers
<1>2. {first} \cup numbered \in Indices
  BY <1>1, SubsetIndices DEF SeqTypes
<1>3. {first} \cup numbered # {}
  OBVIOUS
<1>4. /\ Max({first} \cup numbered) \in {first} \cup numbered
      /\ \A n \in {first} \cup numbered : n <= Max({first} \cup numbered)
  BY <1>2, <1>3, MaxIsGreatest
<1> QED BY <1>4 DEF Restored, SeqTypes

LEMMA InitSequence == SeqInit => SeqInv
BY LogSequenceAssumption
   DEF SeqInit, SeqInv, SeqTypes, Batches, CounterAhead, NumbersFresh, Numbers, NoBatch,
       NotReloading

(* The batch of a writer whose entry got the number it was given.          *)
LEMMA NumberedTypes ==
    ASSUME SeqTypes, NEW w \in LogWriter
    PROVE  /\ EntryNumbered(w) \in [LogWriter -> Batches]
           /\ EntryNumbered(w)[w].at = "idle"
           /\ EntryNumbered(w)[w].numbers = batch[w].numbers \cup {batch[w].given}
           /\ \A v \in LogWriter \ {w} : EntryNumbered(w)[v] = batch[v]
BY LogSequenceAssumption DEF EntryNumbered, SeqTypes, Batches, Numbers

-----------------------------------------------------------------------------
(* One lemma for each step that changes the counter.                       *)

LEMMA TakeKeeps ==
    ASSUME SeqInv, ~wrapped, NEW w \in LogWriter, Take(w)
    PROVE  SeqInv'
<1> DEFINE n == (sequence + 1) % (Largest + 1)
<1> USE LogSequenceAssumption DEF SeqInv, SeqTypes, Batches, Numbers
<1>1. n \in Numbers /\ (n = 0 \/ n = sequence + 1)
  <2>1. CASE sequence = Largest
    <3>1. n = 0
      BY <2>1
    <3> QED BY <3>1
  <2>2. CASE sequence < Largest
    <3>1. n = sequence + 1
      BY <2>2
    <3> QED BY <3>1
  <2> QED BY <2>1, <2>2
<1>2. /\ sequence' = n
      /\ wrapped' = (wrapped \/ n = 0)
      /\ clash' = (clash \/ n \in known \ takenBack)
      /\ known' = known \cup {n}
      /\ batch' = [batch EXCEPT ![w].numbers = @ \cup {n}, ![w].count = @ + 1]
      /\ UNCHANGED <<numbered, lastSequence, reloading, restarts, takenBack>>
  BY DEF Take
<1> HIDE DEF n
<1>3. SeqTypes'
  BY <1>1, <1>2
<1>4. CounterAhead'
  BY <1>1, <1>2 DEF CounterAhead
<1>5. NumbersFresh'
  BY <1>1, <1>2 DEF CounterAhead, NumbersFresh
<1> QED BY <1>3, <1>4, <1>5

LEMMA CompareAndSwapKeeps ==
    ASSUME SeqInv, ~wrapped, NEW w \in LogWriter, CompareAndSwap(w)
    PROVE  SeqInv'
<1> USE LogSequenceAssumption DEF SeqInv, SeqTypes, Batches, Numbers, CompareAndSwap
<1>1. CASE Unchanged(w)
  <2>1. sequence < batch[w].given
    BY <1>1 DEF Unchanged, CounterAhead
  <2>2. /\ sequence' = batch[w].given
        /\ batch' = EntryNumbered(w)
        /\ known' = known \cup {batch[w].given}
    BY <1>1
  <2>3. SeqTypes'
    BY <2>2, NumberedTypes
  <2>4. CounterAhead'
    <3>1. \A v \in LogWriter : batch'[v].numbers \subseteq known'
      BY <2>2, NumberedTypes DEF CounterAhead
    <3>2. \A v \in LogWriter : batch'[v].at = "swap" => batch'[v].seen < batch'[v].given
      BY <2>2, NumberedTypes DEF CounterAhead
    <3>3. numbered' \subseteq known'
      BY <2>2 DEF CounterAhead
    <3>4. ~wrapped' => \A n \in known' \ takenBack' : n <= sequence'
      <4>1. \A n \in known \ takenBack : n <= batch[w].given
        <5>1. \A n \in known \ takenBack : n <= sequence
          BY DEF CounterAhead
        <5>2. sequence \in Int /\ batch[w].given \in Int /\ known \subseteq Int
          OBVIOUS
        <5> QED BY <2>1, <5>1, <5>2
      <4>2. takenBack' = takenBack
        OBVIOUS
      <4>3. batch[w].given <= batch[w].given
        OBVIOUS
      <4> QED BY <2>2, <4>1, <4>2, <4>3
    <3> QED BY <3>1, <3>2, <3>3, <3>4 DEF CounterAhead
  <2>5. NumbersFresh'
    BY DEF NumbersFresh
  <2> QED BY <2>3, <2>4, <2>5
<1>2. CASE ~Unchanged(w)
  BY <1>2 DEF CounterAhead, NumbersFresh
<1> QED BY <1>1, <1>2

LEMMA RestartKeeps ==
    ASSUME SeqInv, ~wrapped, Restart
    PROVE  SeqInv'
<1>1. /\ Restored(lastSequence) \in Numbers
      /\ \A n \in numbered : n <= Restored(lastSequence)
  BY RestoredIsAhead DEF SeqInv, SeqTypes
<1> QED BY <1>1, LogSequenceAssumption
        DEF SeqInv, SeqTypes, Batches, CounterAhead, NumbersFresh, Numbers, Restart, NoBatch,
            NotReloading

LEMMA ReLoadEndsKeeps ==
    ASSUME SeqInv, ~wrapped, ReLoadEnds
    PROVE  SeqInv'
<1>1. reloading \in Numbers
  BY DEF SeqInv, SeqTypes, ReLoadEnds
<1>2. /\ Restored(reloading) \in Numbers
      /\ \A n \in numbered : n <= Restored(reloading)
  BY <1>1, RestoredIsAhead DEF SeqInv
<1> QED BY <1>2, LogSequenceAssumption
        DEF SeqInv, SeqTypes, CounterAhead, NumbersFresh, Numbers, ReLoadEnds

LEMMA GiveKeeps ==
    ASSUME SeqInv, NEW w \in LogWriter, NEW n \in Given, Give(w, n)
    PROVE  SeqInv'
<1> USE LogSequenceAssumption DEF SeqInv, SeqTypes, Numbers, Give
<1>1. /\ batch'[w].at = "load"
      /\ batch'[w].numbers = batch[w].numbers
      /\ \A v \in LogWriter \ {w} : batch'[v] = batch[v]
  BY DEF Batches
<1>2. SeqTypes'
  <2> DEFINE loading == [batch[w] EXCEPT !.at = "load"]
  <2>1. batch' = [batch EXCEPT ![w] = [loading EXCEPT !.given = n]]
    OBVIOUS
  <2>2. [loading EXCEPT !.given = n] \in Batches
    <3>1. loading \in Batches
      BY DEF Batches
    <3> HIDE DEF loading
    <3> QED BY <3>1 DEF Batches
  <2>3. batch' \in [LogWriter -> Batches]
    BY <2>1, <2>2
  <2> QED BY <2>3
<1>3. CounterAhead'
  BY <1>1 DEF CounterAhead
<1>4. NumbersFresh'
  BY DEF NumbersFresh
<1> QED BY <1>2, <1>3, <1>4

LEMMA LoadKeeps ==
    ASSUME SeqInv, ~wrapped, NEW w \in LogWriter, Load(w)
    PROVE  SeqInv'
<1> USE LogSequenceAssumption DEF SeqInv, SeqTypes, Batches, Numbers, Load
<1>1. CASE sequence >= batch[w].given
  <2>1. batch' = EntryNumbered(w) /\ known' = known \cup {batch[w].given}
    BY <1>1
  <2>2. SeqTypes'
    BY <2>1, NumberedTypes
  <2>3. CounterAhead'
    BY <1>1, <2>1, NumberedTypes DEF CounterAhead
  <2>4. NumbersFresh'
    BY DEF NumbersFresh
  <2> QED BY <2>2, <2>3, <2>4
<1>2. CASE ~(sequence >= batch[w].given)
  BY <1>2 DEF CounterAhead, NumbersFresh
<1> QED BY <1>1, <1>2

(* Commit and GiveUp: the writer has no batch, the counter is as it was.   *)
LEMMA BatchEndsKeeps ==
    ASSUME SeqInv, NEW w \in LogWriter, Commit(w) \/ GiveUp(w)
    PROVE  SeqInv'
<1> USE LogSequenceAssumption DEF SeqInv, SeqTypes, Numbers
<1>1. /\ batch' = [batch EXCEPT ![w] = NoBatch]
      /\ numbered' = numbered \/ numbered' = numbered \cup batch[w].numbers
      /\ UNCHANGED <<sequence, lastSequence, reloading, known, clash, takenBack, wrapped>>
  BY DEF Commit, GiveUp
<1>2. SeqTypes'
  <2>1. NoBatch \in Batches
    BY DEF NoBatch, Batches
  <2>2. batch' \in [LogWriter -> Batches]
    BY <1>1, <2>1
  <2>3. numbered' \in SUBSET Numbers
    BY <1>1 DEF Batches
  <2> QED BY <1>1, <2>2, <2>3
<1>3. CounterAhead'
  BY <1>1 DEF CounterAhead, NoBatch
<1>4. NumbersFresh'
  BY <1>1 DEF NumbersFresh
<1> QED BY <1>2, <1>3, <1>4

(* The steps of the store that leave the counter and the batches alone.    *)
LEMMA OthersKeep ==
    ASSUME SeqInv,
           SaveSequence \/ (\E n \in numbered : DropRecord(n)) \/ ReLoadBegins
    PROVE  SeqInv'
<1>1. /\ numbered' \subseteq numbered
      /\ lastSequence' \in {lastSequence, sequence}
      /\ reloading' \in {reloading, sequence}
      /\ UNCHANGED <<sequence, batch, known, clash, takenBack, wrapped>>
  BY DEF SaveSequence, DropRecord, ReLoadBegins
<1>2. SeqTypes'
  BY <1>1 DEF SeqInv, SeqTypes
<1>3. CounterAhead'
  BY <1>1 DEF SeqInv, CounterAhead
<1>4. NumbersFresh'
  BY <1>1 DEF SeqInv, NumbersFresh
<1> QED BY <1>2, <1>3, <1>4 DEF SeqInv

LEMMA NextSequence == SeqInv /\ [SeqNext]_seqVars => SeqInv'
<1> SUFFICES ASSUME SeqInv, [SeqNext]_seqVars PROVE SeqInv'
  OBVIOUS
<1>1. ASSUME ~wrapped, NEW w \in LogWriter, Take(w) PROVE SeqInv'
  BY <1>1, TakeKeeps
<1>2. ASSUME NEW w \in LogWriter, NEW n \in Given, Give(w, n) PROVE SeqInv'
  BY <1>2, GiveKeeps
<1>3. ASSUME ~wrapped, NEW w \in LogWriter, Load(w) PROVE SeqInv'
  BY <1>3, LoadKeeps
<1>4. ASSUME ~wrapped, NEW w \in LogWriter, CompareAndSwap(w) PROVE SeqInv'
  BY <1>4, CompareAndSwapKeeps
<1>5. ASSUME NEW w \in LogWriter, Commit(w) \/ GiveUp(w) PROVE SeqInv'
  BY <1>5, BatchEndsKeeps
<1>6. CASE SaveSequence \/ (\E n \in numbered : DropRecord(n)) \/ ReLoadBegins
  BY <1>6, OthersKeep
<1>7. CASE ~wrapped /\ Restart
  BY <1>7, RestartKeeps
<1>8. CASE ~wrapped /\ ReLoadEnds
  BY <1>8, ReLoadEndsKeeps
<1>9. CASE UNCHANGED seqVars
  BY <1>9 DEF seqVars, SeqInv, SeqTypes, CounterAhead, NumbersFresh
<1> QED BY <1>1, <1>2, <1>3, <1>4, <1>5, <1>6, <1>7, <1>8, <1>9 DEF SeqNext

(* A number that WriteLogs picks is new to the running writes and to the   *)
(* records of the store, across concurrent numbers of callers and          *)
(* restarts, unless a ReLoad took it back or the counter has wrapped       *)
(* (log.go, observeSequence and restoreSequence).                          *)
THEOREM NumbersAreFresh == SeqSpec => []NumbersFresh
<1>1. SeqInv => NumbersFresh
  BY DEF SeqInv
<1> QED BY InitSequence, NextSequence, <1>1, PTL DEF SeqSpec

-----------------------------------------------------------------------------
(* ManifestFiles.                                                          *)

(* Renaming a file onto a name that is free succeeds.  Where it does not,  *)
(* publishCurrent can lose the Manifest: it removes CURRENT.bak before it  *)
(* looks whether there is a CURRENT.                                       *)
FreeNamesRename == "free" \notin Faults

(* The file of the save in progress, from its rename on.                   *)
GenerationWritten == stage \notin {"idle", "generation"}

(* CURRENT or its backup name a generation that exists, and CURRENT is     *)
(* missing only while it is being replaced: from MoveAside to SwitchAgain, *)
(* or after a crash or a failure in between.                               *)
ManifestInv ==
    /\ DOMAIN generations \in Indices /\ 0 \notin DOMAIN generations
    /\ legacy \in Manifest \cup {None} /\ legacyBackup \in Manifest \cup {None}
    /\ Named # 0 => Named \in DOMAIN generations
    /\ stage \in {"idle", "generation", "switch", "dropBackup", "moveAside", "again",
                  "restore", "dropAside", "prune", "migrated"}
    /\ IF stage = "idle" THEN saving = None ELSE saving \in Manifest
    /\ stage = "generation" => savedAs \in Nat \ {0} /\ savedAs \notin DOMAIN generations
    /\ GenerationWritten => savedAs \in DOMAIN generations /\ generations[savedAs] = saving
    /\ stage \in {"dropBackup", "moveAside"} => current # 0
    /\ stage \in {"again", "restore"} => current = 0
    /\ stage \in {"dropAside", "prune", "migrated"} => current = savedAs

LEMMA NextGenerationIsNew ==
    ASSUME DOMAIN generations \in Indices
    PROVE  NextGeneration \in Nat \ {0} /\ NextGeneration \notin DOMAIN generations
<1>1. CASE DOMAIN generations = {}
  BY <1>1 DEF NextGeneration
<1>2. CASE DOMAIN generations # {}
  <2>1. Max(DOMAIN generations) \in Nat /\ \A g \in DOMAIN generations : g <= Max(DOMAIN generations)
    BY <1>2, MaxIsGreatest
  <2>2. DOMAIN generations \subseteq Nat
    BY DEF Indices
  <2> QED BY <1>2, <2>1, <2>2 DEF NextGeneration
<1> QED BY <1>1, <1>2

LEMMA ManifestInvInit == Init => ManifestInv
<1> SUFFICES ASSUME Init PROVE ManifestInv
  OBVIOUS
<1>1. DOMAIN generations = {}
  BY DEF Init
<1>2. DOMAIN generations \in Indices
  BY <1>1, FS_EmptySet DEF Indices
<1> QED BY <1>1, <1>2 DEF Init, ManifestInv, Named, GenerationWritten

(* Every operation on a file keeps it.                                     *)
LEMMA ManifestInvStep ==
    ASSUME FreeNamesRename
    PROVE  ManifestInv /\ [Next]_vars => ManifestInv'
<1> SUFFICES ASSUME ManifestInv, [Next]_vars PROVE ManifestInv'
  OBVIOUS
<1> USE DEF ManifestInv, GenerationWritten, Named
<1>1. ASSUME NEW m \in Manifest, Save(m) PROVE ManifestInv'
  BY <1>1, NextGenerationIsNew DEF Save, files
<1>2. CASE WriteGeneration
  <2>1. /\ DOMAIN generations' = DOMAIN generations \cup {savedAs}
        /\ generations'[savedAs] = saving
    BY <1>2 DEF WriteGeneration
  <2>2. DOMAIN generations' \in Indices /\ 0 \notin DOMAIN generations'
    BY <1>2, <2>1, AddedNumber DEF WriteGeneration
  <2> QED BY <1>2, <2>1, <2>2 DEF WriteGeneration
<1>3. CASE WriteFails
  BY <1>3 DEF WriteFails, Abort, files
<1>4. CASE SwitchCurrent
  BY <1>4 DEF SwitchCurrent
<1>5. CASE SwitchFails
  BY <1>5 DEF SwitchFails, RenameMayFail, FreeNamesRename, files
<1>6. CASE DropBackup
  BY <1>6 DEF DropBackup
<1>7. CASE MoveAside
  BY <1>7 DEF MoveAside
<1>8. CASE MoveAsideFails
  BY <1>8 DEF MoveAsideFails, Abort, files
<1>9. CASE SwitchAgain
  BY <1>9 DEF SwitchAgain
<1>10. CASE SwitchAgainFails
  BY <1>10 DEF SwitchAgainFails, files
<1>11. CASE Restore
  BY <1>11 DEF Restore, Abort
<1>12. CASE DropAside
  BY <1>12 DEF DropAside
<1>13. CASE Prune
  <2>1. savedAs \in DOMAIN generations /\ DOMAIN generations \in Indices /\ stage = "prune"
    BY <1>13 DEF Prune
  <2>2. savedAs \notin Pruned
    BY <2>1 DEF Pruned, Indices
  <2>3. PICK kept \in SUBSET Pruned :
          generations' = [g \in (DOMAIN generations \ Pruned) \cup kept |-> generations[g]]
    BY <1>13 DEF Prune
  <2>4. /\ DOMAIN generations' \subseteq DOMAIN generations
        /\ savedAs \in DOMAIN generations' /\ generations'[savedAs] = generations[savedAs]
    BY <2>1, <2>2, <2>3 DEF Pruned
  <2>5. DOMAIN generations' \in Indices
    BY <2>1, <2>4, SubsetIndices
  <2> QED BY <1>13, <2>1, <2>4, <2>5 DEF Prune, Abort
<1>14. CASE Open
  <2>1. Named = 0 => Loaded \in {legacy, legacyBackup}
    BY DEF Loaded
  <2> QED BY <1>14, <2>1, NextGenerationIsNew DEF Open, files
<1>15. CASE Migrated
  BY <1>15 DEF Migrated, Abort
<1>16. CASE Crash
  BY <1>16 DEF Crash, Abort
<1>17. CASE UNCHANGED vars
  BY <1>17 DEF vars, files
<1> QED BY <1>1, <1>2, <1>3, <1>4, <1>5, <1>6, <1>7, <1>8, <1>9, <1>10, <1>11, <1>12, <1>13,
           <1>14, <1>15, <1>16, <1>17 DEF Next, Publish

-----------------------------------------------------------------------------
(* Every step is one of the cell, or none.                                 *)

Visible == stage \in {"dropAside", "prune", "migrated"}

(* What a start loads once the new generation is in force.                 *)
LEMMA LoadedIsSaved ==
    ASSUME ManifestInv, Visible
    PROVE  Loaded = saving
BY DEF ManifestInv, Visible, Loaded, Named, GenerationWritten

(* As long as CURRENT, its backup and the generation that they name stay.  *)
LEMMA LoadedSameFiles ==
    ASSUME Named' = Named, legacy' = legacy, legacyBackup' = legacyBackup,
           Named \in DOMAIN generations <=> Named \in DOMAIN generations',
           Named \in DOMAIN generations => generations'[Named] = generations[Named]
    PROVE  Loaded' = Loaded
BY DEF Loaded

LEMMA CellInit == Init => Cell!Init
<1> SUFFICES ASSUME Init PROVE Cell!Init
  OBVIOUS
<1>1. Loaded \in Manifest \cup {None}
  BY DEF Init, Loaded, Named
<1> QED BY <1>1 DEF Init, Cell!Init

LEMMA CellStep ==
    ASSUME FreeNamesRename, ManifestInv, ManifestInv', [Next]_vars
    PROVE  [Cell!Next]_(Cell!vars)
<1> USE DEF ManifestInv, GenerationWritten
<1>0. None \notin Manifest /\ Cell!vars = <<Loaded, memory, saving, Visible>>
  BY ManifestFilesAssumption DEF Cell!vars, Visible
<1>1. ASSUME NEW m \in Manifest, Save(m) PROVE Cell!Next
  <2>1. Loaded' = Loaded
    BY <1>1, LoadedSameFiles DEF Save, files, Named
  <2> QED BY <1>1, <2>1 DEF Save, Cell!Save, Cell!Next
<1>2. CASE WriteGeneration
  <2>1. Named' = Named /\ Named # savedAs
    BY <1>2 DEF WriteGeneration, Named
  <2>2. Loaded' = Loaded
    BY <1>2, <2>1, LoadedSameFiles DEF WriteGeneration
  <2> QED BY <1>0, <1>2, <2>2 DEF WriteGeneration, Visible, Cell!vars
<1>3. CASE WriteFails \/ MoveAsideFails
  <2>1. Loaded' = Loaded
    BY <1>3, LoadedSameFiles DEF WriteFails, MoveAsideFails, files, Named
  <2> QED BY <1>0, <1>3, <2>1 DEF WriteFails, MoveAsideFails, Abort, Cell!Fail, Cell!Next
<1>4. CASE SwitchCurrent \/ SwitchAgain
  <2>1. Visible' /\ saving' = saving
    BY <1>4 DEF SwitchCurrent, SwitchAgain, Visible
  <2>2. Loaded' = saving'
    BY <2>1 DEF Visible, Loaded, Named
  <2> QED BY <1>0, <1>4, <2>1, <2>2 DEF SwitchCurrent, SwitchAgain, Cell!Commit, Cell!Next
<1>5. CASE SwitchFails \/ SwitchAgainFails
  <2>1. Loaded' = Loaded
    BY <1>5, LoadedSameFiles DEF SwitchFails, SwitchAgainFails, files, Named
  <2> QED BY <1>0, <1>5, <2>1 DEF SwitchFails, SwitchAgainFails, Visible, Cell!vars
<1>6. CASE DropBackup \/ MoveAside \/ DropAside
  <2>1. Named' = Named
    BY <1>6 DEF DropBackup, MoveAside, DropAside, Named
  <2>2. Loaded' = Loaded
    BY <1>6, <2>1, LoadedSameFiles DEF DropBackup, MoveAside, DropAside
  <2> QED BY <1>0, <1>6, <2>2 DEF DropBackup, MoveAside, DropAside, Visible, Cell!vars
<1>7. CASE Restore
  <2>1. Named' = Named
    BY <1>7 DEF Restore, Named
  <2>2. Loaded' = Loaded
    BY <1>7, <2>1, LoadedSameFiles DEF Restore
  <2> QED BY <1>0, <1>7, <2>2 DEF Restore, Abort, Cell!Fail, Cell!Next
<1>8. CASE Prune
  <2>1. Visible /\ Loaded = saving
    BY <1>8, LoadedIsSaved DEF Prune, Visible
  <2>2. Named' = Named /\ Named = savedAs
    BY <1>8 DEF Prune, Named, Indices
  <2>3. savedAs \in DOMAIN generations' /\ generations'[savedAs] = generations[savedAs]
    <3>1. savedAs \notin Pruned
      BY <1>8 DEF Prune, Pruned, Indices
    <3> QED BY <1>8, <3>1 DEF Prune, Pruned
  <2>4. Loaded' = Loaded
    BY <1>8, <2>2, <2>3, LoadedSameFiles DEF Prune
  <2>5. CASE memory = None
    BY <1>0, <1>8, <2>4, <2>5 DEF Prune, Visible, Cell!vars
  <2>6. CASE memory # None
    BY <1>8, <2>1, <2>4, <2>6 DEF Prune, Visible, Abort, Cell!Succeed, Cell!Next
  <2> QED BY <2>5, <2>6
<1>9. CASE Open
  <2>1. Loaded' = Loaded
    BY <1>9, LoadedSameFiles DEF Open, files, Named
  <2>2. CASE Named = 0 /\ Loaded # None
    <3>1. Loaded \in Manifest
      BY <2>2 DEF Loaded
    <3> QED BY <1>9, <2>1, <2>2, <3>1 DEF Open, Cell!Save, Cell!Next
  <2>3. CASE ~(Named = 0 /\ Loaded # None)
    BY <1>9, <2>1, <2>3 DEF Open, Cell!Load, Cell!Next
  <2> QED BY <2>2, <2>3
<1>10. CASE Migrated
  <2>1. Visible /\ Loaded = saving
    BY <1>10, LoadedIsSaved DEF Migrated, Visible
  <2>2. Loaded' = Loaded
    BY <1>10 DEF Migrated, Loaded, Named
  <2> QED BY <1>10, <2>1, <2>2 DEF Migrated, Visible, Abort, Cell!Succeed, Cell!Next
<1>11. CASE Crash
  <2>1. Loaded' = Loaded
    BY <1>11 DEF Crash, Loaded, Named
  <2> QED BY <1>11, <2>1 DEF Crash, Abort, Cell!Crash, Cell!Next
<1>12. CASE UNCHANGED vars
  <2>1. Loaded' = Loaded
    BY <1>12, LoadedSameFiles DEF vars, files, Named
  <2> QED BY <1>0, <1>12, <2>1 DEF vars, files, Visible, Cell!vars
<1> QED BY <1>1, <1>2, <1>3, <1>4, <1>5, <1>6, <1>7, <1>8, <1>9, <1>10, <1>11, <1>12
        DEF Next, Publish

(* saveManifest and loadManifest implement one atomic cell: publishing a   *)
(* generation takes effect when CURRENT is switched, in one step, whatever *)
(* fails and wherever a crash interrupts publishManifestGeneration or the  *)
(* migration of the old layout.                                            *)
THEOREM ManifestIsAtomic ==
    ASSUME FreeNamesRename
    PROVE  Spec => IsAtomic
<1>1. ManifestInv /\ ManifestInv' /\ [Next]_vars => [Cell!Next]_(Cell!vars)
  BY CellStep
<1> QED BY <1>1, ManifestInvInit, ManifestInvStep, CellInit, PTL
        DEF Spec, IsAtomic, Cell!Spec

-----------------------------------------------------------------------------
(* BlockCache.                                                             *)

(* Slices are made as they are needed.                                     *)
SlicesNeverRunOut ==
    /\ IsFiniteSet(Reader)
    /\ \A S \in SUBSET Slice : IsFiniteSet(S) => Slice \ S # {}

CacheEntry == [block : Block, slice : Slice]
ReaderState == [at : {"idle", "fill", "keep", "decode"}, block : Block \cup {Blank},
                slice : Nat, own : BOOLEAN, locked : BOOLEAN]

Busy(r)   == reading[r].at # "idle"
Owner(r)  == Busy(r) /\ reading[r].own
Entries   == ToSet(lru)
Apart(l)  == \A i, j \in DOMAIN l :
                 l[i].slice = l[j].slice \/ l[i].block = l[j].block => i = j

CacheTypes ==
    /\ lru \in Seq(CacheEntry)
    /\ pooled \in SUBSET Slice /\ IsFiniteSet(pooled)
    /\ DOMAIN bytes = Slice
    /\ reading \in [Reader -> ReaderState]
    /\ \A r \in Reader : Busy(r) => reading[r].block \in Block /\ reading[r].slice \in Slice
    /\ \A r \in Reader : reading[r].at \in {"fill", "keep"} => reading[r].own
    /\ \A r \in Reader : reading[r].at = "keep" => reading[r].locked

(* A slice is in the pool, or in one entry of the cache and with any       *)
(* number of readers that only look at it, or with one reader, which fills *)
(* it and gives it back; never in two of these.                            *)
SlicesOwned ==
    /\ Apart(lru)
    /\ \A e \in Entries : e.slice \notin pooled
    /\ \A r \in Reader : Busy(r) => reading[r].slice \notin pooled
    /\ \A r \in Reader : Owner(r) =>
          /\ \A e \in Entries : e.slice # reading[r].slice
          /\ \A q \in Reader \ {r} : Busy(q) => reading[q].slice # reading[r].slice

(* Slices hold the block their entry or their reader takes them for.       *)
RightBytes ==
    /\ \A e \in Entries : bytes[e.slice] = e.block
    /\ \A r \in Reader : reading[r].at \in {"keep", "decode"} =>
          bytes[reading[r].slice] = reading[r].block

CacheInv == CacheTypes /\ SlicesOwned /\ RightBytes

(* No table is replaced under a reader that uses the cache.                *)
ReadersHoldTables ==
    /\ \A r \in Reader : Busy(r) /\ reading[r].locked =>
          FileOf(reading[r].block) \notin retired
    /\ forgotten \subseteq retired
    /\ ForgottenStaysOut

-----------------------------------------------------------------------------
(* Lists of entries.                                                       *)

LEMMA InSet ==
    ASSUME NEW T, NEW l \in Seq(T)
    PROVE  /\ ToSet(l) \subseteq T
           /\ \A i \in DOMAIN l : l[i] \in ToSet(l)
           /\ \A e \in ToSet(l) : \E i \in DOMAIN l : l[i] = e
BY DEF ToSet

LEMMA EntryTypes ==
    ASSUME CacheTypes, NEW e \in Entries
    PROVE  e \in CacheEntry /\ e.slice \in Slice /\ e.block \in Block
<1>1. Entries \subseteq CacheEntry
  BY InSet DEF CacheTypes, Entries
<1> QED BY <1>1 DEF CacheEntry

LEMMA PickApart ==
    ASSUME NEW l \in Seq(CacheEntry), Apart(l), NEW I \in SUBSET (DOMAIN l)
    PROVE  /\ Pick(l, I) \in Seq(CacheEntry)
           /\ Apart(Pick(l, I))
           /\ \A e \in ToSet(Pick(l, I)) : \E i \in I : e = l[i]
<1> DEFINE p == Pick(l, I)
<1>1. /\ p \in Seq(CacheEntry) /\ I \in Indices
      /\ DOMAIN p = 1..Cardinality(I)
      /\ \A n \in DOMAIN p : Nth(I, n - 1) \in I /\ p[n] = l[Nth(I, n - 1)]
      /\ \A m, n \in DOMAIN p : m < n <=> Nth(I, m - 1) < Nth(I, n - 1)
  BY PickOf
<1>2. DOMAIN l \subseteq Nat /\ DOMAIN p \subseteq Nat
  BY <1>1
<1> HIDE DEF p
<1>3. ASSUME NEW m \in DOMAIN p, NEW n \in DOMAIN p,
             p[m].slice = p[n].slice \/ p[m].block = p[n].block
      PROVE  m = n
  <2>1. Nth(I, m - 1) = Nth(I, n - 1)
    BY <1>1, <1>3 DEF Apart
  <2>2. m \in Nat /\ n \in Nat /\ Nth(I, n - 1) \in Nat
    BY <1>1, <1>2
  <2>3. ~(m < n) /\ ~(n < m)
    BY <1>1, <2>1, <2>2
  <2> QED BY <2>2, <2>3
<1>4. \A e \in ToSet(p) : \E i \in I : e = l[i]
  BY <1>1 DEF ToSet
<1> QED BY <1>1, <1>3, <1>4 DEF Apart, p

LEMMA FrontApart ==
    ASSUME NEW l \in Seq(CacheEntry), Apart(l), NEW e \in CacheEntry,
           \A i \in DOMAIN l : l[i].slice # e.slice /\ l[i].block # e.block
    PROVE  /\ <<e>> \o l \in Seq(CacheEntry)
           /\ Apart(<<e>> \o l)
           /\ ToSet(<<e>> \o l) = {e} \cup ToSet(l)
<1> DEFINE f == <<e>> \o l
<1>1. /\ f \in Seq(CacheEntry) /\ DOMAIN f = 1..(Len(l) + 1) /\ f[1] = e
      /\ DOMAIN l = 1..Len(l) /\ Len(l) \in Nat
  OBVIOUS
<1>2. \A i \in DOMAIN f : i # 1 => i - 1 \in DOMAIN l /\ f[i] = l[i - 1]
  OBVIOUS
<1>3. \A i \in DOMAIN l : i + 1 \in DOMAIN f /\ f[i + 1] = l[i]
  OBVIOUS
<1> HIDE DEF f
<1>4. ASSUME NEW i \in DOMAIN f, NEW j \in DOMAIN f,
             f[i].slice = f[j].slice \/ f[i].block = f[j].block
      PROVE  i = j
  <2>1. i \in Nat /\ j \in Nat
    BY <1>1
  <2>2. CASE i = 1 \/ j = 1
    BY <1>1, <1>2, <1>4, <2>2
  <2>3. CASE i # 1 /\ j # 1
    <3>1. i - 1 = j - 1
      BY <1>2, <1>4, <2>3 DEF Apart
    <3> QED BY <2>1, <3>1
  <2> QED BY <2>2, <2>3
<1>5. ToSet(f) \subseteq {e} \cup ToSet(l)
  BY <1>1, <1>2 DEF ToSet
<1>6. {e} \cup ToSet(l) \subseteq ToSet(f)
  <2>1. 1 \in DOMAIN f
    BY <1>1
  <2>2. ToSet(l) \subseteq ToSet(f)
    BY <1>3 DEF ToSet
  <2>3. e \in ToSet(f)
    BY <1>1, <2>1 DEF ToSet
  <2> QED BY <2>2, <2>3
<1> QED BY <1>1, <1>4, <1>5, <1>6 DEF Apart, f

LEMMA PrefixApart ==
    ASSUME NEW l \in Seq(CacheEntry), Apart(l), NEW n \in 0..Len(l)
    PROVE  /\ SubSeq(l, 1, n) \in Seq(CacheEntry)
           /\ Apart(SubSeq(l, 1, n))
           /\ ToSet(SubSeq(l, 1, n)) \subseteq ToSet(l)
<1> DEFINE p == SubSeq(l, 1, n)
<1>1. /\ p \in Seq(CacheEntry) /\ DOMAIN p \subseteq DOMAIN l
      /\ \A i \in DOMAIN p : p[i] = l[i]
  OBVIOUS
<1> HIDE DEF p
<1>2. ToSet(p) \subseteq ToSet(l)
  BY <1>1 DEF ToSet
<1>3. Apart(p)
  BY <1>1 DEF Apart
<1> QED BY <1>1, <1>2, <1>3 DEF p

(* Eviction leaves a prefix that fits.                                     *)
LEMMA KeptIsPrefix ==
    ASSUME NEW T, NEW l \in Seq(T), Capacity > 0
    PROVE  \E n \in 0..Len(l) : /\ Kept(l) = SubSeq(l, 1, n)
                               /\ BytesOf(SubSeq(l, 1, n)) <= Capacity
<1> DEFINE N == {n \in 0..Len(l) : BytesOf(SubSeq(l, 1, n)) <= Capacity}
<1>1. BytesOf(<<>>) = 0
  <2> DEFINE sizes == [i \in DOMAIN <<>> |-> BlockBytes(<<>>[i].block)]
  <2>1. BytesOf(<<>>) = SumFunctionOnSet(sizes, DOMAIN sizes)
    BY DEF BytesOf, SumFunction
  <2>2. DOMAIN sizes = {}
    OBVIOUS
  <2> HIDE DEF sizes
  <2> QED BY <2>1, <2>2, SumOfNone
<1>2. SubSeq(l, 1, 0) = <<>> /\ Len(l) \in Nat
  OBVIOUS
<1>3. 0 \in N
  <2>1. BytesOf(SubSeq(l, 1, 0)) = 0
    BY <1>1, <1>2
  <2>2. 0 \in 0..Len(l) /\ 0 <= Capacity
    BY <1>2, BlockCacheAssumption
  <2> QED BY <2>1, <2>2
<1>4. N \in Indices
  BY <1>2, IntervalIndices, SubsetIndices
<1>5. Max(N) \in N
  <2> HIDE DEF N
  <2> QED BY <1>3, <1>4, MaxIsGreatest
<1> QED BY <1>5 DEF Kept

-----------------------------------------------------------------------------
(* Slices.                                                                 *)

LEMMA FreshIsFree ==
    ASSUME SlicesNeverRunOut, CacheTypes
    PROVE  /\ Fresh \in Slice
           /\ Fresh \notin pooled
           /\ \A e \in Entries : e.slice # Fresh
           /\ \A r \in Reader : reading[r].slice # Fresh
<1> DEFINE inLru == {lru[i].slice : i \in DOMAIN lru}
           inReaders == {reading[r].slice : r \in Reader}
<1>1. IsFiniteSet(inLru)
  <2> DEFINE f == [i \in DOMAIN lru |-> lru[i].slice]
  <2>1. IsFiniteSet(DOMAIN lru)
    <3>1. DOMAIN lru = 1..Len(lru) /\ Len(lru) \in Nat
      BY DEF CacheTypes
    <3> QED BY <3>1, FS_Interval
  <2>2. f \in Surjection(DOMAIN lru, inLru)
    BY DEF Surjection
  <2> QED BY <2>1, <2>2, FS_Surjection
<1>2. IsFiniteSet(inReaders)
  <2> DEFINE f == [r \in Reader |-> reading[r].slice]
  <2>1. f \in Surjection(Reader, inReaders)
    BY DEF Surjection
  <2> QED BY <2>1, FS_Surjection DEF SlicesNeverRunOut
<1>3. IsFiniteSet(Referred)
  BY <1>1, <1>2, FS_Union DEF Referred, CacheTypes
<1>4. Slice \ Referred # {}
  <2>1. IsFiniteSet(Slice \cap Referred)
    BY <1>3, FS_Intersection
  <2>2. Slice \ (Slice \cap Referred) # {}
    BY <2>1 DEF SlicesNeverRunOut
  <2> QED BY <2>2
<1>5. Fresh \in Slice \ Referred
  <2>1. Slice \ Referred \in SUBSET Nat
    BY BlockCacheAssumption
  <2> QED BY <1>4, <2>1, LeastOfNaturals DEF Fresh
<1>6. \A e \in Entries : e.slice \in inLru
  BY DEF Entries, ToSet
<1> QED BY <1>5, <1>6 DEF Referred

(* A slice that the pool or the allocator gives to a reader.               *)
LEMMA GettableIsFree ==
    ASSUME SlicesNeverRunOut, CacheInv, NEW b \in Block, NEW s \in Gettable(b)
    PROVE  /\ s \in Slice
           /\ \A e \in Entries : e.slice # s
           /\ \A r \in Reader : Busy(r) => reading[r].slice # s
<1>1. CASE s \in pooled
  BY <1>1 DEF CacheInv, CacheTypes, SlicesOwned
<1>2. CASE s = Fresh
  BY <1>2, FreshIsFree DEF CacheInv
<1> QED BY <1>1, <1>2 DEF Gettable

(* What is in use keeps its bytes.                                         *)
LEMMA WipedKeeps ==
    ASSUME NEW b, DOMAIN b = Slice, bytes' = Wiped(b)
    PROVE  /\ DOMAIN bytes' = Slice
           /\ \A e \in ToSet(lru') : e.slice \in Slice => bytes'[e.slice] = b[e.slice]
           /\ \A r \in Reader : reading'[r].slice \in Slice =>
                 bytes'[reading'[r].slice] = b[reading'[r].slice]
BY DEF Wiped, ToSet

LEMMA EntryOfCached ==
    ASSUME CacheTypes, NEW b \in Block, Cached(b)
    PROVE  /\ EntryOf(b) \in Entries
           /\ EntryOf(b).block = b
BY DEF Cached, EntryOf, Entries, ToSet

LEMMA WithoutIsRest ==
    ASSUME CacheTypes, Apart(lru), NEW b
    PROVE  /\ Without(b) \in Seq(CacheEntry)
           /\ Apart(Without(b))
           /\ \A e \in ToSet(Without(b)) : e \in Entries /\ e.block # b
<1> DEFINE I == {i \in DOMAIN lru : lru[i].block # b}
<1>1. I \in SUBSET DOMAIN lru /\ lru \in Seq(CacheEntry)
  BY DEF CacheTypes
<1>2. \A i \in I : lru[i] \in Entries /\ lru[i].block # b
  BY DEF Entries, ToSet
<1> QED BY <1>1, <1>2, PickApart DEF Without

(* One entry of every block and of every slice.                            *)
LEMMA EntriesApart ==
    ASSUME CacheTypes, Apart(lru), NEW e \in Entries, NEW f \in Entries,
           e.slice = f.slice \/ e.block = f.block
    PROVE  e = f
BY DEF Apart, Entries, ToSet


-----------------------------------------------------------------------------
(* The steps.                                                              *)

LEMMA CacheInvInit == CacheInit => CacheInv /\ ReadersHoldTables
<1> SUFFICES ASSUME CacheInit PROVE CacheInv /\ ReadersHoldTables
  OBVIOUS
<1>1. lru = <<>> /\ DOMAIN lru = {} /\ ToSet(lru) = {}
  <2>1. DOMAIN <<>> = {}
    OBVIOUS
  <2> QED BY <2>1 DEF CacheInit, ToSet
<1>2. IsFiniteSet({})
  BY FS_EmptySet
<1>3. CacheTypes
  BY <1>1, <1>2 DEF CacheInit, CacheTypes, NotReading, ReaderState, Busy
<1>4. SlicesOwned /\ RightBytes
  BY <1>1 DEF CacheInit, SlicesOwned, RightBytes, NotReading, Busy, Owner, Entries, Apart
<1>5. ReadersHoldTables
  BY <1>1 DEF CacheInit, ReadersHoldTables, NotReading, Busy, ForgottenStaysOut
<1> QED BY <1>3, <1>4, <1>5 DEF CacheInv

LEMMA HitKeeps ==
    ASSUME CacheInv, NEW r \in Reader, NEW b \in Block, StartRead(r, b, TRUE),
           Capacity > 0, Cached(b)
    PROVE  CacheInv'
<1> DEFINE e == EntryOf(b)
<1>1. /\ reading' = [reading EXCEPT ![r] =
             [at |-> "decode", block |-> b, slice |-> e.slice, own |-> FALSE, locked |-> TRUE]]
      /\ lru' = <<e>> \o Without(b)
      /\ UNCHANGED <<pooled, bytes>>
      /\ ~Busy(r)
  BY DEF StartRead, Busy
<1>2. e \in Entries /\ e.block = b /\ e \in CacheEntry
  <2>1. e \in Entries /\ e.block = b
    BY EntryOfCached DEF CacheInv
  <2> QED BY <2>1, InSet DEF CacheInv, CacheTypes, Entries
<1> HIDE DEF e
<1>3. /\ Without(b) \in Seq(CacheEntry) /\ Apart(Without(b))
      /\ \A f \in ToSet(Without(b)) : f \in Entries /\ f.block # b
  BY WithoutIsRest DEF CacheInv, SlicesOwned
<1>4. \A i \in DOMAIN Without(b) : Without(b)[i].slice # e.slice /\ Without(b)[i].block # e.block
  <2> SUFFICES ASSUME NEW i \in DOMAIN Without(b)
               PROVE  Without(b)[i].slice # e.slice /\ Without(b)[i].block # e.block
    OBVIOUS
  <2>1. Without(b)[i] \in Entries /\ Without(b)[i].block # b
    BY <1>3, InSet
  <2> QED BY <1>2, <2>1, EntriesApart DEF CacheInv, SlicesOwned
<1>5. lru' \in Seq(CacheEntry) /\ Apart(lru') /\ ToSet(lru') = {e} \cup ToSet(Without(b))
  BY <1>1, <1>2, <1>3, <1>4, FrontApart
<1>6. ToSet(lru') \subseteq Entries
  BY <1>2, <1>3, <1>5
<1>7. reading'[r] = [at |-> "decode", block |-> b, slice |-> e.slice, own |-> FALSE, locked |-> TRUE]
      /\ \A q \in Reader \ {r} : reading'[q] = reading[q]
  BY <1>1 DEF CacheInv, CacheTypes
<1>8. e.slice \in Slice /\ e.slice \in Nat
  BY <1>2, BlockCacheAssumption DEF CacheEntry
<1>9. CacheTypes'
  <2>1. reading' \in [Reader -> ReaderState]
    <3>1. reading'[r] \in ReaderState
      BY <1>7, <1>8 DEF ReaderState
    <3> QED BY <1>1, <1>7, <3>1 DEF CacheInv, CacheTypes
  <2> QED BY <1>1, <1>5, <1>7, <1>8, <2>1 DEF CacheInv, CacheTypes, Busy
<1>10. SlicesOwned'
  <2>1. \A f \in Entries' : f \in Entries
    BY <1>6 DEF Entries
  <2>2. \A q \in Reader : Owner(q)' => q # r /\ Owner(q)
    BY <1>7 DEF Owner, Busy
  <2>3. \A q \in Reader : Busy(q)' => reading'[q].slice \notin pooled
    BY <1>2, <1>7 DEF CacheInv, SlicesOwned, Busy
  <2>4. ASSUME NEW q \in Reader, Owner(q)'
        PROVE  /\ \A f \in Entries' : f.slice # reading'[q].slice
               /\ \A p \in Reader \ {q} : Busy(p)' => reading'[p].slice # reading'[q].slice
    <3>1. q # r /\ Owner(q) /\ reading'[q] = reading[q]
      BY <1>7, <2>2, <2>4
    <3>2. e.slice # reading[q].slice
      BY <1>2, <3>1 DEF CacheInv, SlicesOwned
    <3> QED BY <1>7, <2>1, <3>1, <3>2 DEF CacheInv, SlicesOwned, Busy
  <2> QED BY <1>1, <1>5, <2>1, <2>3, <2>4 DEF CacheInv, SlicesOwned
<1>11. RightBytes'
  BY <1>1, <1>2, <1>6, <1>7 DEF CacheInv, RightBytes, Entries
<1> QED BY <1>9, <1>10, <1>11 DEF CacheInv

LEMMA MissKeeps ==
    ASSUME SlicesNeverRunOut, CacheInv, NEW r \in Reader, NEW b \in Block,
           NEW useCache \in BOOLEAN, StartRead(r, b, useCache),
           ~(useCache /\ Capacity > 0 /\ Cached(b))
    PROVE  CacheInv'
<1>1. PICK s \in Gettable(b) :
         /\ reading' = [reading EXCEPT ![r] =
               [at |-> "fill", block |-> b, slice |-> s, own |-> TRUE, locked |-> useCache]]
         /\ pooled' = pooled \ {s}
         /\ UNCHANGED <<lru, bytes>>
         /\ ~Busy(r)
  BY DEF StartRead, Busy
<1>2. /\ s \in Slice /\ \A e \in Entries : e.slice # s
      /\ \A q \in Reader : Busy(q) => reading[q].slice # s
  BY GettableIsFree
<1>3. /\ reading'[r] =
            [at |-> "fill", block |-> b, slice |-> s, own |-> TRUE, locked |-> useCache]
      /\ \A q \in Reader \ {r} : reading'[q] = reading[q]
  BY <1>1 DEF CacheInv, CacheTypes
<1>4. CacheTypes'
  <2>1. reading' \in [Reader -> ReaderState]
    <3>1. reading'[r] \in ReaderState
      BY <1>2, <1>3, BlockCacheAssumption DEF ReaderState
    <3> QED BY <1>1, <1>3, <3>1 DEF CacheInv, CacheTypes
  <2>2. IsFiniteSet(pooled')
    BY <1>1, FS_Subset DEF CacheInv, CacheTypes
  <2> QED BY <1>1, <1>2, <1>3, <2>1, <2>2 DEF CacheInv, CacheTypes, Busy
<1>5. SlicesOwned'
  <2>1. Entries' = Entries
    BY <1>1 DEF Entries
  <2>2. ASSUME NEW q \in Reader, Owner(q)'
        PROVE  /\ \A f \in Entries' : f.slice # reading'[q].slice
               /\ \A p \in Reader \ {q} : Busy(p)' => reading'[p].slice # reading'[q].slice
    <3>1. CASE q = r
      BY <1>2, <1>3, <2>1, <3>1 DEF Busy
    <3>2. CASE q # r
      BY <1>2, <1>3, <2>1, <2>2, <3>2 DEF CacheInv, SlicesOwned, Owner, Busy
    <3> QED BY <3>1, <3>2
  <2>3. \A q \in Reader : Busy(q)' => reading'[q].slice \notin pooled'
    BY <1>1, <1>3 DEF CacheInv, SlicesOwned, Busy
  <2> QED BY <1>1, <2>1, <2>2, <2>3 DEF CacheInv, SlicesOwned
<1>6. RightBytes'
  BY <1>1, <1>3 DEF CacheInv, RightBytes, Entries
<1> QED BY <1>4, <1>5, <1>6 DEF CacheInv

(* A reader is done with its slice, which goes back to the pool if the     *)
(* reader owns it and the pool has slices of its size.                     *)
LEMMA ReleaseKeeps ==
    ASSUME CacheInv, NEW r \in Reader, Busy(r), reading' = [reading EXCEPT ![r] = NotReading],
           pooled' = pooled \cup Returned(r), lru' = lru, bytes' = Wiped(bytes)
    PROVE  CacheInv'
<1>1. reading'[r] = NotReading /\ \A q \in Reader \ {r} : reading'[q] = reading[q]
  BY DEF CacheInv, CacheTypes
<1>2. /\ Returned(r) \subseteq {reading[r].slice}
      /\ Returned(r) # {} => Owner(r)
  BY DEF Returned, Owner
<1>3. /\ DOMAIN bytes' = Slice
      /\ \A e \in Entries : e.slice \in Slice => bytes'[e.slice] = bytes[e.slice]
      /\ \A q \in Reader : reading'[q].slice \in Slice =>
            bytes'[reading'[q].slice] = bytes[reading'[q].slice]
  BY WipedKeeps DEF CacheInv, CacheTypes, Entries
<1>4. CacheTypes'
  <2>1. reading' \in [Reader -> ReaderState]
    <3>1. NotReading \in ReaderState
      BY DEF NotReading, ReaderState
    <3> QED BY <3>1 DEF CacheInv, CacheTypes
  <2>2. pooled' \in SUBSET Slice /\ IsFiniteSet(pooled')
    <3>1. reading[r].slice \in Slice
      BY DEF CacheInv, CacheTypes
    <3>2. IsFiniteSet(Returned(r))
      <4>1. IsFiniteSet({reading[r].slice})
        BY FS_Singleton
      <4> QED BY <1>2, <4>1, FS_Subset
    <3>3. IsFiniteSet(pooled \cup Returned(r))
      BY <3>2, FS_Union DEF CacheInv, CacheTypes
    <3> QED BY <1>2, <3>1, <3>3 DEF CacheInv, CacheTypes
  <2> QED BY <1>1, <1>3, <2>1, <2>2 DEF CacheInv, CacheTypes, NotReading, Busy
<1>5. SlicesOwned'
  <2>1. Entries' = Entries
    BY DEF Entries
  <2>2. \A q \in Reader : Busy(q)' => q # r /\ Busy(q) /\ reading'[q] = reading[q]
    BY <1>1 DEF Busy, NotReading
  <2>3. \A e \in Entries : e.slice \notin pooled'
    BY <1>2 DEF CacheInv, SlicesOwned
  <2>4. \A q \in Reader : Busy(q)' => reading'[q].slice \notin pooled'
    BY <1>2, <2>2 DEF CacheInv, SlicesOwned
  <2>5. \A q \in Reader : Owner(q)' =>
          /\ \A e \in Entries : e.slice # reading'[q].slice
          /\ \A p \in Reader \ {q} : Busy(p)' => reading'[p].slice # reading'[q].slice
    BY <2>2 DEF CacheInv, SlicesOwned, Owner
  <2> QED BY <2>1, <2>3, <2>4, <2>5 DEF CacheInv, SlicesOwned
<1>6. RightBytes'
  <2>1. \A e \in Entries : e.slice \in Slice
    BY EntryTypes DEF CacheInv
  <2>2. \A e \in Entries' : bytes'[e.slice] = e.block
    BY <1>3, <2>1 DEF CacheInv, RightBytes, Entries
  <2>3. ASSUME NEW q \in Reader, reading'[q].at \in {"keep", "decode"}
        PROVE  bytes'[reading'[q].slice] = reading'[q].block
    <3>1. q # r /\ reading'[q] = reading[q]
      BY <1>1, <2>3 DEF NotReading
    <3>2. reading[q].slice \in Slice
      BY <2>3, <3>1 DEF CacheInv, CacheTypes, Busy
    <3> QED BY <1>3, <2>3, <3>1, <3>2 DEF CacheInv, RightBytes
  <2> QED BY <2>2, <2>3 DEF RightBytes
<1> QED BY <1>4, <1>5, <1>6 DEF CacheInv

LEMMA FillKeeps ==
    ASSUME CacheInv, NEW r \in Reader, Fill(r)
    PROVE  CacheInv'
<1>1. CASE /\ bytes' = [bytes EXCEPT ![reading[r].slice] = reading[r].block]
           /\ reading' = [reading EXCEPT ![r].at =
                             IF reading[r].locked THEN "keep" ELSE "decode"]
           /\ UNCHANGED <<lru, pooled>>
           /\ reading[r].at = "fill"
  <2> DEFINE s == reading[r].slice
  <2>1. /\ Owner(r) /\ s \in Slice /\ reading[r].block \in Block
        /\ reading \in [Reader -> ReaderState]
    BY <1>1 DEF CacheInv, CacheTypes, Owner, Busy
  <2>2. /\ reading'[r].at = IF reading[r].locked THEN "keep" ELSE "decode"
        /\ reading'[r].slice = s /\ reading'[r].block = reading[r].block
        /\ reading'[r].own = reading[r].own /\ reading'[r].locked = reading[r].locked
        /\ \A q \in Reader \ {r} : reading'[q] = reading[q]
    BY <1>1, <2>1 DEF ReaderState
  <2>3. bytes'[s] = reading[r].block /\ \A t \in Slice \ {s} : bytes'[t] = bytes[t]
    BY <1>1, <2>1 DEF CacheInv, CacheTypes
  <2>4. reading' \in [Reader -> ReaderState]
    <3>1. [reading[r] EXCEPT !.at = IF reading[r].locked THEN "keep" ELSE "decode"] \in ReaderState
      BY <2>1 DEF ReaderState
    <3> QED BY <1>1, <2>1, <3>1
  <2> HIDE DEF s
  <2>5. CacheTypes'
    BY <1>1, <2>1, <2>2, <2>4 DEF CacheInv, CacheTypes, Busy, s
  <2>6. \A q \in Reader : /\ Busy(q)' <=> Busy(q)
                          /\ Owner(q)' <=> Owner(q)
                          /\ reading'[q].slice = reading[q].slice
    BY <2>1, <2>2 DEF Busy, Owner, s
  <2>7. SlicesOwned'
    BY <1>1, <2>6 DEF CacheInv, SlicesOwned, Entries
  <2>8. RightBytes'
    <3>1. \A e \in Entries' : bytes'[e.slice] = e.block
      <4>1. \A e \in Entries : e.slice # s /\ e.slice \in Slice
        BY <2>1, EntryTypes DEF CacheInv, SlicesOwned, s
      <4> QED BY <1>1, <2>3, <4>1 DEF CacheInv, RightBytes, Entries
    <3>2. ASSUME NEW q \in Reader, reading'[q].at \in {"keep", "decode"}
          PROVE  bytes'[reading'[q].slice] = reading'[q].block
      <4>1. CASE q = r
        BY <2>2, <2>3, <4>1
      <4>2. CASE q # r
        <5>1. reading'[q] = reading[q] /\ Busy(q)
          BY <2>2, <3>2, <4>2 DEF Busy
        <5>2. reading[q].slice # s /\ reading[q].slice \in Slice
          BY <2>1, <4>2, <5>1 DEF CacheInv, SlicesOwned, CacheTypes, s
        <5> QED BY <2>3, <3>2, <5>1, <5>2 DEF CacheInv, RightBytes
      <4> QED BY <4>1, <4>2
    <3> QED BY <3>1, <3>2 DEF RightBytes
  <2> QED BY <2>5, <2>7, <2>8 DEF CacheInv
<1>2. CASE /\ pooled' = pooled \cup Returned(r)
           /\ reading' = [reading EXCEPT ![r] = NotReading]
           /\ bytes' = Wiped(bytes)
           /\ UNCHANGED lru
           /\ reading[r].at = "fill"
  BY <1>2, ReleaseKeeps DEF Busy
<1> QED BY <1>1, <1>2 DEF Fill


LEMMA KeepKeeps ==
    ASSUME SlicesNeverRunOut, CacheInv, NEW r \in Reader, Keep(r)
    PROVE  CacheInv'
<1> DEFINE b == reading[r].block
           s == IF Cached(b) THEN EntryOf(b).slice ELSE CopyOf(r)
           new == [block |-> b, slice |-> s]
           rest == Without(b)
<1>1. /\ reading[r].at = "keep" /\ Owner(r) /\ b \in Block
      /\ reading \in [Reader -> ReaderState]
      /\ bytes[reading[r].slice] = b
  BY DEF Keep, CacheInv, CacheTypes, RightBytes, Owner, Busy
<1>2. /\ reading' = [reading EXCEPT ![r].at = "decode"]
      /\ UNCHANGED pooled
      /\ IF Capacity <= 0 \/ BlockBytes(b) > Capacity
         THEN UNCHANGED <<lru, bytes>>
         ELSE /\ lru' = Kept(<<new>> \o rest)
              /\ bytes' = Wiped([bytes EXCEPT ![s] = bytes[reading[r].slice]])
  BY DEF Keep
<1>3. /\ reading'[r].at = "decode"
      /\ reading'[r].slice = reading[r].slice /\ reading'[r].block = reading[r].block
      /\ reading'[r].own = reading[r].own /\ reading'[r].locked = reading[r].locked
      /\ \A q \in Reader \ {r} : reading'[q] = reading[q]
  BY <1>1, <1>2 DEF ReaderState
<1>4. reading' \in [Reader -> ReaderState]
  <2>1. [reading[r] EXCEPT !.at = "decode"] \in ReaderState
    BY <1>1 DEF ReaderState
  <2> QED BY <1>1, <1>2, <2>1
<1>5. \A q \in Reader : /\ Busy(q)' <=> Busy(q)
                        /\ Owner(q)' <=> Owner(q)
                        /\ reading'[q].slice = reading[q].slice
                        /\ reading'[q].block = reading[q].block
  BY <1>1, <1>3 DEF Busy, Owner
<1>6. \A q \in Reader : reading'[q].at \in {"keep", "decode"} => reading[q].at \in {"keep", "decode"}
  BY <1>1, <1>3
<1>7. CASE Capacity <= 0 \/ BlockBytes(b) > Capacity
  <2>1. UNCHANGED <<lru, bytes, pooled>> /\ Entries' = Entries
    BY <1>2, <1>7 DEF Entries
  <2>2. CacheTypes'
    BY <1>3, <1>4, <1>5, <2>1 DEF CacheInv, CacheTypes
  <2>3. SlicesOwned'
    BY <1>5, <2>1 DEF CacheInv, SlicesOwned
  <2>4. RightBytes'
    BY <1>5, <1>6, <2>1 DEF CacheInv, RightBytes
  <2> QED BY <2>2, <2>3, <2>4 DEF CacheInv
<1>8. CASE ~(Capacity <= 0 \/ BlockBytes(b) > Capacity)
  <2>1. /\ s \in Slice /\ s \notin pooled
        /\ \A q \in Reader : Owner(q) => reading[q].slice # s
        /\ \A q \in Reader : reading[q].at \in {"keep", "decode"} /\ reading[q].slice = s =>
              reading[q].block = b
        /\ \A e \in Entries : e.block # b => e.slice # s
    <3>1. CASE Cached(b)
      <4> DEFINE c == EntryOf(b)
      <4>1. c \in Entries /\ c.block = b /\ s = c.slice
        BY <1>1, <3>1, EntryOfCached DEF CacheInv
      <4> HIDE DEF c, s, b
      <4>2. s \in Slice
        BY <4>1, EntryTypes DEF CacheInv
      <4>3. \A e \in Entries : e.block # b => e.slice # s
        BY <4>1, EntriesApart DEF CacheInv, SlicesOwned
      <4> QED BY <4>1, <4>2, <4>3 DEF CacheInv, SlicesOwned, RightBytes
    <3>2. CASE ~Cached(b)
      <4>1. s = Fresh
        BY <3>2 DEF CopyOf
      <4> HIDE DEF s
      <4> QED BY <4>1, FreshIsFree DEF CacheInv
    <3> QED BY <3>1, <3>2
  <2>2. /\ rest \in Seq(CacheEntry) /\ Apart(rest)
        /\ \A e \in ToSet(rest) : e \in Entries /\ e.block # b
    BY WithoutIsRest DEF CacheInv, SlicesOwned
  <2>0. Capacity > 0 /\ lru' = Kept(<<new>> \o rest)
    BY <1>2, <1>8, BlockCacheAssumption
  <2> HIDE DEF s, rest
  <2>3. /\ new \in CacheEntry /\ new.block = b /\ new.slice = s
    BY <1>1, <2>1 DEF CacheEntry
  <2> HIDE DEF new
  <2>4. \A i \in DOMAIN rest : rest[i].slice # new.slice /\ rest[i].block # new.block
    BY <2>1, <2>2, <2>3, InSet
  <2>5. /\ <<new>> \o rest \in Seq(CacheEntry) /\ Apart(<<new>> \o rest)
        /\ ToSet(<<new>> \o rest) = {new} \cup ToSet(rest)
    BY <2>2, <2>3, <2>4, FrontApart
  <2>6. PICK n \in 0..Len(<<new>> \o rest) : lru' = SubSeq(<<new>> \o rest, 1, n)
    BY <2>0, <2>5, KeptIsPrefix
  <2>7. lru' \in Seq(CacheEntry) /\ Apart(lru') /\ ToSet(lru') \subseteq {new} \cup ToSet(rest)
    <3>1. ToSet(lru') \subseteq ToSet(<<new>> \o rest) /\ lru' \in Seq(CacheEntry) /\ Apart(lru')
      BY <2>5, <2>6, PrefixApart
    <3> QED BY <2>5, <3>1
  <2>8. \A e \in Entries' : e = new \/ (e \in Entries /\ e.block # b)
    BY <2>2, <2>7 DEF Entries
  <2> DEFINE copied == [bytes EXCEPT ![s] = bytes[reading[r].slice]]
  <2>9. /\ DOMAIN copied = Slice
        /\ copied[s] = b
        /\ \A t \in Slice \ {s} : copied[t] = bytes[t]
    BY <1>1, <2>1 DEF CacheInv, CacheTypes
  <2>10. bytes' = Wiped(copied)
    BY <1>2, <1>8
  <2> HIDE DEF copied, b
  <2>11. /\ DOMAIN bytes' = Slice
         /\ \A e \in ToSet(lru') : e.slice \in Slice => bytes'[e.slice] = copied[e.slice]
         /\ \A q \in Reader : reading'[q].slice \in Slice =>
               bytes'[reading'[q].slice] = copied[reading'[q].slice]
    BY <2>9, <2>10, WipedKeeps
  <2>12. CacheTypes'
    BY <1>2, <1>3, <1>4, <1>5, <2>7, <2>11 DEF CacheInv, CacheTypes, b
  <2>13. SlicesOwned'
    <3>1. \A e \in Entries' : e.slice \notin pooled'
      BY <1>2, <2>1, <2>3, <2>8 DEF CacheInv, SlicesOwned
    <3>2. \A q \in Reader : Owner(q)' => \A e \in Entries' : e.slice # reading'[q].slice
      BY <1>5, <2>1, <2>3, <2>8 DEF CacheInv, SlicesOwned
    <3> QED BY <1>2, <1>5, <2>7, <3>1, <3>2 DEF CacheInv, SlicesOwned
  <2>14. RightBytes'
    <3>1. ASSUME NEW e \in Entries' PROVE bytes'[e.slice] = e.block
      <4>1. CASE e = new
        BY <2>1, <2>3, <2>9, <2>11, <3>1, <4>1 DEF Entries
      <4>2. CASE e \in Entries /\ e.block # b
        <5>1. e.slice \in Slice /\ e.slice # s
          BY <2>1, <4>2, EntryTypes DEF CacheInv
        <5>2. bytes'[e.slice] = bytes[e.slice]
          BY <2>9, <2>11, <3>1, <5>1 DEF Entries
        <5> QED BY <4>2, <5>2 DEF CacheInv, RightBytes
      <4> QED BY <2>8, <3>1, <4>1, <4>2
    <3>2. ASSUME NEW q \in Reader, reading'[q].at \in {"keep", "decode"}
          PROVE  bytes'[reading'[q].slice] = reading'[q].block
      <4>1. /\ reading[q].at \in {"keep", "decode"} /\ Busy(q)
            /\ reading'[q].slice = reading[q].slice /\ reading'[q].block = reading[q].block
        BY <1>5, <1>6, <3>2 DEF Busy
      <4>2. reading[q].slice \in Slice /\ bytes[reading[q].slice] = reading[q].block
        BY <4>1 DEF CacheInv, CacheTypes, RightBytes
      <4>3. bytes'[reading[q].slice] = copied[reading[q].slice]
        BY <2>11, <4>1, <4>2
      <4> QED BY <2>1, <2>9, <4>1, <4>2, <4>3
    <3> QED BY <3>1, <3>2 DEF RightBytes
  <2> QED BY <2>12, <2>13, <2>14 DEF CacheInv
<1> QED BY <1>7, <1>8

LEMMA ForgetKeeps ==
    ASSUME CacheInv, NEW f, Forget(f)
    PROVE  CacheInv'
<1> DEFINE I == {i \in DOMAIN lru : FileOf(lru[i].block) # f}
<1>1. /\ lru' = Pick(lru, I) /\ bytes' = Wiped(bytes) /\ UNCHANGED <<pooled, reading>>
  BY DEF Forget
<1>2. /\ lru' \in Seq(CacheEntry) /\ Apart(lru')
      /\ \A e \in ToSet(lru') : \E i \in I : e = lru[i]
  <2>1. lru \in Seq(CacheEntry) /\ Apart(lru) /\ I \in SUBSET DOMAIN lru
    BY DEF CacheInv, CacheTypes, SlicesOwned
  <2> HIDE DEF I
  <2> QED BY <1>1, <2>1, PickApart
<1>3. \A e \in Entries' : e \in Entries
  BY <1>2 DEF Entries, ToSet
<1>4. /\ DOMAIN bytes' = Slice
      /\ \A e \in ToSet(lru') : e.slice \in Slice => bytes'[e.slice] = bytes[e.slice]
      /\ \A q \in Reader : reading'[q].slice \in Slice =>
            bytes'[reading'[q].slice] = bytes[reading'[q].slice]
  BY <1>1, WipedKeeps DEF CacheInv, CacheTypes
<1> HIDE DEF I
<1>5. CacheTypes'
  BY <1>1, <1>2, <1>4 DEF CacheInv, CacheTypes, Busy
<1>6. SlicesOwned'
  BY <1>1, <1>2, <1>3 DEF CacheInv, SlicesOwned, Owner, Busy
<1>7. RightBytes'
  <2>1. \A e \in Entries : e.slice \in Slice
    BY EntryTypes DEF CacheInv
  <2>2. \A e \in Entries' : bytes'[e.slice] = e.block
    BY <1>3, <1>4, <2>1 DEF CacheInv, RightBytes, Entries
  <2>3. \A q \in Reader : reading[q].at \in {"keep", "decode"} =>
           bytes'[reading'[q].slice] = reading'[q].block
    BY <1>1, <1>4 DEF CacheInv, CacheTypes, RightBytes, Busy
  <2> QED BY <1>1, <2>2, <2>3 DEF RightBytes
<1> QED BY <1>5, <1>6, <1>7 DEF CacheInv

LEMMA CacheInvStep ==
    ASSUME SlicesNeverRunOut
    PROVE  CacheInv /\ [CacheNext]_cacheVars => CacheInv'
<1> SUFFICES ASSUME CacheInv, [CacheNext]_cacheVars PROVE CacheInv'
  OBVIOUS
<1>1. ASSUME NEW r \in Reader, NEW b \in Block, NEW useCache \in BOOLEAN, StartRead(r, b, useCache)
      PROVE  CacheInv'
  <2>1. CASE useCache /\ Capacity > 0 /\ Cached(b)
    <3>1. useCache = TRUE
      BY <2>1
    <3> QED BY <1>1, <2>1, <3>1, HitKeeps
  <2>2. CASE ~(useCache /\ Capacity > 0 /\ Cached(b))
    BY <1>1, <2>2, MissKeeps
  <2> QED BY <2>1, <2>2
<1>2. ASSUME NEW r \in Reader, Fill(r) PROVE CacheInv'
  BY <1>2, FillKeeps
<1>3. ASSUME NEW r \in Reader, Keep(r) PROVE CacheInv'
  BY <1>3, KeepKeeps
<1>4. ASSUME NEW r \in Reader, Decode(r) PROVE CacheInv'
  BY <1>4, ReleaseKeeps DEF Decode, Busy
<1>5. ASSUME NEW f, Forget(f) PROVE CacheInv'
  BY <1>5, ForgetKeeps
<1>6. CASE UNCHANGED <<lru, pooled, bytes, reading>>
  BY <1>6 DEF CacheInv, CacheTypes, SlicesOwned, RightBytes, Owner, Busy, Entries
<1>7. ASSUME NEW f, Retire(f) PROVE CacheInv'
  BY <1>6, <1>7 DEF Retire
<1>8. CASE UNCHANGED cacheVars
  BY <1>6, <1>8 DEF cacheVars
<1> QED BY <1>1, <1>2, <1>3, <1>4, <1>5, <1>7, <1>8 DEF CacheNext

LEMMA TablesHeldStep == CacheInv /\ ReadersHoldTables /\ [CacheNext]_cacheVars => ReadersHoldTables'
<1> SUFFICES ASSUME CacheInv, ReadersHoldTables, [CacheNext]_cacheVars PROVE ReadersHoldTables'
  OBVIOUS
<1> DEFINE Clean(l) == \A e \in ToSet(l) : FileOf(e.block) \notin forgotten
<1>1. Clean(lru)
  BY DEF ReadersHoldTables, ForgottenStaysOut, ToSet
<1>2. Clean(lru)' => ForgottenStaysOut'
  BY DEF ForgottenStaysOut, ToSet
<1>3. reading \in [Reader -> ReaderState] /\ CacheTypes /\ Apart(lru)
  BY DEF CacheInv, CacheTypes, SlicesOwned
<1>4. ASSUME NEW r \in Reader, NEW b \in Block, NEW useCache \in BOOLEAN, StartRead(r, b, useCache)
      PROVE  ReadersHoldTables'
  <2>1. UNCHANGED <<retired, forgotten>>
    BY <1>4 DEF StartRead
  <2>2. \A q \in Reader : Busy(q)' /\ reading'[q].locked => FileOf(reading'[q].block) \notin retired
    <3>1. /\ reading'[r].block = b /\ (reading'[r].locked => useCache)
          /\ \A q \in Reader \ {r} : reading'[q] = reading[q]
      BY <1>3, <1>4 DEF StartRead
    <3>2. useCache => FileOf(b) \notin retired
      BY <1>4 DEF StartRead
    <3> QED BY <3>1, <3>2 DEF ReadersHoldTables, Busy
  <2>3. Clean(lru)'
    <3>1. CASE lru' = lru
      BY <1>1, <2>1, <3>1
    <3>2. CASE Cached(b) /\ lru' = <<EntryOf(b)>> \o Without(b)
      <4>1. EntryOf(b) \in Entries /\ Without(b) \in Seq(CacheEntry)
            /\ \A e \in ToSet(Without(b)) : e \in Entries
        BY <1>3, <3>2, EntryOfCached, WithoutIsRest
      <4> HIDE DEF Clean
      <4>2. \A e \in ToSet(lru') : e \in Entries
        <5>1. \A i \in DOMAIN lru' : lru'[i] \in {EntryOf(b)} \cup ToSet(Without(b))
          <6>1. \A i \in DOMAIN Without(b) : Without(b)[i] \in ToSet(Without(b))
            BY DEF ToSet
          <6> QED BY <3>2, <4>1, <6>1
        <5> QED BY <4>1, <5>1 DEF ToSet
      <4> QED BY <1>1, <2>1, <4>2 DEF Clean, Entries
    <3> QED BY <1>4, <3>1, <3>2 DEF StartRead
  <2> QED BY <1>2, <2>1, <2>2, <2>3 DEF ReadersHoldTables
<1>5. ASSUME NEW r \in Reader, Fill(r) \/ Decode(r)
      PROVE  ReadersHoldTables'
  <2>1. UNCHANGED <<retired, forgotten, lru>>
    BY <1>5 DEF Fill, Decode
  <2>2. \A q \in Reader : Busy(q)' /\ reading'[q].locked =>
           Busy(q) /\ reading[q].locked /\ reading'[q].block = reading[q].block
    BY <1>3, <1>5 DEF Fill, Decode, Busy, NotReading, ReaderState
  <2> QED BY <2>1, <2>2 DEF ReadersHoldTables, ForgottenStaysOut
<1>6. ASSUME NEW r \in Reader, Keep(r)
      PROVE  ReadersHoldTables'
  <2> DEFINE b == reading[r].block
  <2>1. UNCHANGED <<retired, forgotten>>
    BY <1>6 DEF Keep
  <2>2. \A q \in Reader : Busy(q)' /\ reading'[q].locked =>
           Busy(q) /\ reading[q].locked /\ reading'[q].block = reading[q].block
    BY <1>3, <1>6 DEF Keep, Busy, ReaderState
  <2>3. FileOf(b) \notin forgotten /\ b \in Block
    BY <1>3, <1>6 DEF Keep, CacheTypes, Busy, ReadersHoldTables
  <2>4. Clean(lru)'
    <3>1. CASE lru' = lru
      BY <1>1, <2>1, <3>1
    <3>2. ASSUME NEW s, lru' = Kept(<<[block |-> b, slice |-> s]>> \o Without(b)), Capacity > 0
          PROVE  Clean(lru)'
      <4> DEFINE new == [block |-> b, slice |-> s]
                 l == <<new>> \o Without(b)
      <4>1. new.block = b
        OBVIOUS
      <4>2. Without(b) \in Seq(CacheEntry) /\ \A e \in ToSet(Without(b)) : e \in Entries
        BY <1>3, WithoutIsRest
      <4> HIDE DEF new, b
      <4>3. /\ l \in Seq(CacheEntry \cup {new})
            /\ \A i \in DOMAIN l : l[i] \in {new} \cup ToSet(Without(b))
        <5>1. \A i \in DOMAIN Without(b) : Without(b)[i] \in ToSet(Without(b))
          BY DEF ToSet
        <5> QED BY <4>1, <4>2, <5>1
      <4> HIDE DEF l
      <4>4. PICK n \in 0..Len(l) : lru' = SubSeq(l, 1, n)
        BY <3>2, <4>3, KeptIsPrefix DEF l, new
      <4>5. \A i \in DOMAIN lru' : i \in DOMAIN l /\ lru'[i] = l[i]
        BY <4>3, <4>4
      <4>6. \A e \in ToSet(lru') : e = new \/ e \in Entries
        BY <4>2, <4>3, <4>5 DEF ToSet
      <4> QED BY <1>1, <2>1, <2>3, <4>1, <4>6 DEF Entries
    <3>3. lru' = lru \/ \E s : lru' = Kept(<<[block |-> b, slice |-> s]>> \o Without(b)) /\ Capacity > 0
      <4> DEFINE slice == IF Cached(b) THEN EntryOf(b).slice ELSE CopyOf(r)
                 small == ~(Capacity <= 0 \/ BlockBytes(b) > Capacity)
      <4>1. small => lru' = Kept(<<[block |-> b, slice |-> slice]>> \o Without(b))
        BY <1>6 DEF Keep
      <4>2. ~small => lru' = lru
        BY <1>6 DEF Keep
      <4>3. small => Capacity > 0
        BY BlockCacheAssumption
      <4> HIDE DEF slice, small
      <4> QED BY <4>1, <4>2, <4>3
    <3> QED BY <3>1, <3>2, <3>3
  <2> QED BY <1>2, <2>1, <2>2, <2>4 DEF ReadersHoldTables
<1>7. ASSUME NEW f \in Tables, Retire(f)
      PROVE  ReadersHoldTables'
  BY <1>7 DEF Retire, MayRetire, ReadersHoldTables, ForgottenStaysOut, Busy
<1>8. ASSUME NEW f \in Tables, Forget(f)
      PROVE  ReadersHoldTables'
  <2> DEFINE I == {i \in DOMAIN lru : FileOf(lru[i].block) # f}
  <2>1. /\ lru' = Pick(lru, I) /\ forgotten' = forgotten \cup {f} /\ f \in retired
        /\ UNCHANGED <<reading, retired>>
    BY <1>8 DEF Forget
  <2>2. lru \in Seq(CacheEntry) /\ Apart(lru) /\ I \in SUBSET DOMAIN lru
    BY <1>3 DEF CacheTypes
  <2>3. \A e \in ToSet(lru') : \E i \in I : e = lru[i]
    <3> HIDE DEF I
    <3> QED BY <2>1, <2>2, PickApart
  <2>4. Clean(lru)'
    BY <1>1, <2>1, <2>3 DEF ToSet
  <2> QED BY <1>2, <2>1, <2>4 DEF ReadersHoldTables, Busy
<1>9. CASE UNCHANGED cacheVars
  BY <1>9 DEF cacheVars, ReadersHoldTables, ForgottenStaysOut, Busy
<1> QED BY <1>4, <1>5, <1>6, <1>7, <1>8, <1>9 DEF CacheNext

(* A reader decodes the block it asked for, whatever the cache and the     *)
(* pool do with slices meanwhile (readDataBlock, BlockCache.put).          *)
THEOREM ReadersSeeTheirBlock ==
    ASSUME SlicesNeverRunOut
    PROVE  CacheSpec => []ReadsOwnBlock
<1>1. CacheInv => ReadsOwnBlock
  BY DEF CacheInv, RightBytes, ReadsOwnBlock
<1> QED BY CacheInvInit, CacheInvStep, <1>1, PTL DEF CacheSpec

(* Once removeFile has been through, no block of the table is cached again.*)
THEOREM ForgottenForGood ==
    ASSUME SlicesNeverRunOut
    PROVE  CacheSpec => []ForgottenStaysOut
<1>1. ReadersHoldTables => ForgottenStaysOut
  BY DEF ReadersHoldTables
<1> QED BY CacheInvInit, CacheInvStep, TablesHeldStep, <1>1, PTL DEF CacheSpec

-----------------------------------------------------------------------------
(* The bytes the cache counts.                                             *)

(* The bytes an entry stands for.                                          *)
EntryBytes == [e \in CacheEntry |-> BlockBytes(e.block)]

LEMMA EntryBytesAre ==
    ASSUME NEW e \in CacheEntry
    PROVE  EntryBytes[e] = BlockBytes(e.block) /\ EntryBytes[e] \in Nat
BY BlockCacheAssumption DEF EntryBytes, CacheEntry

(* Counted in any order.                                                   *)
LEMMA BytesOfEntries ==
    ASSUME NEW l \in Seq(CacheEntry), Apart(l)
    PROVE  /\ BytesOf(l) = SumFunctionOnSet(EntryBytes, ToSet(l))
           /\ IsFiniteSet(ToSet(l))
<1> DEFINE D == DOMAIN l
           sizes == [i \in D |-> BlockBytes(l[i].block)]
<1>1. D = 1..Len(l) /\ Len(l) \in Nat /\ \A i \in D : l[i] \in CacheEntry
  OBVIOUS
<1>2. IsFiniteSet(D)
  BY <1>1, FS_Interval
<1>3. ToSet(l) = {l[i] : i \in D}
  BY DEF ToSet
<1>4. BytesOf(l) = SumFunctionOnSet(sizes, D)
  BY Zenon DEF BytesOf, SumFunction
<1>5. \A i \in D : sizes[i] \in Nat /\ sizes[i] = EntryBytes[l[i]]
  BY <1>1, EntryBytesAre
<1>6. \A i, j \in D : l[i] = l[j] => i = j
  BY DEF Apart
<1>7. IsFiniteSet(ToSet(l))
  <2>1. [i \in D |-> l[i]] \in Surjection(D, ToSet(l))
    BY <1>3 DEF Surjection
  <2> QED BY <1>2, <2>1, FS_Surjection
<1> HIDE DEF D, sizes
<1>8. SumFunctionOnSet(sizes, D) = SumFunctionOnSet(EntryBytes, {l[i] : i \in D})
  BY <1>2, <1>5, <1>6, SumRenumbered
<1> QED BY <1>3, <1>4, <1>7, <1>8

(* A list whose entries are all in another one.                            *)
LEMMA FewerBytes ==
    ASSUME NEW l \in Seq(CacheEntry), Apart(l), NEW m \in Seq(CacheEntry), Apart(m),
           ToSet(m) \subseteq ToSet(l)
    PROVE  BytesOf(m) <= BytesOf(l) /\ BytesOf(m) \in Nat /\ BytesOf(l) \in Nat
<1>1. /\ BytesOf(l) = SumFunctionOnSet(EntryBytes, ToSet(l)) /\ IsFiniteSet(ToSet(l))
      /\ BytesOf(m) = SumFunctionOnSet(EntryBytes, ToSet(m)) /\ IsFiniteSet(ToSet(m))
  BY BytesOfEntries
<1>2. \A e \in ToSet(l) : EntryBytes[e] \in Nat
  BY InSet, EntryBytesAre
<1>3. \A e \in ToSet(m) : EntryBytes[e] \in Nat
  BY <1>2
<1> QED BY <1>1, <1>2, <1>3, SumGrows, SumType

LEMMA WithoutAll ==
    ASSUME CacheTypes, NEW b, NEW e \in Entries, e.block # b
    PROVE  e \in ToSet(Without(b))
<1> DEFINE I == {i \in DOMAIN lru : lru[i].block # b}
           p == Pick(lru, I)
<1>1. lru \in Seq(CacheEntry) /\ I \in SUBSET DOMAIN lru
  BY DEF CacheTypes
<1>2. /\ \A n \in DOMAIN p : p[n] = lru[Nth(I, n - 1)]
      /\ \A i \in I : \E n \in DOMAIN p : Nth(I, n - 1) = i
  <2> HIDE DEF I
  <2> QED BY <1>1, PickOf
<1>3. PICK i \in I : lru[i] = e
  BY DEF Entries, ToSet
<1>4. PICK n \in DOMAIN p : p[n] = e
  <2> HIDE DEF p, I
  <2> QED BY <1>2, <1>3
<1> QED BY <1>4 DEF Without, ToSet

LEMMA AccountsInit == CacheInit => CacheAccounts
<1> SUFFICES ASSUME CacheInit PROVE CacheAccounts
  OBVIOUS
<1>1. lru = <<>> /\ used = 0 /\ lru \in Seq(CacheEntry) /\ DOMAIN lru = {}
  BY DEF CacheInit
<1>2. Apart(lru) /\ ToSet(lru) = {}
  BY <1>1 DEF Apart, ToSet
<1>3. BytesOf(lru) = 0
  BY <1>1, <1>2, BytesOfEntries, SumOfNone
<1> QED BY <1>1, <1>3, BlockCacheAssumption DEF CacheAccounts

(* A hit moves an entry to the front.                                      *)
LEMMA HitCounts ==
    ASSUME CacheInv, CacheInv', CacheAccounts, NEW r \in Reader, NEW b \in Block,
           StartRead(r, b, TRUE), Capacity > 0, Cached(b)
    PROVE  used' = BytesOf(lru')
<1> DEFINE e == EntryOf(b)
<1>1. lru' = <<e>> \o Without(b) /\ used' = used
  BY DEF StartRead
<1>2. e \in Entries /\ e.block = b /\ e \in CacheEntry
  <2>1. e \in Entries /\ e.block = b
    BY EntryOfCached DEF CacheInv
  <2> QED BY <2>1, InSet DEF CacheInv, CacheTypes, Entries
<1> HIDE DEF e
<1>3. /\ Without(b) \in Seq(CacheEntry) /\ Apart(Without(b))
      /\ \A f \in ToSet(Without(b)) : f \in Entries /\ f.block # b
  BY WithoutIsRest DEF CacheInv, SlicesOwned
<1>4. \A i \in DOMAIN Without(b) : Without(b)[i].slice # e.slice /\ Without(b)[i].block # e.block
  <2> SUFFICES ASSUME NEW i \in DOMAIN Without(b)
               PROVE  Without(b)[i].slice # e.slice /\ Without(b)[i].block # e.block
    OBVIOUS
  <2>1. Without(b)[i] \in Entries /\ Without(b)[i].block # b
    BY <1>3, InSet
  <2> QED BY <1>2, <2>1, EntriesApart DEF CacheInv, SlicesOwned
<1>5. lru' \in Seq(CacheEntry) /\ Apart(lru') /\ ToSet(lru') = {e} \cup ToSet(Without(b))
  BY <1>1, <1>2, <1>3, <1>4, FrontApart
<1>6. \A f \in Entries : f = e \/ f \in ToSet(Without(b))
  <2> SUFFICES ASSUME NEW f \in Entries PROVE f = e \/ f \in ToSet(Without(b))
    OBVIOUS
  <2>1. CASE f.block = b
    BY <1>2, <2>1, EntriesApart DEF CacheInv, SlicesOwned
  <2>2. CASE f.block # b
    BY <2>2, WithoutAll DEF CacheInv
  <2> QED BY <2>1, <2>2
<1>7. ToSet(lru') = ToSet(lru)
  BY <1>2, <1>3, <1>5, <1>6 DEF Entries
<1>8. lru \in Seq(CacheEntry) /\ Apart(lru)
  BY DEF CacheInv, CacheTypes, SlicesOwned
<1>9. /\ BytesOf(lru) = SumFunctionOnSet(EntryBytes, ToSet(lru))
      /\ BytesOf(lru') = SumFunctionOnSet(EntryBytes, ToSet(lru'))
  BY <1>5, <1>8, BytesOfEntries
<1> QED BY <1>1, <1>7, <1>9 DEF CacheAccounts

(* A put counts what it leaves, and leaves what fits.                      *)
LEMMA PutCounts ==
    ASSUME CacheInv, NEW r \in Reader, Keep(r),
           ~(Capacity <= 0 \/ BlockBytes(reading[r].block) > Capacity)
    PROVE  used' = BytesOf(lru') /\ used' <= Capacity
<1> DEFINE b == reading[r].block
           s == IF Cached(b) THEN EntryOf(b).slice ELSE CopyOf(r)
           new == [block |-> b, slice |-> s]
           items == <<new>> \o Without(b)
<1>1. lru' = Kept(items) /\ used' = BytesOf(Kept(items)) /\ Capacity > 0
  BY BlockCacheAssumption DEF Keep, UsedAfter
<1>2. Without(b) \in Seq(CacheEntry)
  BY WithoutIsRest DEF CacheInv, SlicesOwned
<1> HIDE DEF new, b
<1>3. items \in Seq({new} \cup CacheEntry)
  BY <1>2
<1> HIDE DEF items
<1>4. PICK n \in 0..Len(items) : /\ Kept(items) = SubSeq(items, 1, n)
                                 /\ BytesOf(SubSeq(items, 1, n)) <= Capacity
  BY <1>1, <1>3, KeptIsPrefix
<1> QED BY <1>1, <1>4

(* removeFile counts what is left.                                         *)
LEMMA ForgetCounts ==
    ASSUME CacheInv, CacheAccounts, NEW f, Forget(f)
    PROVE  used' = BytesOf(lru') /\ used' <= used
<1> DEFINE I == {i \in DOMAIN lru : FileOf(lru[i].block) # f}
<1>1. lru' = Pick(lru, I) /\ used' = BytesOf(lru')
  BY DEF Forget
<1>2. lru \in Seq(CacheEntry) /\ Apart(lru) /\ I \in SUBSET DOMAIN lru
  BY DEF CacheInv, CacheTypes, SlicesOwned
<1> HIDE DEF I
<1>3. /\ lru' \in Seq(CacheEntry) /\ Apart(lru')
      /\ \A e \in ToSet(lru') : \E i \in I : e = lru[i]
  BY <1>1, <1>2, PickApart
<1>4. ToSet(lru') \subseteq ToSet(lru)
  BY <1>2, <1>3 DEF ToSet
<1>5. BytesOf(lru') <= BytesOf(lru)
  BY <1>2, <1>3, <1>4, FewerBytes
<1> QED BY <1>1, <1>5 DEF CacheAccounts

LEMMA AccountsStep ==
    ASSUME CacheInv, CacheInv', CacheAccounts, [CacheNext]_cacheVars
    PROVE  CacheAccounts'
<1> DEFINE Bound == IF Capacity > 0 THEN Capacity ELSE 0
<1>1. \A i, j \in DOMAIN lru' : lru'[i].block = lru'[j].block => i = j
  BY DEF CacheInv, SlicesOwned, Apart
<1>2. used \in Nat /\ Bound \in Nat /\ used <= Bound
  <2>1. lru \in Seq(CacheEntry) /\ Apart(lru)
    BY DEF CacheInv, CacheTypes, SlicesOwned
  <2>2. BytesOf(lru) \in Nat
    BY <2>1, FewerBytes
  <2> QED BY <2>2, BlockCacheAssumption DEF CacheAccounts
<1>3. CASE UNCHANGED <<lru, used>>
  <2>1. lru' = lru /\ used' = used
    BY <1>3
  <2> QED BY <2>1, Zenon DEF CacheAccounts
<1>4. ASSUME NEW r \in Reader, NEW b \in Block, NEW useCache \in BOOLEAN, StartRead(r, b, useCache)
      PROVE  CacheAccounts'
  <2>1. CASE useCache /\ Capacity > 0 /\ Cached(b)
    <3>1. StartRead(r, b, TRUE)
      <4>1. useCache = TRUE
        BY <2>1
      <4> QED BY <1>4, <4>1
    <3>2. used' = used /\ used' = BytesOf(lru')
      BY <2>1, <3>1, HitCounts DEF StartRead
    <3> QED BY <1>1, <1>2, <3>2 DEF CacheAccounts
  <2>2. CASE ~(useCache /\ Capacity > 0 /\ Cached(b))
    BY <1>3, <1>4, <2>2 DEF StartRead
  <2> QED BY <2>1, <2>2
<1>5. ASSUME NEW r \in Reader, Keep(r) PROVE CacheAccounts'
  <2>1. CASE Capacity <= 0 \/ BlockBytes(reading[r].block) > Capacity
    BY <1>3, <1>5, <2>1 DEF Keep
  <2>2. CASE ~(Capacity <= 0 \/ BlockBytes(reading[r].block) > Capacity)
    <3>1. used' = BytesOf(lru') /\ used' <= Capacity
      BY <1>5, <2>2, PutCounts
    <3>2. Bound = Capacity
      BY <2>2, BlockCacheAssumption
    <3> QED BY <1>1, <3>1, <3>2 DEF CacheAccounts
  <2> QED BY <2>1, <2>2
<1>6. ASSUME NEW f, Forget(f) PROVE CacheAccounts'
  <2>1. used' = BytesOf(lru') /\ used' <= used
    BY <1>6, ForgetCounts
  <2>2. lru' \in Seq(CacheEntry) /\ Apart(lru')
    BY DEF CacheInv, CacheTypes, SlicesOwned
  <2>3. BytesOf(lru') \in Nat
    BY <2>2, FewerBytes
  <2>4. used' <= Bound
    BY <1>2, <2>1, <2>3
  <2> QED BY <1>1, <2>1, <2>4 DEF CacheAccounts
<1>7. ASSUME NEW r \in Reader, Fill(r) \/ Decode(r) PROVE CacheAccounts'
  BY <1>3, <1>7 DEF Fill, Decode
<1>8. ASSUME NEW f, Retire(f) PROVE CacheAccounts'
  BY <1>3, <1>8 DEF Retire
<1>9. CASE UNCHANGED cacheVars
  BY <1>3, <1>9 DEF cacheVars
<1> QED BY <1>4, <1>5, <1>6, <1>7, <1>8, <1>9 DEF CacheNext

(* The cache counts the bytes it keeps, whatever is hit, put, evicted or   *)
(* removed, holds no block twice and stays within its capacity             *)
(* (BlockCache.get, put and removeFile).                                   *)
THEOREM CacheCountsItsBytes ==
    ASSUME SlicesNeverRunOut
    PROVE  CacheSpec => []CacheAccounts
<1>1. CacheInv /\ CacheInv' /\ CacheAccounts /\ [CacheNext]_cacheVars => CacheAccounts'
  BY AccountsStep
<1> QED BY CacheInvInit, CacheInvStep, AccountsInit, <1>1, PTL DEF CacheSpec

-----------------------------------------------------------------------------
(* LogQuery.                                                               *)

LogKind == {"live", "deleted"}
Records == UNION {[D -> LogKind] : D \in {E \in SUBSET Entry : IsFiniteSet(E)}}
LogTable == [records : Records, times : SUBSET Nat, filter : SUBSET Tokens]

QueryTypes ==
    /\ logTables \in Seq(LogTable)
    /\ recent \in Records
    /\ live \in SUBSET Entry

(* A table says of itself what its records are about.                      *)
Summarised(table) ==
    /\ table.times = {e.time : e \in DOMAIN table.records}
    /\ \A e \in DOMAIN table.records : TokensOf(e) \subseteq table.filter

(* What the store holds of an entry, the newest record of it.              *)
Told(e) ==
    IF e \in DOMAIN recent THEN recent[e]
    ELSE LET I == HoldingIn(DOMAIN logTables, e)
         IN IF I = {} THEN "deleted" ELSE logTables[Max(I)].records[e]

QueryInv ==
    /\ QueryTypes
    /\ \A i \in DOMAIN logTables : Summarised(logTables[i])
    /\ live = {e \in Entry : Told(e) = "live"}

-----------------------------------------------------------------------------
LEMMA RecordsAre ==
    ASSUME NEW r \in Records
    PROVE  /\ DOMAIN r \in SUBSET Entry /\ IsFiniteSet(DOMAIN r)
           /\ \A e \in DOMAIN r : r[e] \in LogKind
BY DEF Records

LEMMA AreRecords ==
    ASSUME NEW D \in SUBSET Entry, IsFiniteSet(D), NEW r \in [D -> LogKind]
    PROVE  r \in Records
BY DEF Records

LEMMA NewerIs ==
    ASSUME NEW r \in Records, NEW s \in Records
    PROVE  /\ Newer(r, s) \in Records
           /\ DOMAIN Newer(r, s) = DOMAIN r \cup DOMAIN s
           /\ \A e \in DOMAIN r : Newer(r, s)[e] = r[e]
           /\ \A e \in DOMAIN s \ DOMAIN r : Newer(r, s)[e] = s[e]
<1>1. /\ DOMAIN r \in SUBSET Entry /\ IsFiniteSet(DOMAIN r) /\ \A e \in DOMAIN r : r[e] \in LogKind
      /\ DOMAIN s \in SUBSET Entry /\ IsFiniteSet(DOMAIN s) /\ \A e \in DOMAIN s : s[e] \in LogKind
  BY RecordsAre
<1> DEFINE D == DOMAIN r \cup DOMAIN s
<1>2. IsFiniteSet(D) /\ D \in SUBSET Entry
  BY <1>1, FS_Union
<1>3. Newer(r, s) \in [D -> LogKind]
  BY <1>1 DEF Newer
<1>4. Newer(r, s) \in Records
  BY <1>2, <1>3, AreRecords
<1> QED BY <1>4 DEF Newer

LEMMA TimesAre ==
    ASSUME NEW r \in Records
    PROVE  {e.time : e \in DOMAIN r} \in Indices
<1> DEFINE T == {e.time : e \in DOMAIN r}
<1>1. DOMAIN r \in SUBSET Entry /\ IsFiniteSet(DOMAIN r)
  BY RecordsAre
<1>2. T \in SUBSET Nat
  BY <1>1, LogQueryAssumption
<1>3. [e \in DOMAIN r |-> e.time] \in Surjection(DOMAIN r, T)
  BY DEF Surjection
<1>4. IsFiniteSet(T)
  BY <1>1, <1>3, FS_Surjection
<1> QED BY <1>2, <1>4 DEF Indices

LEMMA TablesOfAre ==
    ASSUME NEW r \in Records, NEW table \in TablesOf(r)
    PROVE  table \in LogTable /\ table.records = r /\ Summarised(table)
<1> DEFINE found == UNION {TokensOf(e) : e \in DOMAIN r}
<1>1. PICK chance \in SUBSET Tokens :
        table = [records |-> r, times |-> {e.time : e \in DOMAIN r}, filter |-> found \cup chance]
  BY DEF TablesOf, Counted
<1>2. DOMAIN r \in SUBSET Entry
  BY RecordsAre
<1>3. \A e \in Entry : TokensOf(e) \subseteq Tokens
  BY LogQueryAssumption DEF TokensOf, Tokens
<1>4. found \cup chance \in SUBSET Tokens
  BY <1>2, <1>3
<1>5. {e.time : e \in DOMAIN r} \in SUBSET Nat
  BY TimesAre DEF Indices
<1>6. table \in LogTable
  BY <1>1, <1>4, <1>5 DEF LogTable
<1>7. \A e \in DOMAIN r : TokensOf(e) \subseteq found \cup chance
  OBVIOUS
<1> QED BY <1>1, <1>6, <1>7 DEF Summarised

LEMMA HoldingAre ==
    ASSUME QueryTypes, NEW I \in SUBSET (DOMAIN logTables), NEW e
    PROVE  /\ HoldingIn(I, e) \in Indices
           /\ HoldingIn(I, e) # {} =>
                 /\ Max(HoldingIn(I, e)) \in HoldingIn(I, e)
                 /\ \A i \in HoldingIn(I, e) : i <= Max(HoldingIn(I, e))
<1>1. DOMAIN logTables = 1..Len(logTables) /\ Len(logTables) \in Nat
  BY DEF QueryTypes
<1>2. DOMAIN logTables \in Indices
  BY <1>1, IntervalIndices
<1>3. HoldingIn(I, e) \in SUBSET (DOMAIN logTables)
  BY DEF HoldingIn
<1>4. HoldingIn(I, e) \in Indices
  BY <1>2, <1>3, SubsetIndices
<1> QED BY <1>4, MaxIsGreatest

LEMMA TableTypes ==
    ASSUME QueryTypes, NEW i \in DOMAIN logTables
    PROVE  logTables[i] \in LogTable /\ logTables[i].records \in Records
<1>1. logTables[i] \in LogTable
  BY DEF QueryTypes
<1> QED BY <1>1 DEF LogTable

LEMMA OverlayIs ==
    ASSUME QueryTypes, NEW I \in SUBSET (DOMAIN logTables)
    PROVE  /\ Overlay(I) \in Records
           /\ \A e : e \in DOMAIN Overlay(I) <=> HoldingIn(I, e) # {}
           /\ \A e \in DOMAIN Overlay(I) :
                 Overlay(I)[e] = logTables[Max(HoldingIn(I, e))].records[e]
<1> DEFINE D == UNION {DOMAIN logTables[i].records : i \in I}
<1>1. \A e : e \in D <=> HoldingIn(I, e) # {}
  BY DEF HoldingIn
<1>2. DOMAIN Overlay(I) = D
  BY DEF Overlay
<1>3. \A e \in D : Overlay(I)[e] = logTables[Max(HoldingIn(I, e))].records[e]
  BY DEF Overlay
<1>4. IsFiniteSet(D) /\ D \in SUBSET Entry
  <2> DEFINE U == {DOMAIN logTables[i].records : i \in I}
  <2>1. \A i \in I : DOMAIN logTables[i].records \in SUBSET Entry
                     /\ IsFiniteSet(DOMAIN logTables[i].records)
    BY TableTypes, RecordsAre
  <2>2. IsFiniteSet(I)
    <3>1. DOMAIN logTables = 1..Len(logTables) /\ Len(logTables) \in Nat
      BY DEF QueryTypes
    <3>2. IsFiniteSet(DOMAIN logTables)
      BY <3>1, FS_Interval
    <3> QED BY <3>2, FS_Subset
  <2>3. [i \in I |-> DOMAIN logTables[i].records] \in Surjection(I, U)
    BY DEF Surjection
  <2>4. IsFiniteSet(U)
    BY <2>2, <2>3, FS_Surjection
  <2>5. \A T \in U : IsFiniteSet(T)
    BY <2>1
  <2>6. IsFiniteSet(UNION U)
    <3> HIDE DEF U
    <3> QED BY <2>4, <2>5, FS_UNION
  <2> QED BY <2>1, <2>6
<1>5. \A e \in D : logTables[Max(HoldingIn(I, e))].records[e] \in LogKind
  <2> SUFFICES ASSUME NEW e \in D PROVE logTables[Max(HoldingIn(I, e))].records[e] \in LogKind
    OBVIOUS
  <2>1. Max(HoldingIn(I, e)) \in HoldingIn(I, e)
    BY <1>1, HoldingAre
  <2>2. PICK m : m = Max(HoldingIn(I, e))
    OBVIOUS
  <2>3. m \in DOMAIN logTables /\ e \in DOMAIN logTables[m].records
    BY <2>1, <2>2 DEF HoldingIn
  <2> QED BY <2>2, <2>3, TableTypes, RecordsAre
<1>6. Overlay(I) \in [D -> LogKind]
  BY <1>5 DEF Overlay
<1>7. Overlay(I) \in Records
  BY <1>4, <1>6, AreRecords
<1> QED BY <1>1, <1>2, <1>3, <1>7

-----------------------------------------------------------------------------
LEMMA QueryInvInit == LogInit => QueryInv
<1> SUFFICES ASSUME LogInit PROVE QueryInv
  OBVIOUS
<1>1. logTables = <<>> /\ recent = <<>> /\ live = {}
  BY DEF LogInit
<1>2. recent \in Records
  <2>1. <<>> \in [{} -> LogKind]
    OBVIOUS
  <2> QED BY <1>1, <2>1, FS_EmptySet, AreRecords
<1>3. QueryTypes
  BY <1>1, <1>2 DEF QueryTypes
<1>4. DOMAIN logTables = {} /\ DOMAIN recent = {}
  BY <1>1
<1>5. \A e : Told(e) = "deleted"
  BY <1>4 DEF Told, HoldingIn
<1> QED BY <1>1, <1>3, <1>4, <1>5 DEF QueryInv

(* A record of an entry, live or deleted.                                  *)
LEMMA RecordKeeps ==
    ASSUME QueryInv, NEW e \in Entry, NEW kind \in LogKind,
           recent' = Newer([x \in {e} |-> kind], recent), logTables' = logTables,
           live' = IF kind = "live" THEN live \cup {e} ELSE live \ {e}
    PROVE  QueryInv'
<1> DEFINE r == [x \in {e} |-> kind]
<1>1. r \in Records /\ DOMAIN r = {e} /\ r[e] = kind
  <2>1. r \in [{e} -> LogKind]
    OBVIOUS
  <2>2. IsFiniteSet({e}) /\ {e} \in SUBSET Entry
    BY FS_Singleton
  <2> QED BY <2>1, <2>2, AreRecords
<1> HIDE DEF r
<1>2. recent \in Records
  BY DEF QueryInv, QueryTypes
<1>3. /\ recent' \in Records /\ DOMAIN recent' = {e} \cup DOMAIN recent
      /\ recent'[e] = kind
      /\ \A f \in DOMAIN recent \ {e} : recent'[f] = recent[f]
  BY <1>1, <1>2, NewerIs DEF r
<1>4. live' \in SUBSET Entry
  BY DEF QueryInv, QueryTypes
<1>5. QueryTypes'
  BY <1>3, <1>4 DEF QueryInv, QueryTypes
<1>6. Told(e)' = kind
  BY <1>3 DEF Told
<1>7. ASSUME NEW f \in Entry, f # e PROVE Told(f)' = Told(f)
  BY <1>3, <1>7 DEF Told, HoldingIn
<1>8. live' = {f \in Entry : Told(f)' = "live"}
  <2>1. \A f \in Entry : f \in live <=> Told(f) = "live"
    BY DEF QueryInv
  <2>2. \A f \in Entry : f \in live' <=> Told(f)' = "live"
    <3> SUFFICES ASSUME NEW f \in Entry PROVE f \in live' <=> Told(f)' = "live"
      OBVIOUS
    <3>1. CASE f = e
      BY <1>6, <3>1 DEF LogKind
    <3>2. CASE f # e
      <4>1. Told(f)' = Told(f)
        BY <1>7, <3>2
      <4> QED BY <2>1, <3>2, <4>1
    <3> QED BY <3>1, <3>2
  <2> QED BY <1>4, <2>2
<1> QED BY <1>5, <1>8 DEF QueryInv

LEMMA FlushLogsKeeps ==
    ASSUME QueryInv, FlushLogs
    PROVE  QueryInv'
<1>1. PICK table \in TablesOf(recent) : logTables' = Append(logTables, table)
  BY DEF FlushLogs
<1>2. recent' = <<>> /\ live' = live
  BY DEF FlushLogs
<1>3. table \in LogTable /\ table.records = recent /\ Summarised(table)
  BY <1>1, TablesOfAre DEF QueryInv, QueryTypes
<1> DEFINE n == Len(logTables) + 1
<1>4. /\ logTables \in Seq(LogTable) /\ n \in Nat \ {0}
      /\ DOMAIN logTables = 1..(n - 1)
  BY DEF QueryInv, QueryTypes
<1>5. /\ logTables' \in Seq(LogTable) /\ DOMAIN logTables' = 1..n
      /\ logTables'[n] = table
      /\ \A i \in 1..(n - 1) : logTables'[i] = logTables[i]
  BY <1>1, <1>3, <1>4
<1> HIDE DEF n
<1>6. DOMAIN logTables' = DOMAIN logTables \cup {n} /\ n \notin DOMAIN logTables
      /\ \A i \in DOMAIN logTables : logTables'[i] = logTables[i] /\ i < n
  BY <1>4, <1>5
<1>7. DOMAIN recent' = {} /\ recent' \in Records
  <2>1. <<>> \in [{} -> LogKind]
    OBVIOUS
  <2> QED BY <1>2, <2>1, FS_EmptySet, AreRecords
<1>8. QueryTypes'
  BY <1>2, <1>5, <1>7 DEF QueryInv, QueryTypes
<1>9. \A i \in DOMAIN logTables' : Summarised(logTables'[i])
  BY <1>3, <1>5, <1>6 DEF QueryInv
<1>10. ASSUME NEW e \in Entry PROVE Told(e)' = Told(e)
  <2> DEFINE I == HoldingIn(DOMAIN logTables, e)
             J == {i \in DOMAIN logTables' : e \in DOMAIN logTables'[i].records}
  <2>1. Told(e)' = IF J = {} THEN "deleted" ELSE logTables'[Max(J)].records[e]
    BY <1>7 DEF Told, HoldingIn
  <2>2. J = I \cup (IF e \in DOMAIN recent THEN {n} ELSE {})
    BY <1>3, <1>5, <1>6 DEF HoldingIn
  <2>3. CASE e \in DOMAIN recent
    <3>1. n \in J /\ \A i \in J : i <= n
      BY <1>4, <1>6, <2>2, <2>3 DEF HoldingIn
    <3>2. J \in Indices
      <4>1. J \in SUBSET (1..n)
        BY <1>5
      <4>2. 1..n \in Indices
        BY <1>4, IntervalIndices
      <4> QED BY <4>1, <4>2, SubsetIndices
    <3> HIDE DEF J
    <3>3. Max(J) \in J /\ Max(J) \in Nat /\ \A i \in J : i <= Max(J)
      BY <3>1, <3>2, MaxIsGreatest
    <3>4. Max(J) = n
      BY <1>4, <3>1, <3>3
    <3> QED BY <1>3, <1>5, <2>1, <2>3, <3>1, <3>4 DEF Told
  <2>4. CASE e \notin DOMAIN recent
    <3>1. J = I
      BY <2>2, <2>4
    <3>2. I # {} => Max(I) \in DOMAIN logTables
      <4>1. I # {} => Max(I) \in I
        BY HoldingAre DEF QueryInv
      <4> QED BY <4>1 DEF HoldingIn
    <3> HIDE DEF J, I
    <3>3. Told(e) = IF I = {} THEN "deleted" ELSE logTables[Max(I)].records[e]
      BY <2>4 DEF Told, I
    <3> QED BY <1>6, <2>1, <3>1, <3>2, <3>3
  <2> QED BY <2>3, <2>4
<1>11. live' = {e \in Entry : Told(e)' = "live"}
  BY <1>2, <1>10 DEF QueryInv
<1> QED BY <1>8, <1>9, <1>11 DEF QueryInv

(* What no table says needs no tombstone.                                  *)
LEMMA CompactLogsKeeps ==
    ASSUME QueryInv, CompactLogs
    PROVE  QueryInv'
<1> DEFINE all == Overlay(DOMAIN logTables)
           kept == {e \in DOMAIN all : all[e] = "live"}
           r == [e \in kept |-> "live"]
<1>1. recent' = recent /\ live' = live
  BY DEF CompactLogs
<1>2. \/ kept = {} /\ logTables' = <<>>
      \/ kept # {} /\ \E table \in TablesOf(r) : logTables' = <<table>>
  BY DEF CompactLogs
<1>3. /\ all \in Records
      /\ \A e : e \in DOMAIN all <=> HoldingIn(DOMAIN logTables, e) # {}
      /\ \A e \in DOMAIN all :
            all[e] = logTables[Max(HoldingIn(DOMAIN logTables, e))].records[e]
  BY OverlayIs DEF QueryInv
<1>4. r \in Records /\ DOMAIN r = kept /\ \A e \in kept : r[e] = "live"
  <2>1. kept \in SUBSET Entry /\ IsFiniteSet(kept)
    <3> HIDE DEF all
    <3>1. DOMAIN all \in SUBSET Entry /\ IsFiniteSet(DOMAIN all)
      BY <1>3, RecordsAre
    <3> QED BY <3>1, FS_Subset
  <2> HIDE DEF kept
  <2>2. r \in [kept -> LogKind]
    BY DEF LogKind
  <2> QED BY <2>1, <2>2, AreRecords
<1>5. ASSUME NEW e
      PROVE  Told(e) = "live" <=> IF e \in DOMAIN recent THEN recent[e] = "live" ELSE e \in kept
  <2> HIDE DEF all
  <2> QED BY <1>3 DEF Told
<1> HIDE DEF all, kept, r
<1>6. /\ logTables' \in Seq(LogTable) /\ \A i \in DOMAIN logTables' : Summarised(logTables'[i])
      /\ \A e : Told(e)' = "live" <=>
                   IF e \in DOMAIN recent THEN recent[e] = "live" ELSE e \in kept
  <2>1. CASE kept = {} /\ logTables' = <<>>
    <3>1. DOMAIN logTables' = {} /\ logTables' \in Seq(LogTable)
      BY <2>1
    <3>2. \A e : HoldingIn(DOMAIN logTables, e)' = {}
      BY <3>1 DEF HoldingIn
    <3> QED BY <1>1, <2>1, <3>1, <3>2 DEF Told
  <2>2. ASSUME kept # {}, NEW table \in TablesOf(r), logTables' = <<table>>
        PROVE  /\ logTables' \in Seq(LogTable)
               /\ \A i \in DOMAIN logTables' : Summarised(logTables'[i])
               /\ \A e : Told(e)' = "live" <=>
                            IF e \in DOMAIN recent THEN recent[e] = "live" ELSE e \in kept
    <3>1. table \in LogTable /\ table.records = r /\ Summarised(table)
      BY <1>4, TablesOfAre
    <3>2. logTables' \in Seq(LogTable) /\ DOMAIN logTables' = {1} /\ logTables'[1] = table
      BY <2>2, <3>1
    <3>3. \A e : HoldingIn(DOMAIN logTables, e)' = IF e \in kept THEN {1} ELSE {}
      BY <1>4, <3>1, <3>2 DEF HoldingIn
    <3>4. Max({1}) = 1
      <4>1. {1} \in Indices
        <5>1. {1} = 1..1
          OBVIOUS
        <5>2. 1..1 \in Indices
          BY IntervalIndices
        <5> QED BY <5>1, <5>2
      <4> QED BY <4>1, MaxIsGreatest
    <3>5. \A e : Told(e)' = "live" <=>
                   IF e \in DOMAIN recent THEN recent[e] = "live" ELSE e \in kept
      BY <1>1, <1>4, <3>1, <3>2, <3>3, <3>4 DEF Told
    <3> QED BY <3>1, <3>2, <3>5
  <2> QED BY <1>2, <2>1, <2>2
<1>7. \A e : Told(e)' = "live" <=> Told(e) = "live"
  BY <1>5, <1>6
<1> QED BY <1>1, <1>6, <1>7 DEF QueryInv, QueryTypes

LEMMA QueryInvStep == QueryInv /\ [LogNext]_logVars => QueryInv'
<1> SUFFICES ASSUME QueryInv, [LogNext]_logVars PROVE QueryInv'
  OBVIOUS
<1>1. ASSUME NEW e \in Entry, WriteLog(e) PROVE QueryInv'
  <2>1. "live" \in LogKind
    BY DEF LogKind
  <2> QED BY <1>1, <2>1, RecordKeeps DEF WriteLog
<1>2. ASSUME NEW e \in Entry, DeleteLog(e) PROVE QueryInv'
  <2>1. "deleted" \in LogKind
    BY DEF LogKind
  <2> QED BY <1>2, <2>1, RecordKeeps DEF DeleteLog
<1>3. CASE FlushLogs
  BY <1>3, FlushLogsKeeps
<1>4. CASE CompactLogs
  BY <1>4, CompactLogsKeeps
<1>5. CASE UNCHANGED logVars
  BY <1>5 DEF logVars, QueryInv, QueryTypes, Summarised, Told, HoldingIn
<1> QED BY <1>1, <1>2, <1>3, <1>4, <1>5 DEF LogNext

-----------------------------------------------------------------------------
(* A table that holds a record of a log that the query asks for is looked  *)
(* at.                                                                     *)
LEMMA HolderIsRead ==
    ASSUME QueryInv, NEW i \in DOMAIN logTables, NEW e \in DOMAIN logTables[i].records,
           NEW start \in Nat, NEW end \in Nat, start <= e.time, e.time <= end,
           NEW expected, Subset(expected, e.labels)
    PROVE  /\ OverlapsTimeRange(logTables[i], start, end)
           /\ MayContainLabels(logTables[i], expected)
<1> DEFINE times == logTables[i].times
<1>1. /\ logTables[i].records \in Records
      /\ times = {f.time : f \in DOMAIN logTables[i].records}
      /\ TokensOf(e) \subseteq logTables[i].filter
  BY TableTypes DEF QueryInv, Summarised
<1>2. times \in Indices /\ e.time \in times
  BY <1>1, TimesAre
<1> HIDE DEF times
<1>3. /\ Max(times) \in Nat /\ e.time <= Max(times)
      /\ Min(times) \in times /\ Min(times) <= e.time
  BY <1>2, MaxIsGreatest, MinIsLeast
<1>4. Min(times) \in Nat /\ e.time \in Nat
  BY <1>2, <1>3 DEF Indices
<1>5. Max(times) >= start /\ Min(times) <= end
  BY <1>3, <1>4
<1>6. OverlapsTimeRange(logTables[i], start, end)
  BY <1>5 DEF OverlapsTimeRange, times
<1>7. MayContainLabels(logTables[i], expected)
  BY <1>1 DEF Subset, MayContainLabels, TokensOf
<1> QED BY <1>6, <1>7

LEMMA QueriesAreExact == QueryInv => QueryExact
<1> SUFFICES ASSUME QueryInv,
                    NEW expected \in Expectations(LogValue \ {""}),
                    NEW start \in Time, NEW end \in Time, start <= end
             PROVE  Query(start, end, expected)
                      = {e \in live : /\ start <= e.time /\ e.time <= end
                                      /\ Subset(expected, e.labels)}
  BY DEF QueryExact, Exact
<1> DEFINE tables == {i \in DOMAIN logTables :
                        /\ OverlapsTimeRange(logTables[i], start, end)
                        /\ MayContainLabels(logTables[i], expected)}
           latest == Newer(recent, Overlay(tables))
<1>1. start \in Nat /\ end \in Nat
  BY LogQueryAssumption DEF Time
<1>2. \A n \in DOMAIN expected : expected[n] # ""
  BY DEF Expectations
<1>3. \A e \in Entry : labelsMatch(e.labels, expected) <=> Subset(expected, e.labels)
  BY <1>2 DEF labelsMatch, Subset, Actual
<1>4. tables \in SUBSET (DOMAIN logTables)
  OBVIOUS
<1>5. ASSUME NEW e \in Entry, start <= e.time, e.time <= end, Subset(expected, e.labels)
      PROVE  HoldingIn(tables, e) = HoldingIn(DOMAIN logTables, e)
  <2>1. ASSUME NEW i \in DOMAIN logTables, e \in DOMAIN logTables[i].records
        PROVE  i \in tables
    BY <1>1, <1>5, <2>1, HolderIsRead
  <2> QED BY <2>1 DEF HoldingIn
<1> HIDE DEF tables
<1>6. /\ Overlay(tables) \in Records
      /\ \A e : e \in DOMAIN Overlay(tables) <=> HoldingIn(tables, e) # {}
      /\ \A e \in DOMAIN Overlay(tables) :
            Overlay(tables)[e] = logTables[Max(HoldingIn(tables, e))].records[e]
  BY <1>4, OverlayIs DEF QueryInv
<1>7. recent \in Records
  BY DEF QueryInv, QueryTypes
<1>8. /\ latest \in Records
      /\ DOMAIN latest = DOMAIN recent \cup DOMAIN Overlay(tables)
      /\ \A e \in DOMAIN recent : latest[e] = recent[e]
      /\ \A e \in DOMAIN Overlay(tables) \ DOMAIN recent : latest[e] = Overlay(tables)[e]
  BY <1>6, <1>7, NewerIs
<1>9. Query(start, end, expected)
        = {e \in DOMAIN latest : /\ latest[e] = "live"
                                 /\ start <= e.time /\ e.time <= end
                                 /\ labelsMatch(e.labels, expected)}
  BY DEF Query, tables
<1> HIDE DEF latest
<1>10. DOMAIN latest \in SUBSET Entry
  BY <1>8, RecordsAre
<1>11. ASSUME NEW e \in Entry, start <= e.time, e.time <= end, Subset(expected, e.labels)
       PROVE  e \in DOMAIN latest /\ latest[e] = "live" <=> e \in live
  <2>1. HoldingIn(tables, e) = HoldingIn(DOMAIN logTables, e)
    BY <1>5, <1>11
  <2>2. e \in live <=> Told(e) = "live"
    BY DEF QueryInv
  <2>3. CASE e \in DOMAIN recent
    BY <1>8, <2>2, <2>3 DEF Told
  <2>4. CASE e \notin DOMAIN recent
    BY <1>6, <1>8, <2>1, <2>2, <2>4 DEF Told
  <2> QED BY <2>3, <2>4
<1>12. live \in SUBSET Entry
  BY DEF QueryInv, QueryTypes
<1> QED BY <1>3, <1>9, <1>10, <1>11, <1>12

(* A query whose labels all have a value answers exactly the live logs of  *)
(* its range that have them: no table it leaves out has anything to say,   *)
(* be it a log or its deletion (StoreManger.Query, buildSSTableMeta).      *)
THEOREM QueryFindsItsLogs == LogSpec => []QueryExact
BY QueryInvInit, QueryInvStep, QueriesAreExact, PTL DEF LogSpec

-----------------------------------------------------------------------------
(* BloomFilter.                                                            *)

(* The index of the i-th bit of an item in a filter f, or in a file.       *)
IndexIn(f, item, i) ==
    ((hashes[item][1] + i * hashes[item][2] + i * i) % Wrap) % f.m

(* The bits of the items are set.                                          *)
Holds(f, items) ==
    \A item \in items : \A i \in 0 .. f.k - 1 :
        Offset(IndexIn(f, item, i)) \in f.bits[Word(IndexIn(f, item, i))]

(* The words are enough for the bits.                                      *)
EnoughWords(f) ==
    /\ f.m \in Number \ {0}
    /\ f.k \in Nat
    /\ f.bits \in Seq(SUBSET Nat)
    /\ f.m <= WordBits * Len(f.bits)

FilterInv ==
    /\ hashes \in [FilterItem -> HashPair]
    /\ added \in SUBSET FilterItem /\ binary.of \in SUBSET FilterItem
    /\ filter = [m |-> filter.m, k |-> filter.k, bits |-> filter.bits]
    /\ EnoughWords(filter) /\ Holds(filter, added)
    /\ Holds(binary, binary.of)
    /\ binary.m \in Number /\ binary.k \in Nat /\ binary.bits \in Seq(SUBSET Nat)

(* A word holds the bit, if the words are enough.                          *)
LEMMA BitHasWord ==
    ASSUME NEW m \in Nat, NEW words \in Nat, m <= WordBits * words, NEW p \in 0 .. m - 1
    PROVE  Word(p) \in 1 .. words
<1>1. WordBits \in Nat \ {0} /\ p \in Nat
  BY BloomFilterAssumption
<1>2. /\ p \div WordBits \in Nat /\ p % WordBits \in 0 .. WordBits - 1
      /\ p = WordBits * (p \div WordBits) + (p % WordBits)
  BY <1>1, Division
<1> DEFINE w == p \div WordBits
<1>3. w \in Nat /\ WordBits * w < WordBits * words
  BY <1>1, <1>2
<1> HIDE DEF w
<1>4. w < words
  <2> SUFFICES ASSUME w >= words PROVE FALSE
    BY <1>3
  <2>1. WordBits * w >= WordBits * words
    BY <1>1, <1>3
  <2> QED BY <1>1, <1>3, <2>1
<1> QED BY <1>3, <1>4 DEF Word, w

(* The number of words UnmarshalBinary asks for is enough, or zero because *)
(* the sum has wrapped.                                                    *)
LEMMA WordsForEnough ==
    ASSUME NEW m \in Number, WordsFor(m) # 0
    PROVE  WordsFor(m) \in Nat /\ m <= WordBits * WordsFor(m)
<1> DEFINE s == m + WordBits - 1
<1>1. WordBits \in Nat \ {0} /\ Wrap \in Nat \ {0} /\ WordBits < Wrap
      /\ m \in Nat /\ m < Wrap /\ s \in Nat
  <2>1. WordBits \in Nat \ {0} /\ Wrap \in Nat \ {0} /\ MaxWords \in Nat \ {0}
        /\ (MaxWords + 1) * WordBits <= Wrap
    BY BloomFilterAssumption
  <2>2. (MaxWords + 1) * WordBits = MaxWords * WordBits + WordBits
    BY <2>1
  <2>3. MaxWords * WordBits >= WordBits
    BY <2>1
  <2> QED BY <2>1, <2>2, <2>3 DEF Number
<1>2. /\ (s % Wrap) \in 0 .. Wrap - 1
      /\ s = Wrap * (s \div Wrap) + (s % Wrap) /\ s \div Wrap \in Nat
  <2> HIDE DEF s
  <2> QED BY <1>1, Division
<1>3. CASE s < Wrap
  <2>1. s % Wrap = s
    <3> HIDE DEF s
    <3>1. s \div Wrap = 0
      <4> SUFFICES ASSUME s \div Wrap >= 1 PROVE FALSE
        BY <1>2
      <4>1. Wrap * (s \div Wrap) >= Wrap
        BY <1>1, <1>2
      <4> QED BY <1>1, <1>2, <1>3, <4>1
    <3> QED BY <1>1, <1>2, <3>1
  <2>2. WordsFor(m) = s \div WordBits
    BY <2>1 DEF WordsFor
  <2>3. /\ s \div WordBits \in Nat /\ s % WordBits \in 0 .. WordBits - 1
        /\ s = WordBits * (s \div WordBits) + (s % WordBits)
    <3> HIDE DEF s
    <3> QED BY <1>1, Division
  <2> QED BY <1>1, <2>2, <2>3
<1>4. CASE s >= Wrap
  <2>1. s % Wrap < WordBits
    <3>1. s < Wrap + WordBits
      BY <1>1
    <3>2. s \div Wrap >= 1
      <4> SUFFICES ASSUME s \div Wrap = 0 PROVE FALSE
        BY <1>2
      <4> HIDE DEF s
      <4> QED BY <1>1, <1>2, <1>4
    <3>3. Wrap * (s \div Wrap) >= Wrap
      <4> HIDE DEF s
      <4> QED BY <1>1, <1>2, <3>2
    <3> HIDE DEF s
    <3> QED BY <1>1, <1>2, <3>1, <3>3
  <2> DEFINE t == s % Wrap
             q == t \div WordBits
  <2>2. t \in Nat /\ t < WordBits
    BY <1>2, <2>1
  <2> HIDE DEF t
  <2>3. q \in Nat /\ t = WordBits * q + (t % WordBits) /\ t % WordBits \in 0 .. WordBits - 1
    BY <1>1, <2>2, Division
  <2> HIDE DEF q
  <2>4. q = 0
    <3> SUFFICES ASSUME q >= 1 PROVE FALSE
      BY <2>3
    <3>1. WordBits * q >= WordBits
      BY <1>1, <2>3
    <3> QED BY <1>1, <2>2, <2>3, <3>1
  <2>5. WordsFor(m) = q
    BY DEF WordsFor, q, t
  <2> QED BY <2>4, <2>5
<1> QED BY <1>1, <1>3, <1>4

(* An index is below the size.                                             *)
LEMMA IndexBelow ==
    ASSUME hashes \in [FilterItem -> HashPair], NEW f, f.m \in Number \ {0},
           NEW item \in FilterItem, NEW i \in Nat
    PROVE  IndexIn(f, item, i) \in 0 .. f.m - 1
<1>1. hashes[item][1] \in Nat /\ hashes[item][2] \in Nat /\ Wrap \in Nat \ {0}
  BY BloomFilterAssumption DEF Number
<1> DEFINE h == hashes[item][1] + i * hashes[item][2] + i * i
<1>2. h \in Nat
  BY <1>1
<1> HIDE DEF h
<1>3. h % Wrap \in Nat
  BY <1>1, <1>2, Division
<1>4. f.m \in Nat \ {0}
  BY DEF Number
<1>5. (h % Wrap) % f.m \in 0 .. f.m - 1
  BY <1>3, <1>4, Division
<1> QED BY <1>5 DEF IndexIn, h

LEMMA IndexIsIn ==
    ASSUME NEW item, NEW i
    PROVE  Index(item, i) = IndexIn(filter, item, i)
BY DEF Index, IndexIn

LEMMA FilterInvInit == FilterInit => FilterInv
<1> SUFFICES ASSUME FilterInit PROVE FilterInv
  OBVIOUS
<1>1. PICK bitSize \in 1 .. MaxWords * WordBits, k \in 1 .. MaxHashes :
        filter = [m |-> WordsFor(bitSize) * WordBits, k |-> k,
                  bits |-> [w \in 1 .. WordsFor(bitSize) |-> {}]]
  BY DEF FilterInit
<1>2. /\ MaxWords \in Nat \ {0} /\ WordBits \in Nat \ {0} /\ MaxHashes \in Nat \ {0}
      /\ Wrap \in Nat \ {0} /\ (MaxWords + 1) * WordBits <= Wrap
  BY BloomFilterAssumption
<1> DEFINE top == MaxWords * WordBits
           s == bitSize + WordBits - 1
           n == WordsFor(bitSize)
<1>3. top \in Nat /\ top + WordBits <= Wrap
  <2>1. (MaxWords + 1) * WordBits = top + WordBits
    BY <1>2
  <2> QED BY <1>2, <2>1
<1>4. bitSize \in Nat \ {0} /\ bitSize <= top
  BY <1>3
<1>5. s \in Nat /\ s >= WordBits /\ s < Wrap
  <2> HIDE DEF top
  <2> QED BY <1>2, <1>3, <1>4
<1>6. s % Wrap = s
  <2> HIDE DEF s
  <2> QED BY <1>2, <1>5
<1>7. n = s \div WordBits
  BY <1>6 DEF WordsFor
<1>8. n \in Nat /\ n # 0 /\ WordBits * n <= s
  <2> HIDE DEF s
  <2>1. /\ n \in Nat /\ s % WordBits \in 0 .. WordBits - 1
        /\ s = WordBits * n + (s % WordBits)
    <3>1. /\ s \div WordBits \in Nat /\ s % WordBits \in 0 .. WordBits - 1
          /\ s = WordBits * (s \div WordBits) + (s % WordBits)
      BY <1>2, <1>5, Division
    <3> HIDE DEF n
    <3> QED BY <1>7, <3>1
  <2>2. CASE n = 0
    <3>1. WordBits * n = 0
      BY <1>2, <2>2
    <3> QED BY <1>2, <1>5, <2>1, <3>1
  <2> HIDE DEF n
  <2>3. WordBits * n \in Nat
    BY <1>2, <2>1
  <2>4. WordBits * n <= s
    BY <1>2, <1>5, <2>1, <2>3
  <2> QED BY <2>1, <2>2, <2>4
<1> HIDE DEF n, s
<1>9. /\ n * WordBits = WordBits * n /\ WordBits * n \in Nat /\ WordBits * n >= n
      /\ WordBits * n < Wrap
  <2>1. n * WordBits = WordBits * n /\ WordBits * n \in Nat /\ WordBits * n >= n
    BY <1>2, <1>8
  <2> QED BY <1>2, <1>5, <1>8, <2>1
<1>10. filter.m \in Number \ {0} /\ filter.m = WordBits * n
  BY <1>1, <1>2, <1>8, <1>9 DEF Number, n
<1>11. filter.bits = [w \in 1 .. n |-> {}] /\ filter.k = k
  BY <1>1 DEF n
<1>12. filter.bits \in Seq(SUBSET Nat) /\ Len(filter.bits) = n
  BY <1>8, <1>11
<1>13. EnoughWords(filter)
  BY <1>2, <1>8, <1>10, <1>11, <1>12 DEF EnoughWords
<1>14. /\ binary.of = {} /\ binary.m = 0 /\ binary.k = 0 /\ binary.bits = <<>>
       /\ added = {} /\ hashes \in [FilterItem -> HashPair]
  BY DEF FilterInit, NoBinary
<1>15. binary.m \in Number /\ binary.k \in Nat /\ binary.bits \in Seq(SUBSET Nat)
  BY <1>2, <1>14 DEF Number
<1>16. Holds(filter, added) /\ Holds(binary, binary.of)
  BY <1>14 DEF Holds
<1>17. added \in SUBSET FilterItem /\ binary.of \in SUBSET FilterItem
  BY <1>14
<1> QED BY <1>1, <1>11, <1>13, <1>14, <1>15, <1>16, <1>17 DEF FilterInv

(* The words after AddItem are as many, and each holds what it held.       *)
LEMMA AddItemKeeps ==
    ASSUME FilterInv, NEW item \in FilterItem, AddItem(item)
    PROVE  FilterInv'
<1> DEFINE more(w) == {Offset(p) : p \in {q \in Marked(item) : Word(q) = w}}
           bits2 == [w \in DOMAIN filter.bits |-> filter.bits[w] \cup more(w)]
<1>1. /\ filter' = [filter EXCEPT !.bits = bits2]
      /\ added' = added \cup {item} /\ hashes' = hashes /\ binary' = binary
  BY DEF AddItem
<1>2. /\ filter.bits \in Seq(SUBSET Nat) /\ filter.m \in Number \ {0} /\ filter.k \in Nat
      /\ filter.m <= WordBits * Len(filter.bits)
      /\ hashes \in [FilterItem -> HashPair] /\ added \in SUBSET FilterItem
  BY DEF FilterInv, EnoughWords
<1>3. /\ filter'.bits = bits2 /\ filter'.m = filter.m /\ filter'.k = filter.k
  <2>1. "m" # "bits" /\ "k" # "bits"
    OBVIOUS
  <2>2. filter = [m |-> filter.m, k |-> filter.k, bits |-> filter.bits]
    BY DEF FilterInv
  <2> HIDE DEF bits2
  <2> QED BY <1>1, <2>1, <2>2
<1>4. \A i \in Nat : IndexIn(filter, item, i) \in 0 .. filter.m - 1
  BY <1>2, IndexBelow
<1>5. \A w \in DOMAIN filter.bits : more(w) \subseteq Nat
  <2> SUFFICES ASSUME NEW i \in 0 .. filter.k - 1
               PROVE  Offset(Index(item, i)) \in Nat
    BY DEF Marked, Places
  <2>1. i \in Nat /\ filter.m \in Nat
    BY <1>2 DEF Number
  <2>2. IndexIn(filter, item, i) \in Nat
    BY <1>4, <2>1
  <2>3. Index(item, i) \in Nat /\ WordBits \in Nat \ {0}
    BY <2>2, IndexIsIn, BloomFilterAssumption
  <2> QED BY <2>3, Division DEF Offset
<1>6. DOMAIN filter.bits = 1 .. Len(filter.bits) /\ Len(filter.bits) \in Nat
  BY <1>2
<1>7. \A w \in DOMAIN filter.bits : filter.bits[w] \subseteq Nat
  BY <1>2
<1>8. bits2 \in Seq(SUBSET Nat) /\ Len(bits2) = Len(filter.bits)
  <2> HIDE DEF more
  <2>1. \A w \in DOMAIN filter.bits : filter.bits[w] \cup more(w) \in SUBSET Nat
    BY <1>5, <1>7
  <2> QED BY <1>6, <2>1
<1>9. EnoughWords(filter)'
  <2> HIDE DEF bits2
  <2> QED BY <1>2, <1>3, <1>8 DEF EnoughWords
<1>10. ASSUME NEW other \in added \cup {item}, NEW i \in 0 .. filter.k - 1
       PROVE  Offset(IndexIn(filter, other, i)) \in bits2[Word(IndexIn(filter, other, i))]
  <2> DEFINE p == IndexIn(filter, other, i)
  <2>1. other \in FilterItem /\ i \in Nat
    BY <1>2
  <2>2. p \in 0 .. filter.m - 1
    BY <1>2, <2>1, IndexBelow
  <2>3. Word(p) \in DOMAIN filter.bits
    <3> HIDE DEF p
    <3>1. filter.m \in Nat
      BY <1>2 DEF Number
    <3> QED BY <1>2, <1>6, <2>2, <3>1, BitHasWord
  <2>4. bits2[Word(p)] = filter.bits[Word(p)] \cup more(Word(p))
    BY <2>3
  <2>5. CASE other \in added
    BY <2>4, <2>5 DEF FilterInv, Holds
  <2>6. CASE other = item
    <3>1. p \in Marked(item)
      BY <2>6, IndexIsIn DEF Marked, Places
    <3>2. Offset(p) \in more(Word(p))
      BY <3>1
    <3> QED BY <2>4, <3>2
  <2> QED BY <2>5, <2>6
<1>11. Holds(filter, added)'
  <2> HIDE DEF bits2
  <2>1. \A other, i : IndexIn(filter, other, i)' = IndexIn(filter, other, i)
    BY <1>1, <1>3 DEF IndexIn
  <2> QED BY <1>1, <1>3, <1>10, <2>1 DEF Holds, IndexIn, Offset, Word
<1>12. Holds(binary, binary.of)'
  BY <1>1 DEF FilterInv, Holds, IndexIn
<1>13. filter' = [m |-> filter'.m, k |-> filter'.k, bits |-> filter'.bits]
  <2>1. filter = [m |-> filter.m, k |-> filter.k, bits |-> filter.bits]
    BY DEF FilterInv
  <2> HIDE DEF bits2
  <2> QED BY <1>1, <1>3, <2>1
<1> QED BY <1>1, <1>9, <1>11, <1>12, <1>13 DEF FilterInv

LEMMA ResetKeeps ==
    ASSUME FilterInv, ResetFilter
    PROVE  FilterInv'
<1> DEFINE bits2 == [w \in DOMAIN filter.bits |-> {}]
<1>1. /\ filter' = [filter EXCEPT !.bits = bits2]
      /\ added' = {} /\ hashes' = hashes /\ binary' = binary
  BY DEF ResetFilter
<1>2. /\ filter.bits \in Seq(SUBSET Nat) /\ filter.m \in Number \ {0} /\ filter.k \in Nat
      /\ filter.m <= WordBits * Len(filter.bits)
      /\ filter = [m |-> filter.m, k |-> filter.k, bits |-> filter.bits]
  BY DEF FilterInv, EnoughWords
<1>3. bits2 \in Seq(SUBSET Nat) /\ Len(bits2) = Len(filter.bits)
  BY <1>2
<1> HIDE DEF bits2
<1>4. /\ filter'.bits = bits2 /\ filter'.m = filter.m /\ filter'.k = filter.k
      /\ filter' = [m |-> filter'.m, k |-> filter'.k, bits |-> filter'.bits]
  BY <1>1, <1>2
<1>5. EnoughWords(filter)'
  BY <1>2, <1>3, <1>4 DEF EnoughWords
<1>6. Holds(filter, added)'
  BY <1>1 DEF Holds
<1>7. Holds(binary, binary.of)'
  BY <1>1 DEF FilterInv, Holds, IndexIn
<1> QED BY <1>1, <1>4, <1>5, <1>6, <1>7 DEF FilterInv

LEMMA MarshalKeeps ==
    ASSUME FilterInv, MarshalBinary
    PROVE  FilterInv'
<1>1. /\ hashes' = hashes /\ filter' = filter /\ added' = added
      /\ binary'.of = added /\ binary'.m = filter.m /\ binary'.k = filter.k
      /\ binary'.bits = filter.bits
  BY DEF MarshalBinary
<1>2. /\ EnoughWords(filter)' /\ Holds(filter, added)'
  BY <1>1 DEF FilterInv, EnoughWords, Holds, IndexIn
<1>3. Holds(binary, binary.of)'
  BY <1>1 DEF FilterInv, Holds, IndexIn
<1>4. (binary.m \in Number /\ binary.k \in Nat /\ binary.bits \in Seq(SUBSET Nat))'
  BY <1>1 DEF FilterInv, EnoughWords
<1> QED BY <1>1, <1>2, <1>3, <1>4 DEF FilterInv

LEMMA AlterKeeps ==
    ASSUME FilterInv, AlterBinary
    PROVE  FilterInv'
<1>1. hashes' = hashes /\ filter' = filter /\ added' = added
  BY DEF AlterBinary
<1>2. PICK m \in Number, k \in 0 .. MaxHashes, words, len \in 0 .. MaxWords :
        binary' = [m |-> m, k |-> k, words |-> words,
                   bits |-> [w \in 1 .. len |-> {}], of |-> {}, altered |-> TRUE]
  BY DEF AlterBinary
<1>3. len \in Nat /\ k \in Nat
  BY BloomFilterAssumption
<1>4. [w \in 1 .. len |-> {}] \in Seq(SUBSET Nat)
  BY <1>3
<1>5. (binary.m \in Number /\ binary.k \in Nat /\ binary.bits \in Seq(SUBSET Nat))'
  BY <1>2, <1>3, <1>4
<1>6. binary'.of = {}
  BY <1>2
<1>7. Holds(binary, binary.of)'
  BY <1>6 DEF Holds
<1>8. /\ EnoughWords(filter)' /\ Holds(filter, added)'
  BY <1>1 DEF FilterInv, EnoughWords, Holds, IndexIn
<1> QED BY <1>1, <1>5, <1>6, <1>7, <1>8 DEF FilterInv

LEMMA UnmarshalKeeps ==
    ASSUME FilterInv, UnmarshalBinary
    PROVE  FilterInv'
<1>1. /\ hashes' = hashes /\ binary' = binary /\ added' = binary.of
      /\ filter' = [m |-> binary.m, k |-> binary.k, bits |-> binary.bits]
      /\ binary.m # 0 /\ binary.words # 0
      /\ binary.words = WordsFor(binary.m) /\ binary.words = Len(binary.bits)
  BY DEF UnmarshalBinary, Nonzero
<1>2. filter'.m = binary.m /\ filter'.k = binary.k /\ filter'.bits = binary.bits
  BY <1>1
<1>3. /\ binary.m \in Number /\ binary.k \in Nat /\ binary.bits \in Seq(SUBSET Nat)
  BY DEF FilterInv
<1>4. binary.m <= WordBits * WordsFor(binary.m)
  BY <1>1, <1>3, WordsForEnough
<1>5. EnoughWords(filter)'
  BY <1>1, <1>2, <1>3, <1>4 DEF EnoughWords
<1>6. Holds(filter, added)' /\ Holds(binary, binary.of)'
  BY <1>1, <1>2 DEF FilterInv, Holds, IndexIn
<1> QED BY <1>1, <1>2, <1>3, <1>5, <1>6 DEF FilterInv

LEMMA FilterInvStep == FilterInv /\ [FilterNext]_filterVars => FilterInv'
<1> SUFFICES ASSUME FilterInv, [FilterNext]_filterVars PROVE FilterInv'
  OBVIOUS
<1>1. CASE UNCHANGED filterVars
  BY <1>1 DEF filterVars, FilterInv, EnoughWords, Holds, IndexIn
<1> QED BY <1>1, AddItemKeeps, ResetKeeps, MarshalKeeps, AlterKeeps, UnmarshalKeeps
        DEF FilterNext

LEMMA InvIsSafe == FilterInv => FilterSafe
<1> SUFFICES ASSUME FilterInv, NEW item \in FilterItem
             PROVE  /\ \A p \in Places(item) : Word(p) \in DOMAIN filter.bits
                    /\ item \in added => MayContain(item)
  BY DEF FilterSafe
<1>1. /\ hashes \in [FilterItem -> HashPair] /\ filter.m \in Number \ {0}
      /\ filter.bits \in Seq(SUBSET Nat) /\ filter.m <= WordBits * Len(filter.bits)
      /\ filter.k \in Nat
  BY DEF FilterInv, EnoughWords
<1>2. filter.m \in Nat /\ Len(filter.bits) \in Nat
      /\ DOMAIN filter.bits = 1 .. Len(filter.bits)
  BY <1>1 DEF Number
<1>3. ASSUME NEW i \in 0 .. filter.k - 1
      PROVE  Word(Index(item, i)) \in DOMAIN filter.bits
  <2>1. Index(item, i) \in 0 .. filter.m - 1
    BY <1>1, IndexBelow, IndexIsIn
  <2> QED BY <1>1, <1>2, <2>1, BitHasWord
<1>4. ASSUME item \in added, NEW i \in 0 .. filter.k - 1
      PROVE  Offset(Index(item, i)) \in filter.bits[Word(Index(item, i))]
  BY <1>4, IndexIsIn DEF FilterInv, Holds
<1> QED BY <1>3, <1>4 DEF Places, MayContain

(* A lookup that trusts the denial of a filter loses no record, whatever   *)
(* the hashes, the size of the filter and the width of its numbers, and no *)
(* bytes make UnmarshalBinary accept a filter that would look outside of   *)
(* its words.                                                              *)
THEOREM NoItemDenied == FilterSpec => []FilterSafe
BY FilterInvInit, FilterInvStep, InvIsSafe, PTL DEF FilterSpec

-----------------------------------------------------------------------------
(* Backup.                                                                 *)

Immutable == [writes : SUBSET Nat, covers : Nat]

BackupTypes ==
    /\ written \in Nat
    /\ buffered \in SUBSET Nat
    /\ DOMAIN segments \in Indices /\ DOMAIN segments # {}
    /\ segments \in [DOMAIN segments -> SUBSET Nat]
    /\ waiting \in Seq(Immutable)
    /\ DOMAIN tableFiles \in Indices
    /\ named \subseteq DOMAIN tableFiles

(* What the immutables up to i will have brought to tables.                *)
FlushedUpTo(i) == UNION {waiting[j].writes : j \in {j \in DOMAIN waiting : j <= i}}

(* A segment that a flush may prune holds nothing that is not in a table   *)
(* then, and what waits to be flushed is in the log until it is.           *)
LogCovers ==
    /\ \A i \in DOMAIN waiting : waiting[i].covers < Active
    /\ \A i \in DOMAIN waiting, s \in DOMAIN segments : s <= waiting[i].covers =>
          segments[s] \subseteq InTables \cup FlushedUpTo(i)
    /\ Frozen \subseteq InLog \cup InTables

(* What the holder of maintenanceMu has written may be published, and what *)
(* it will remove is not in use.                                           *)
WorkerHolds ==
    /\ worker.does = "flush" =>
          /\ waiting # <<>>
          /\ worker.table \in DOMAIN tableFiles \ named
          /\ tableFiles[worker.table] = waiting[1].writes
    /\ worker.does = "compact" =>
          /\ worker.table \in DOMAIN tableFiles \ named
          /\ tableFiles[worker.table] = InTables
    /\ worker.does = "remove" => worker.tables \cap named = {}

(* The files Backup copies.                                                *)
ToCopy == {CurrentFile, ManifestFile} \cup {NameOf("wal", s) : s \in DOMAIN segments}
                                      \cup {NameOf("sst", t) : t \in named}

(* Nothing a backup copies changes before it has been copied.              *)
CopyingInv ==
    /\ copying = [at |-> copying.at, todo |-> copying.todo]
    /\ copying # NoBackup => digests = <<>>
    /\ copying.at # "copy" => copies = <<>>
    /\ copying.at = "copy" =>
          /\ worker.does = "backup" /\ buffered = {} /\ pointer # ""
          /\ copying.todo \subseteq ToCopy
          /\ DOMAIN copies = ToCopy \ copying.todo
          /\ \A name \in DOMAIN copies : copies[name] = Directory[name]
          /\ snapshot = InLog \cup InTables

(* A backup is complete and holds the snapshot, and so does a copy of it.  *)
BackupHolds ==
    /\ digests # <<>> =>
          /\ \A name \in DOMAIN digests : name = NameOf(name.kind, name.id)
          /\ {ManifestFile, CurrentFile} \subseteq DOMAIN digests
          /\ FilesOf("wal", digests) # {}
          /\ digests[ManifestFile] \subseteq FilesOf("sst", digests)
          /\ Opened(digests) = snapshot
    /\ restored # <<>> => digests # <<>> /\ Opened(restored) = snapshot

BackupInv == BackupTypes /\ LogCovers /\ WorkerHolds /\ CopyingInv /\ BackupHolds

-----------------------------------------------------------------------------
LEMMA WithFileIs ==
    ASSUME NEW f, NEW name, NEW content
    PROVE  /\ DOMAIN WithFile(f, name, content) = DOMAIN f \cup {name}
           /\ WithFile(f, name, content)[name] = content
           /\ \A n \in DOMAIN f \ {name} : WithFile(f, name, content)[n] = f[n]
BY DEF WithFile

LEMMA NextNumber ==
    ASSUME NEW S \in Indices
    PROVE  /\ Max(S \cup {0}) + 1 \in Nat \ S
           /\ S \cup {Max(S \cup {0}) + 1} \in Indices
<1>1. S \cup {0} \in Indices /\ S \subseteq Nat
  BY FS_AddElement DEF Indices
<1>2. Max(S \cup {0}) \in Nat /\ \A s \in S \cup {0} : s <= Max(S \cup {0})
  BY <1>1, MaxIsGreatest
<1>3. Max(S \cup {0}) + 1 \in Nat \ S
  BY <1>1, <1>2
<1> QED BY <1>1, <1>3, AddedNumber

LEMMA ActiveIsLast ==
    ASSUME BackupTypes
    PROVE  /\ Active \in DOMAIN segments /\ Active \in Nat
           /\ \A s \in DOMAIN segments : s \in Nat /\ s <= Active
           /\ \A s \in DOMAIN segments : segments[s] \in SUBSET Nat
<1>1. DOMAIN segments \subseteq Nat
  BY DEF BackupTypes, Indices
<1> QED BY <1>1, MaxIsGreatest DEF BackupTypes, Active

(* The greatest number is the one that is.                                 *)
LEMMA GreatestIsMax ==
    ASSUME NEW S \in Indices, NEW m \in S, \A s \in S : s <= m
    PROVE  Max(S) = m
<1>1. S # {} /\ S \subseteq Nat
  BY DEF Indices
<1>2. Max(S) \in S /\ \A s \in S : s <= Max(S)
  BY <1>1, MaxIsGreatest
<1>3. Max(S) \in Nat /\ m \in Nat /\ m <= Max(S) /\ Max(S) <= m
  BY <1>1, <1>2
<1> QED BY <1>3

(* The log with what was buffered.                                         *)
LEMMA LoggedIs ==
    ASSUME BackupTypes
    PROVE  /\ Logged \in [DOMAIN segments -> SUBSET Nat]
           /\ DOMAIN Logged = DOMAIN segments
           /\ Logged[Active] = segments[Active] \cup buffered
           /\ \A s \in DOMAIN segments \ {Active} : Logged[s] = segments[s]
           /\ UNION {Logged[s] : s \in DOMAIN segments} = InLog \cup buffered
<1>1. Active \in DOMAIN segments /\ segments[Active] \in SUBSET Nat /\ buffered \in SUBSET Nat
  BY ActiveIsLast DEF BackupTypes
<1>2. /\ DOMAIN Logged = DOMAIN segments
      /\ Logged[Active] = segments[Active] \cup buffered
      /\ \A s \in DOMAIN segments \ {Active} : Logged[s] = segments[s]
  BY <1>1 DEF Logged, BackupTypes
<1>3. Logged \in [DOMAIN segments -> SUBSET Nat]
  BY <1>1 DEF Logged, BackupTypes
<1>4. ASSUME NEW x PROVE (\E s \in DOMAIN segments : x \in Logged[s])
                            <=> x \in InLog \/ x \in buffered
  <2>1. CASE x \in Logged[Active]
    BY <1>1, <1>2, <2>1 DEF InLog
  <2>2. CASE x \notin Logged[Active]
    <3>1. x \notin segments[Active] /\ x \notin buffered
      BY <1>2, <2>2
    <3> QED BY <1>1, <1>2, <2>2, <3>1 DEF InLog
  <2> QED BY <2>1, <2>2
<1>5. UNION {Logged[s] : s \in DOMAIN segments} = InLog \cup buffered
  BY <1>4
<1> QED BY <1>2, <1>3, <1>5

(* What the tables and the log hold depends on nothing else.               *)
LEMMA StoreStays ==
    ASSUME LogCovers, UNCHANGED <<segments, waiting, tableFiles, named>>
    PROVE  LogCovers' /\ InTables' = InTables /\ InLog' = InLog
<1>1. /\ InTables' = InTables /\ InLog' = InLog /\ Frozen' = Frozen /\ Active' = Active
      /\ \A i : FlushedUpTo(i)' = FlushedUpTo(i)
  BY DEF InTables, InLog, Frozen, Active, FlushedUpTo
<1> QED BY <1>1 DEF LogCovers

LEMMA NothingCopied ==
    ASSUME CopyingInv, copying.at # "copy", UNCHANGED <<copying, copies, digests>>
    PROVE  CopyingInv'
BY DEF CopyingInv

LEMMA BackupStays ==
    ASSUME BackupHolds, UNCHANGED <<snapshot, digests, restored>>
    PROVE  BackupHolds'
BY DEF BackupHolds, Opened, FilesOf

LEMMA BackupInvInit == BackupInit => BackupInv
<1> SUFFICES ASSUME BackupInit PROVE BackupInv
  OBVIOUS
<1>1. /\ DOMAIN segments = {1} /\ segments = [s \in {1} |-> {}]
      /\ tableFiles = <<>> /\ waiting = <<>>
      /\ named = {} /\ written = 0 /\ buffered = {}
  BY DEF BackupInit
<1>8. DOMAIN tableFiles = {} /\ DOMAIN waiting = {} /\ waiting \in Seq(Immutable)
  BY <1>1
<1>2. {1} \in Indices /\ {} \in Indices
  <2>1. IsFiniteSet({1})
    BY FS_Singleton
  <2> QED BY <2>1, FS_EmptySet DEF Indices
<1>3. BackupTypes
  <2>1. segments \in [DOMAIN segments -> SUBSET Nat]
    BY DEF BackupInit
  <2> QED BY <1>1, <1>8, <1>2, <2>1 DEF BackupTypes
<1>4. LogCovers
  BY <1>1, <1>8 DEF LogCovers, Frozen
<1>5. WorkerHolds
  BY DEF BackupInit, WorkerHolds, Free
<1>6. CopyingInv
  BY DEF BackupInit, CopyingInv, NoBackup
<1>7. BackupHolds
  BY DEF BackupInit, BackupHolds
<1> QED BY <1>3, <1>4, <1>5, <1>6, <1>7 DEF BackupInv

(* The records that are written stay covered when the buffer is flushed.   *)
LEMMA LogGrows ==
    ASSUME BackupTypes, LogCovers, segments' = Logged,
           UNCHANGED <<waiting, tableFiles, named>>
    PROVE  /\ LogCovers' /\ InTables' = InTables /\ InLog' = InLog \cup buffered
           /\ segments' \in [DOMAIN segments -> SUBSET Nat] /\ DOMAIN segments' = DOMAIN segments
<1>1. /\ segments' \in [DOMAIN segments -> SUBSET Nat] /\ DOMAIN segments' = DOMAIN segments
      /\ Active \in DOMAIN segments /\ Active \in Nat
      /\ \A s \in DOMAIN segments : s # Active => segments'[s] = segments[s]
  BY LoggedIs, ActiveIsLast
<1>2. InLog' = InLog \cup buffered
  BY <1>1, LoggedIs DEF InLog
<1>3. /\ InTables' = InTables /\ Frozen' = Frozen /\ Active' = Active
      /\ \A i : FlushedUpTo(i)' = FlushedUpTo(i)
  BY <1>1 DEF InTables, Frozen, Active, FlushedUpTo
<1>4. ASSUME NEW i \in DOMAIN waiting, NEW s \in DOMAIN segments, s <= waiting[i].covers
      PROVE  segments'[s] \subseteq InTables \cup FlushedUpTo(i)
  <2>1. waiting[i] \in Immutable /\ s \in Nat
    BY ActiveIsLast DEF BackupTypes
  <2>2. waiting[i].covers < Active /\ waiting[i].covers \in Nat
    BY <2>1 DEF LogCovers, Immutable
  <2>3. s # Active
    BY <1>1, <1>4, <2>1, <2>2
  <2> QED BY <1>1, <1>4, <2>3 DEF LogCovers
<1>5. LogCovers'
  BY <1>1, <1>2, <1>3, <1>4 DEF LogCovers
<1> QED BY <1>1, <1>2, <1>3, <1>5

LEMMA PutKeeps ==
    ASSUME BackupInv, PutRecord
    PROVE  BackupInv'
<1> USE DEF BackupInv
<1>1. /\ segments' = segments /\ waiting' = waiting /\ tableFiles' = tableFiles /\ named' = named
      /\ worker' = worker /\ copying' = copying /\ copies' = copies /\ digests' = digests
      /\ snapshot' = snapshot /\ restored' = restored /\ copying.at # "copy"
      /\ written' = written + 1 /\ buffered' = buffered \cup {written + 1}
  BY DEF PutRecord, copyVars, Locked
<1>2. BackupTypes'
  BY <1>1 DEF BackupTypes
<1>3. LogCovers' /\ InTables' = InTables
  BY <1>1, StoreStays
<1>4. WorkerHolds'
  BY <1>1, <1>3 DEF WorkerHolds
<1> QED BY <1>1, <1>2, <1>3, <1>4, NothingCopied, BackupStays

LEMMA FlushBufferKeeps ==
    ASSUME BackupInv, FlushBuffer
    PROVE  BackupInv'
<1> USE DEF BackupInv
<1>1. /\ segments' = Logged /\ waiting' = waiting /\ tableFiles' = tableFiles /\ named' = named
      /\ worker' = worker /\ copying' = copying /\ copies' = copies /\ digests' = digests
      /\ snapshot' = snapshot /\ restored' = restored
      /\ written' = written /\ buffered' = {} /\ buffered # {}
  BY DEF FlushBuffer, copyVars
<1>2. /\ LogCovers' /\ InTables' = InTables
      /\ segments' \in [DOMAIN segments -> SUBSET Nat] /\ DOMAIN segments' = DOMAIN segments
  BY <1>1, LogGrows
<1>3. BackupTypes'
  BY <1>1, <1>2 DEF BackupTypes
<1>4. WorkerHolds'
  BY <1>1, <1>2 DEF WorkerHolds
<1>5. copying.at # "copy"
  BY <1>1 DEF CopyingInv
<1> QED BY <1>1, <1>2, <1>3, <1>4, <1>5, NothingCopied, BackupStays

LEMMA ImmutablesAre ==
    ASSUME BackupTypes
    PROVE  /\ Len(waiting) \in Nat /\ DOMAIN waiting = 1 .. Len(waiting)
           /\ \A i \in DOMAIN waiting : /\ waiting[i] \in Immutable
                                        /\ waiting[i].writes \in SUBSET Nat
                                        /\ waiting[i].covers \in Nat
           /\ waiting # <<>> => 1 \in DOMAIN waiting
<1>1. waiting \in Seq(Immutable)
  BY DEF BackupTypes
<1>2. Len(waiting) \in Nat /\ DOMAIN waiting = 1 .. Len(waiting)
  BY <1>1
<1>3. \A i \in DOMAIN waiting : waiting[i] \in Immutable
  BY <1>1
<1>4. waiting # <<>> => Len(waiting) # 0
  BY <1>1
<1> QED BY <1>2, <1>3, <1>4 DEF Immutable

LEMMA FreezingKeeps ==
    ASSUME BackupTypes, LogCovers, WorkerHolds, Freezing,
           UNCHANGED <<written, tableFiles, named, worker>>
    PROVE  BackupTypes' /\ LogCovers' /\ WorkerHolds'
<1> DEFINE next == Active + 1
           entry == [writes |-> InMemTable, covers |-> Active]
<1>1. /\ segments' = WithFile(Logged, next, {}) /\ waiting' = Append(waiting, entry)
      /\ buffered' = {} /\ written' = written /\ tableFiles' = tableFiles /\ named' = named
      /\ worker' = worker
  BY DEF Freezing
<1>0. PICK n \in Nat : n = Len(waiting)
  BY ImmutablesAre
<1>2. /\ Active \in DOMAIN segments /\ Active \in Nat
      /\ \A s \in DOMAIN segments : s \in Nat /\ s <= Active
  BY ActiveIsLast
<1>3. next \in Nat /\ next \notin DOMAIN segments /\ next > Active
  BY <1>2
<1>4. /\ DOMAIN segments' = DOMAIN segments \cup {next} /\ segments'[next] = {}
      /\ \A s \in DOMAIN segments : segments'[s] = Logged[s]
  <2>1. DOMAIN Logged = DOMAIN segments
    BY LoggedIs
  <2> HIDE DEF next
  <2> QED BY <1>1, <1>3, <2>1 DEF WithFile
<1>5. \A s \in DOMAIN segments' : segments'[s] \in SUBSET Nat
  BY <1>4, LoggedIs
<1>6. segments' \in [DOMAIN segments' -> SUBSET Nat]
  <2>1. segments' = [s \in DOMAIN segments' |-> segments'[s]]
    BY <1>1 DEF WithFile
  <2> QED BY <1>5, <2>1
<1>7. DOMAIN segments' \in Indices
  BY <1>3, <1>4, AddedNumber DEF BackupTypes
<1>8. Active' = next
  <2>1. next \in DOMAIN segments' /\ \A s \in DOMAIN segments' : s <= next
    BY <1>2, <1>3, <1>4
  <2> QED BY <1>7, <2>1, GreatestIsMax DEF Active
<1>9. InMemTable \in SUBSET Nat
  <2>1. InLog \subseteq Nat
    BY ActiveIsLast DEF InLog
  <2> QED BY <2>1 DEF InMemTable, BackupTypes
<1>10. entry \in Immutable
  BY <1>2, <1>9 DEF Immutable
<1>11. /\ waiting' \in Seq(Immutable) /\ Len(waiting') = n + 1
       /\ DOMAIN waiting' = 1 .. n + 1 /\ DOMAIN waiting = 1 .. n /\ n \in Nat
       /\ \A i \in DOMAIN waiting : waiting'[i] = waiting[i]
       /\ waiting'[n + 1].writes = InMemTable /\ waiting'[n + 1].covers = Active
  <2>1. waiting \in Seq(Immutable)
    BY DEF BackupTypes
  <2>2. entry.writes = InMemTable /\ entry.covers = Active
    OBVIOUS
  <2> HIDE DEF entry
  <2> QED BY <1>1, <1>10, <1>0, <2>1, <2>2
<1> HIDE DEF next, entry
<1>12. BackupTypes'
  BY <1>1, <1>4, <1>6, <1>7, <1>11 DEF BackupTypes
<1>13. InTables' = InTables /\ InLog' = InLog \cup buffered
  <2>1. InTables' = InTables
    BY <1>1 DEF InTables
  <2>2. InLog' = UNION {Logged[s] : s \in DOMAIN segments}
    BY <1>4 DEF InLog
  <2> QED BY <2>1, <2>2, LoggedIs
<1>14. /\ \A i \in DOMAIN waiting : FlushedUpTo(i) \subseteq FlushedUpTo(i)'
       /\ Frozen' = Frozen \cup InMemTable
       /\ FlushedUpTo(n + 1)' = Frozen'
  <2>1. DOMAIN waiting' = DOMAIN waiting \cup {n + 1}
    BY <1>11
  <2>2. \A i \in DOMAIN waiting : waiting'[i].writes = waiting[i].writes
    BY <1>11
  <2>3. \A i \in DOMAIN waiting : FlushedUpTo(i) \subseteq FlushedUpTo(i)'
    BY <2>1, <2>2 DEF FlushedUpTo
  <2>4. Frozen' = Frozen \cup InMemTable
    BY <1>11, <2>1, <2>2 DEF Frozen
  <2>5. {j \in DOMAIN waiting' : j <= n + 1} = DOMAIN waiting'
    BY <1>11
  <2>6. FlushedUpTo(n + 1)' = Frozen'
    BY <2>5 DEF FlushedUpTo, Frozen
  <2> QED BY <2>3, <2>4, <2>6
<1>15. ASSUME NEW i \in DOMAIN waiting', NEW s \in DOMAIN segments', s <= waiting'[i].covers
       PROVE  /\ waiting'[i].covers < Active'
              /\ segments'[s] \subseteq InTables' \cup FlushedUpTo(i)'
  <2>1. CASE i = n + 1
    <3>1. waiting'[i].covers = Active /\ s # next
      BY <1>2, <1>3, <1>11, <1>15, <2>1
    <3>2. s \in DOMAIN segments /\ segments'[s] = Logged[s]
      BY <1>4, <3>1
    <3>3. segments'[s] \subseteq InLog \cup buffered
      BY <3>2, LoggedIs
    <3>4. InLog \cup buffered \subseteq InTables \cup Frozen'
      BY <1>14 DEF InMemTable
    <3>5. segments'[s] \subseteq InTables' \cup FlushedUpTo(i)'
      <4>1. FlushedUpTo(i)' = Frozen'
        BY <1>14, <2>1
      <4> QED BY <1>13, <3>3, <3>4, <4>1
    <3> QED BY <1>2, <1>3, <1>8, <3>1, <3>5
  <2>2. CASE i # n + 1
    <3>1. i \in DOMAIN waiting /\ waiting'[i] = waiting[i] /\ waiting[i].covers \in Nat
      BY <1>11, <2>2, ImmutablesAre
    <3>2. waiting[i].covers < Active
      BY <3>1 DEF LogCovers
    <3>3. s # next /\ s # Active
      BY <1>2, <1>3, <1>15, <3>1, <3>2
    <3>4. s \in DOMAIN segments /\ segments'[s] = segments[s]
      BY <1>4, <3>3, LoggedIs
    <3>5. segments[s] \subseteq InTables \cup FlushedUpTo(i)
      BY <1>15, <3>1, <3>4 DEF LogCovers
    <3> QED BY <1>2, <1>3, <1>8, <1>13, <1>14, <3>1, <3>2, <3>4, <3>5
  <2> QED BY <2>1, <2>2
<1>16. \A i \in DOMAIN waiting' : waiting'[i].covers < Active'
  <2> SUFFICES ASSUME NEW i \in DOMAIN waiting' PROVE waiting'[i].covers < Active'
    OBVIOUS
  <2>1. CASE i = n + 1
    BY <1>2, <1>3, <1>8, <1>11, <2>1
  <2>2. CASE i # n + 1
    <3>1. i \in DOMAIN waiting /\ waiting'[i] = waiting[i] /\ waiting[i].covers \in Nat
      BY <1>11, <2>2, ImmutablesAre
    <3>2. waiting[i].covers < Active
      BY <3>1 DEF LogCovers
    <3> QED BY <1>2, <1>3, <1>8, <3>1, <3>2
  <2> QED BY <2>1, <2>2
<1>17. Frozen' \subseteq InLog' \cup InTables'
  BY <1>13, <1>14 DEF LogCovers, InMemTable
<1>18. LogCovers'
  BY <1>15, <1>16, <1>17 DEF LogCovers
<1>19. WorkerHolds'
  <2>1. waiting # <<>> => waiting' # <<>> /\ waiting'[1] = waiting[1]
    BY <1>11, ImmutablesAre
  <2> QED BY <1>1, <1>13, <2>1 DEF WorkerHolds
<1> QED BY <1>12, <1>18, <1>19

LEMMA FreezeKeeps ==
    ASSUME BackupInv, FreezeRecords
    PROVE  BackupInv'
<1> USE DEF BackupInv
<1>1. /\ Freezing /\ written' = written /\ tableFiles' = tableFiles /\ named' = named
      /\ worker' = worker /\ copying' = copying /\ copies' = copies /\ digests' = digests
      /\ snapshot' = snapshot /\ restored' = restored /\ copying.at # "copy"
  BY DEF FreezeRecords, copyVars, Locked
<1>2. BackupTypes' /\ LogCovers' /\ WorkerHolds'
  BY <1>1, FreezingKeeps
<1> QED BY <1>1, <1>2, NothingCopied, BackupStays

LEMMA CallKeeps ==
    ASSUME BackupInv, CallBackup
    PROVE  BackupInv'
<1> USE DEF BackupInv
<1>1. /\ written' = written /\ tableFiles' = tableFiles /\ named' = named
      /\ worker' = worker /\ copies' = copies /\ digests' = digests
      /\ snapshot' = snapshot /\ restored' = restored
      /\ copying = NoBackup /\ digests = <<>>
      /\ copying' = [NoBackup EXCEPT !.at = "checkpoint"]
  BY DEF CallBackup
<1>2. BackupTypes' /\ LogCovers' /\ WorkerHolds'
  <2>1. CASE Freezing
    BY <1>1, <2>1, FreezingKeeps
  <2>2. CASE UNCHANGED <<buffered, segments, waiting>>
    <3>1. LogCovers' /\ InTables' = InTables
      BY <1>1, <2>2, StoreStays
    <3> QED BY <1>1, <2>2, <3>1 DEF BackupTypes, WorkerHolds
  <2> QED BY <2>1, <2>2 DEF CallBackup
<1>3. CopyingInv'
  BY <1>1 DEF CopyingInv, NoBackup
<1> QED BY <1>1, <1>2, <1>3, BackupStays

LEMMA WriteTableKeeps ==
    ASSUME BackupInv, WriteTableFile
    PROVE  BackupInv'
<1> USE DEF BackupInv
<1>1. PICK does \in {"flush", "compact"}, id \in 1 .. MaxTableFiles :
        /\ id = Max(DOMAIN tableFiles \cup {0}) + 1
        /\ IF does = "flush" THEN waiting # <<>> ELSE named # {}
        /\ tableFiles' = WithFile(tableFiles, id,
              IF does = "flush" THEN waiting[1].writes ELSE InTables)
        /\ worker' = [does |-> does, table |-> id]
  BY DEF WriteTableFile
<1>2. /\ written' = written /\ buffered' = buffered /\ segments' = segments
      /\ waiting' = waiting /\ named' = named /\ copying' = copying /\ copies' = copies
      /\ digests' = digests /\ snapshot' = snapshot /\ restored' = restored
      /\ worker = Free
  BY DEF WriteTableFile, copyVars
<1>3. id \in Nat \ DOMAIN tableFiles /\ DOMAIN tableFiles \cup {id} \in Indices
  BY <1>1, NextNumber DEF BackupTypes
<1>4. /\ DOMAIN tableFiles' = DOMAIN tableFiles \cup {id}
      /\ tableFiles'[id] = (IF does = "flush" THEN waiting[1].writes ELSE InTables)
      /\ \A t \in DOMAIN tableFiles : tableFiles'[t] = tableFiles[t]
  BY <1>1, <1>3 DEF WithFile
<1>5. BackupTypes'
  BY <1>2, <1>3, <1>4 DEF BackupTypes
<1>6. InTables' = InTables /\ InLog' = InLog /\ Frozen' = Frozen /\ Active' = Active
      /\ \A i : FlushedUpTo(i)' = FlushedUpTo(i)
  BY <1>2, <1>4 DEF BackupTypes, InTables, InLog, Frozen, Active, FlushedUpTo
<1>7. LogCovers'
  BY <1>2, <1>6 DEF LogCovers
<1>8. WorkerHolds'
  BY <1>1, <1>2, <1>3, <1>4, <1>6 DEF WorkerHolds, BackupTypes
<1>9. copying.at # "copy"
  BY <1>2 DEF CopyingInv, Free
<1> QED BY <1>2, <1>5, <1>7, <1>8, <1>9, NothingCopied, BackupStays

(* Publishing a flush: what the pruned segments held is in tables.         *)
LEMMA PublishFlushKeeps ==
    ASSUME BackupInv, PublishFlush
    PROVE  BackupInv'
<1> USE DEF BackupInv
<1> DEFINE table == worker.table
<1>1. /\ worker.does = "flush" /\ copying.at # "copy"
      /\ named' = named \cup {table} /\ waiting' = Tail(waiting) /\ worker' = Free
      /\ written' = written /\ buffered' = buffered /\ tableFiles' = tableFiles
      /\ copying' = copying /\ copies' = copies
      /\ digests' = digests /\ snapshot' = snapshot /\ restored' = restored
  BY DEF PublishFlush, copyVars, Locked
<1>2. waiting # <<>> /\ table \in DOMAIN tableFiles /\ tableFiles[table] = waiting[1].writes
  BY <1>1 DEF WorkerHolds
<1>3. PICK n \in Nat : n = Len(waiting) /\ n # 0 /\ DOMAIN waiting = 1 .. n
  <2>1. Len(waiting) \in Nat /\ DOMAIN waiting = 1 .. Len(waiting) /\ 1 \in DOMAIN waiting
    BY <1>2, ImmutablesAre
  <2>2. Len(waiting) # 0
    BY <2>1
  <2> QED BY <2>1, <2>2
<1>4. /\ waiting' \in Seq(Immutable) /\ DOMAIN waiting' = 1 .. n - 1
      /\ \A i \in 1 .. n - 1 : waiting'[i] = waiting[i + 1]
  <2>1. waiting \in Seq(Immutable)
    BY DEF BackupTypes
  <2> QED BY <1>1, <1>2, <1>3, <2>1
<1>5. \A i \in DOMAIN waiting : waiting[i].covers \in Nat /\ waiting[i].covers < Active
  BY ImmutablesAre DEF LogCovers
<1>6. /\ Active \in DOMAIN segments /\ Active \in Nat
      /\ \A s \in DOMAIN segments : s \in Nat /\ s <= Active
  BY ActiveIsLast
<1>7. /\ DOMAIN segments' \subseteq DOMAIN segments /\ Active \in DOMAIN segments'
      /\ \A s \in DOMAIN segments : s > waiting[1].covers => s \in DOMAIN segments'
      /\ \A s \in DOMAIN segments' : segments'[s] = segments[s]
      /\ segments' = [s \in DOMAIN segments' |-> segments'[s]]
  <2>1. 1 \in DOMAIN waiting
    BY <1>3
  <2>2. Active \in {s \in DOMAIN segments : s > waiting[1].covers}
    BY <1>5, <1>6, <2>1
  <2>3. CASE segments' = segments
    BY <1>6, <2>3 DEF BackupTypes
  <2>4. CASE segments' = [s \in {s \in DOMAIN segments : s > waiting[1].covers} |-> segments[s]]
    BY <2>2, <2>4
  <2> QED BY <2>3, <2>4 DEF PublishFlush
<1>8. DOMAIN segments' \in Indices /\ segments' \in [DOMAIN segments' -> SUBSET Nat]
  <2>1. \A s \in DOMAIN segments' : segments'[s] \in SUBSET Nat
    BY <1>7, ActiveIsLast
  <2> QED BY <1>7, <2>1, SubsetIndices DEF BackupTypes
<1>9. BackupTypes'
  BY <1>1, <1>2, <1>4, <1>7, <1>8 DEF BackupTypes
<1>10. Active' = Active
  <2>1. \A s \in DOMAIN segments' : s <= Active
    BY <1>6, <1>7
  <2> QED BY <1>7, <1>8, <2>1, GreatestIsMax DEF Active
<1>11. InTables' = InTables \cup waiting[1].writes
  <2>1. InTables' = InTables \cup tableFiles[table]
    BY <1>1 DEF InTables
  <2> QED BY <1>2, <2>1
<1>12. ASSUME NEW x \in InLog, x \notin InLog' PROVE x \in InTables'
  <2>1. PICK s \in DOMAIN segments : x \in segments[s]
    BY <1>12 DEF InLog
  <2>2. s \notin DOMAIN segments'
    BY <1>7, <1>12, <2>1 DEF InLog
  <2>3. 1 \in DOMAIN waiting /\ s <= waiting[1].covers
    BY <1>3, <1>5, <1>6, <1>7, <2>2
  <2>4. x \in InTables \cup FlushedUpTo(1)
    BY <2>1, <2>3 DEF LogCovers
  <2>5. {j \in DOMAIN waiting : j <= 1} = {1}
    BY <1>3
  <2> QED BY <1>11, <2>4, <2>5 DEF FlushedUpTo
<1>13. \A i \in 1 .. n - 1 : FlushedUpTo(i + 1) \subseteq waiting[1].writes \cup FlushedUpTo(i)'
  <2> SUFFICES ASSUME NEW i \in 1 .. n - 1, NEW j \in 1 .. n, j <= i + 1, j # 1
               PROVE  waiting[j].writes \subseteq FlushedUpTo(i)'
    BY <1>3 DEF FlushedUpTo
  <2>1. j - 1 \in 1 .. n - 1 /\ j - 1 <= i /\ waiting'[j - 1] = waiting[(j - 1) + 1]
        /\ (j - 1) + 1 = j
    BY <1>4
  <2> QED BY <1>4, <2>1 DEF FlushedUpTo
<1>14. \A i \in DOMAIN waiting' : waiting'[i].covers < Active'
  <2> SUFFICES ASSUME NEW i \in 1 .. n - 1 PROVE waiting[i + 1].covers < Active
    BY <1>4, <1>10
  <2> QED BY <1>3, <1>5
<1>15. ASSUME NEW i \in DOMAIN waiting', NEW s \in DOMAIN segments', s <= waiting'[i].covers
       PROVE  segments'[s] \subseteq InTables' \cup FlushedUpTo(i)'
  <2>1. i \in 1 .. n - 1 /\ i + 1 \in DOMAIN waiting /\ s <= waiting[i + 1].covers
    BY <1>3, <1>4, <1>15
  <2>2. segments[s] \subseteq InTables \cup FlushedUpTo(i + 1)
    BY <1>7, <2>1 DEF LogCovers
  <2>3. FlushedUpTo(i + 1) \subseteq waiting[1].writes \cup FlushedUpTo(i)'
    BY <1>13, <2>1
  <2> QED BY <1>7, <1>11, <2>2, <2>3
<1>16. Frozen' \subseteq InLog' \cup InTables'
  <2>1. Frozen' \subseteq Frozen
    <3>1. \A i \in DOMAIN waiting' : i + 1 \in DOMAIN waiting /\ waiting'[i] = waiting[i + 1]
      BY <1>3, <1>4
    <3> QED BY <3>1 DEF Frozen
  <2> QED BY <1>11, <1>12, <2>1 DEF LogCovers
<1>17. LogCovers'
  BY <1>14, <1>15, <1>16 DEF LogCovers
<1>18. WorkerHolds'
  BY <1>1 DEF WorkerHolds, Free
<1> QED BY <1>1, <1>9, <1>17, <1>18, NothingCopied, BackupStays

LEMMA PublishCompactedKeeps ==
    ASSUME BackupInv, PublishCompacted
    PROVE  BackupInv'
<1> USE DEF BackupInv
<1>1. /\ worker.does = "compact" /\ copying.at # "copy"
      /\ named' = {worker.table} /\ worker' = [does |-> "remove", tables |-> named]
      /\ written' = written /\ buffered' = buffered /\ tableFiles' = tableFiles
      /\ segments' = segments /\ waiting' = waiting
      /\ copying' = copying /\ copies' = copies
      /\ digests' = digests /\ snapshot' = snapshot /\ restored' = restored
  BY DEF PublishCompacted, copyVars, Locked
<1>2. worker.table \in DOMAIN tableFiles \ named /\ tableFiles[worker.table] = InTables
  BY <1>1 DEF WorkerHolds
<1>3. BackupTypes'
  BY <1>1, <1>2 DEF BackupTypes
<1>4. InTables' = InTables
  <2>1. InTables' = tableFiles[worker.table]
    BY <1>1 DEF InTables
  <2> QED BY <1>2, <2>1
<1>5. InLog' = InLog /\ Frozen' = Frozen /\ Active' = Active
      /\ \A i : FlushedUpTo(i)' = FlushedUpTo(i)
  BY <1>1 DEF InLog, Frozen, Active, FlushedUpTo
<1>6. LogCovers'
  BY <1>1, <1>4, <1>5 DEF LogCovers
<1>7. WorkerHolds'
  BY <1>1, <1>2 DEF WorkerHolds
<1> QED BY <1>1, <1>3, <1>6, <1>7, NothingCopied, BackupStays

LEMMA RemoveKeeps ==
    ASSUME BackupInv, RemoveInputs
    PROVE  BackupInv'
<1> USE DEF BackupInv
<1>1. /\ worker.does = "remove" /\ worker' = Free
      /\ tableFiles' = [t \in DOMAIN tableFiles \ worker.tables |-> tableFiles[t]]
      /\ written' = written /\ buffered' = buffered /\ named' = named
      /\ segments' = segments /\ waiting' = waiting
      /\ copying' = copying /\ copies' = copies
      /\ digests' = digests /\ snapshot' = snapshot /\ restored' = restored
  BY DEF RemoveInputs, copyVars
<1>2. named \subseteq DOMAIN tableFiles \ worker.tables
  BY <1>1 DEF WorkerHolds, BackupTypes
<1>3. DOMAIN tableFiles' = DOMAIN tableFiles \ worker.tables
      /\ \A t \in named : tableFiles'[t] = tableFiles[t]
  BY <1>1, <1>2
<1>4. DOMAIN tableFiles' \in Indices
  BY <1>3, SubsetIndices DEF BackupTypes
<1>5. BackupTypes'
  BY <1>1, <1>2, <1>3, <1>4 DEF BackupTypes
<1>6. InTables' = InTables
  BY <1>1, <1>3 DEF InTables
<1>7. InLog' = InLog /\ Frozen' = Frozen /\ Active' = Active
      /\ \A i : FlushedUpTo(i)' = FlushedUpTo(i)
  BY <1>1 DEF InLog, Frozen, Active, FlushedUpTo
<1>8. LogCovers'
  BY <1>1, <1>6, <1>7 DEF LogCovers
<1>9. WorkerHolds'
  BY <1>1 DEF WorkerHolds, Free
<1>10. copying.at # "copy"
  BY <1>1 DEF CopyingInv
<1> QED BY <1>1, <1>5, <1>8, <1>9, <1>10, NothingCopied, BackupStays

(* The process dies: what is buffered is lost, the log and the tables are  *)
(* what they are.                                                          *)
LEMMA CrashKeeps ==
    ASSUME BackupInv, CrashReopen
    PROVE  BackupInv'
<1> USE DEF BackupInv
<1>1. /\ buffered' = {} /\ waiting' = <<>> /\ worker' = Free /\ copying' = NoBackup
      /\ copies' = <<>> /\ written' = written /\ segments' = segments
      /\ tableFiles' = tableFiles
      /\ digests' = digests /\ snapshot' = snapshot /\ restored' = restored
      /\ named' \in {named, DOMAIN tableFiles}
  BY DEF CrashReopen
<1>2. waiting' \in Seq(Immutable) /\ DOMAIN waiting' = {}
  BY <1>1
<1>3. BackupTypes'
  BY <1>1, <1>2 DEF BackupTypes
<1>4. LogCovers'
  BY <1>2 DEF LogCovers, Frozen
<1>5. WorkerHolds'
  BY <1>1 DEF WorkerHolds, Free
<1>6. CopyingInv'
  BY <1>1 DEF CopyingInv, NoBackup
<1> QED BY <1>1, <1>3, <1>4, <1>5, <1>6, BackupStays

-----------------------------------------------------------------------------
(* The directory, file by file.                                            *)
LEMMA DirectoryIs ==
    ASSUME pointer # ""
    PROVE  /\ ManifestFile \in DOMAIN Directory /\ Directory[ManifestFile] = named
           /\ \A s \in DOMAIN segments : /\ NameOf("wal", s) \in DOMAIN Directory
                                         /\ Directory[NameOf("wal", s)] = segments[s]
           /\ \A t \in DOMAIN tableFiles : /\ NameOf("sst", t) \in DOMAIN Directory
                                           /\ Directory[NameOf("sst", t)] = tableFiles[t]
BY DEF Directory, NameOf, ManifestFile

LEMMA NamesDiffer ==
    /\ ManifestFile.kind = "MANIFEST" /\ CurrentFile.kind = "CURRENT"
    /\ \A kind, id : NameOf(kind, id).kind = kind /\ NameOf(kind, id).id = id
BY DEF NameOf, ManifestFile, CurrentFile

LEMMA ToCopyIs ==
    /\ \A name \in ToCopy : name = NameOf(name.kind, name.id)
    /\ {name.id : name \in {n \in ToCopy : n.kind = "wal"}} = DOMAIN segments
    /\ {name.id : name \in {n \in ToCopy : n.kind = "sst"}} = named
<1>1. ASSUME NEW x PROVE (\E n \in ToCopy : n.kind = "wal" /\ n.id = x) <=> x \in DOMAIN segments
  BY NamesDiffer DEF ToCopy
<1>2. ASSUME NEW x PROVE (\E n \in ToCopy : n.kind = "sst" /\ n.id = x) <=> x \in named
  BY NamesDiffer DEF ToCopy
<1>3. \A name \in ToCopy : name = NameOf(name.kind, name.id)
  BY DEF ToCopy, NameOf, ManifestFile, CurrentFile
<1>4. {name.id : name \in {n \in ToCopy : n.kind = "wal"}} = DOMAIN segments
  BY <1>1
<1>5. {name.id : name \in {n \in ToCopy : n.kind = "sst"}} = named
  BY <1>2
<1> QED BY <1>3, <1>4, <1>5

(* Copies of everything are a backup of the moment.                        *)
LEMMA CopiesAreExact ==
    ASSUME BackupInv, copying.at = "copy", copying.todo = {}
    PROVE  /\ \A name \in DOMAIN copies : name = NameOf(name.kind, name.id)
           /\ {ManifestFile, CurrentFile} \subseteq DOMAIN copies
           /\ FilesOf("wal", copies) # {}
           /\ copies[ManifestFile] \subseteq FilesOf("sst", copies)
           /\ Opened(copies) = snapshot
<1>1. /\ DOMAIN copies = ToCopy /\ pointer # "" /\ snapshot = InLog \cup InTables
      /\ \A name \in ToCopy : copies[name] = Directory[name]
  BY DEF BackupInv, CopyingInv
<1>2. FilesOf("wal", copies) = DOMAIN segments /\ FilesOf("sst", copies) = named
  BY <1>1, ToCopyIs DEF FilesOf
<1>3. {ManifestFile, CurrentFile} \subseteq ToCopy /\ copies[ManifestFile] = named
  BY <1>1, DirectoryIs DEF ToCopy
<1>4. \A s \in DOMAIN segments : copies[NameOf("wal", s)] = segments[s]
  BY <1>1, DirectoryIs DEF ToCopy
<1>5. \A t \in named : copies[NameOf("sst", t)] = tableFiles[t]
  <2> SUFFICES ASSUME NEW t \in named PROVE copies[NameOf("sst", t)] = tableFiles[t]
    OBVIOUS
  <2>1. NameOf("sst", t) \in ToCopy /\ t \in DOMAIN tableFiles
    BY DEF ToCopy, BackupInv, BackupTypes
  <2> QED BY <1>1, <2>1, DirectoryIs
<1>6. Opened(copies) = InTables \cup InLog
  <2> DEFINE tables == UNION {copies[NameOf("sst", t)] : t \in copies[ManifestFile]}
             log == UNION {copies[NameOf("wal", s)] : s \in FilesOf("wal", copies)}
  <2>1. tables = InTables
    BY <1>3, <1>5 DEF InTables
  <2>2. log = InLog
    BY <1>2, <1>4 DEF InLog
  <2>3. Opened(copies) = tables \cup log
    BY DEF Opened
  <2> HIDE DEF tables, log
  <2> QED BY <2>1, <2>2, <2>3
<1> QED BY <1>1, <1>2, <1>3, <1>6, ToCopyIs DEF BackupInv, BackupTypes

LEMMA CheckpointKeeps ==
    ASSUME BackupInv, CheckpointDone
    PROVE  BackupInv'
<1> USE DEF BackupInv
<1>1. /\ written' = written /\ buffered' = buffered /\ segments' = segments
      /\ waiting' = waiting /\ tableFiles' = tableFiles /\ named' = named
      /\ worker' = worker /\ copies' = copies /\ digests' = digests
      /\ snapshot' = snapshot /\ restored' = restored
      /\ copying.at = "checkpoint" /\ copying' = [copying EXCEPT !.at = "lock"]
  BY DEF CheckpointDone, storeVars
<1>2. LogCovers' /\ InTables' = InTables
  BY <1>1, StoreStays
<1>3. BackupTypes' /\ WorkerHolds'
  BY <1>1, <1>2 DEF BackupTypes, WorkerHolds
<1>4. copying # NoBackup /\ copying'.at # "copy"
  <2>1. copying.at # NoBackup.at
    BY <1>1 DEF NoBackup
  <2>2. copying'.at # "copy"
    BY <1>1 DEF CopyingInv
  <2> QED BY <2>1, <2>2
<1>5. CopyingInv'
  BY <1>1, <1>4 DEF CopyingInv
<1> QED BY <1>1, <1>2, <1>3, <1>5, BackupStays

LEMMA LockKeeps ==
    ASSUME BackupInv, LockFiles
    PROVE  BackupInv'
<1> USE DEF BackupInv
<1>1. /\ written' = written /\ buffered' = {} /\ segments' = Logged
      /\ waiting' = waiting /\ tableFiles' = tableFiles /\ named' = named
      /\ worker' = [does |-> "backup"] /\ copies' = copies /\ digests' = digests
      /\ restored' = restored /\ copying.at = "lock" /\ pointer' # ""
      /\ copying' = [at |-> "copy",
                     todo |-> {CurrentFile, ManifestFile}
                              \cup {NameOf("wal", s) : s \in DOMAIN segments}
                              \cup {NameOf("sst", t) : t \in named}]
      /\ snapshot' = InMemTable \cup Frozen \cup InTables
  BY DEF LockFiles
<1>2. /\ LogCovers' /\ InTables' = InTables /\ InLog' = InLog \cup buffered
      /\ segments' \in [DOMAIN segments -> SUBSET Nat] /\ DOMAIN segments' = DOMAIN segments
  BY <1>1, LogGrows
<1>3. BackupTypes' /\ WorkerHolds'
  BY <1>1, <1>2 DEF BackupTypes, WorkerHolds
<1>4. copying # NoBackup /\ digests = <<>> /\ copies = <<>>
  <2>1. copying.at # NoBackup.at
    BY <1>1 DEF NoBackup
  <2> QED BY <1>1, <2>1 DEF CopyingInv
<1>5. snapshot' = InLog' \cup InTables'
  BY <1>1, <1>2 DEF LogCovers, InMemTable
<1>6. copying'.at = "copy" /\ copying'.todo = ToCopy'
  BY <1>1, <1>2 DEF ToCopy, ManifestFile, CurrentFile
<1>7. CopyingInv'
  <2>1. DOMAIN copies = {}
    BY <1>4
  <2> QED BY <1>1, <1>2, <1>4, <1>5, <1>6, <2>1 DEF CopyingInv
<1>8. BackupHolds'
  BY <1>1, <1>4 DEF BackupHolds
<1> QED BY <1>2, <1>3, <1>7, <1>8

LEMMA CopyKeeps ==
    ASSUME BackupInv, CopyNext
    PROVE  BackupInv'
<1> USE DEF BackupInv
<1>1. /\ written' = written /\ buffered' = buffered /\ segments' = segments
      /\ waiting' = waiting /\ tableFiles' = tableFiles /\ named' = named
      /\ pointer' = pointer /\ worker' = worker /\ digests' = digests
      /\ snapshot' = snapshot /\ restored' = restored /\ copying.at = "copy"
  BY DEF CopyNext, storeVars
<1>2. PICK name \in copying.todo :
        /\ name \in DOMAIN Directory
        /\ copies' = WithFile(copies, name, Directory[name])
        /\ copying' = [copying EXCEPT !.todo = @ \ {name}]
  <2>1. (CHOOSE n \in copying.todo : TRUE) \in copying.todo
    BY DEF CopyNext
  <2> QED BY <2>1 DEF CopyNext
<1>3. LogCovers' /\ InTables' = InTables /\ InLog' = InLog
  BY <1>1, StoreStays
<1>4. BackupTypes' /\ WorkerHolds'
  BY <1>1, <1>3 DEF BackupTypes, WorkerHolds
<1>5. Directory' = Directory /\ ToCopy' = ToCopy
  BY <1>1 DEF Directory, ToCopy, ManifestFile, CurrentFile
<1>6. copying # NoBackup /\ name \in ToCopy
  <2>1. copying.at # NoBackup.at
    BY <1>1 DEF NoBackup
  <2> QED BY <1>1, <1>2, <2>1 DEF CopyingInv
<1>7. /\ copying'.at = "copy" /\ copying'.todo = copying.todo \ {name}
      /\ copying' = [at |-> copying'.at, todo |-> copying'.todo]
  <2>1. copying = [at |-> copying.at, todo |-> copying.todo]
    BY DEF CopyingInv
  <2> QED BY <1>1, <1>2, <2>1
<1>8. /\ DOMAIN copies' = DOMAIN copies \cup {name}
      /\ copies'[name] = Directory[name]
      /\ \A n \in DOMAIN copies : n # name => copies'[n] = copies[n]
  BY <1>2 DEF WithFile
<1>9. CopyingInv'
  <2>1. /\ digests = <<>> /\ worker.does = "backup" /\ buffered = {} /\ pointer # ""
        /\ copying.todo \subseteq ToCopy /\ DOMAIN copies = ToCopy \ copying.todo
        /\ \A n \in DOMAIN copies : copies[n] = Directory[n]
        /\ snapshot = InLog \cup InTables
    BY <1>1, <1>6 DEF CopyingInv
  <2>2. DOMAIN copies' = ToCopy \ copying'.todo
    BY <1>2, <1>6, <1>7, <1>8, <2>1
  <2>3. \A n \in DOMAIN copies' : copies'[n] = Directory[n]
    BY <1>8, <2>1
  <2> QED BY <1>1, <1>3, <1>5, <1>7, <2>1, <2>2, <2>3 DEF CopyingInv
<1> QED BY <1>1, <1>3, <1>4, <1>9, BackupStays

LEMMA FinishKeeps ==
    ASSUME BackupInv, FinishBackup
    PROVE  BackupInv'
<1> USE DEF BackupInv
<1>1. /\ written' = written /\ buffered' = buffered /\ segments' = segments
      /\ waiting' = waiting /\ tableFiles' = tableFiles /\ named' = named
      /\ worker' = Free /\ digests' = copies /\ copies' = <<>> /\ copying' = NoBackup
      /\ snapshot' = snapshot /\ restored' = restored
      /\ copying.at = "copy" /\ copying.todo = {}
  BY DEF FinishBackup, storeVars
<1>2. LogCovers'
  BY <1>1, StoreStays
<1>3. BackupTypes' /\ WorkerHolds'
  BY <1>1 DEF BackupTypes, WorkerHolds, Free
<1>4. CopyingInv'
  BY <1>1 DEF CopyingInv, NoBackup
<1>5. restored = <<>>
  <2>1. copying.at # NoBackup.at
    BY <1>1 DEF NoBackup
  <2> QED BY <1>1, <2>1 DEF CopyingInv, BackupHolds
<1>6. BackupHolds'
  <2>1. /\ \A name \in DOMAIN copies : name = NameOf(name.kind, name.id)
        /\ {ManifestFile, CurrentFile} \subseteq DOMAIN copies
        /\ FilesOf("wal", copies) # {}
        /\ copies[ManifestFile] \subseteq FilesOf("sst", copies)
        /\ Opened(copies) = snapshot
    BY <1>1, CopiesAreExact
  <2>2. FilesOf("wal", digests)' = FilesOf("wal", copies)
        /\ FilesOf("sst", digests)' = FilesOf("sst", copies)
        /\ Opened(digests)' = Opened(copies)
    BY <1>1 DEF FilesOf, Opened
  <2> QED BY <1>1, <1>5, <2>1, <2>2 DEF BackupHolds, ManifestFile, CurrentFile
<1> QED BY <1>2, <1>3, <1>4, <1>6

LEMMA FailKeeps ==
    ASSUME BackupInv, BackupFails
    PROVE  BackupInv'
<1> USE DEF BackupInv
<1>1. /\ written' = written /\ buffered' = buffered /\ segments' = segments
      /\ waiting' = waiting /\ tableFiles' = tableFiles /\ named' = named
      /\ worker' \in {worker, Free} /\ digests' = digests /\ copies' = <<>>
      /\ copying' = NoBackup /\ snapshot' = snapshot /\ restored' = restored
  BY DEF BackupFails, storeVars
<1>2. LogCovers' /\ InTables' = InTables
  BY <1>1, StoreStays
<1>3. BackupTypes'
  BY <1>1 DEF BackupTypes
<1>4. WorkerHolds'
  BY <1>1, <1>2 DEF WorkerHolds, Free
<1>5. CopyingInv'
  BY <1>1 DEF CopyingInv, NoBackup
<1> QED BY <1>1, <1>2, <1>3, <1>4, <1>5, BackupStays

(* The backup may be spoiled, and what is restored is what its metadata    *)
(* says of it.                                                             *)
LEMMA RestoreKeeps ==
    ASSUME BackupInv, SpoilBackup \/ RestoreBackup
    PROVE  BackupInv'
<1> USE DEF BackupInv
<1>1. /\ written' = written /\ buffered' = buffered /\ segments' = segments
      /\ waiting' = waiting /\ tableFiles' = tableFiles /\ named' = named
      /\ pointer' = pointer /\ worker' = worker /\ digests' = digests
      /\ snapshot' = snapshot /\ copies' = copies /\ copying' = copying
  BY DEF SpoilBackup, RestoreBackup, storeVars
<1>2. LogCovers' /\ InTables' = InTables /\ InLog' = InLog
  BY <1>1, StoreStays
<1>3. BackupTypes' /\ WorkerHolds'
  BY <1>1, <1>2 DEF BackupTypes, WorkerHolds
<1>4. Directory' = Directory /\ ToCopy' = ToCopy
  BY <1>1 DEF Directory, ToCopy, ManifestFile, CurrentFile
<1>5. CopyingInv'
  BY <1>1, <1>2, <1>4 DEF CopyingInv
<1>6. CASE SpoilBackup
  <2>1. restored' = restored
    BY <1>6 DEF SpoilBackup
  <2> QED BY <1>1, <1>2, <1>3, <1>5, <2>1, BackupStays
<1>7. CASE RestoreBackup
  <2>1. /\ digests # <<>>
        /\ \A name \in DOMAIN digests : backupFiles[name] = digests[name]
        /\ restored' = [name \in DOMAIN digests |-> backupFiles[name]]
    BY <1>7 DEF RestoreBackup, Intact
  <2>2. DOMAIN restored' = DOMAIN digests
        /\ \A name \in DOMAIN digests : restored'[name] = digests[name]
    BY <2>1
  <2>3. /\ ManifestFile \in DOMAIN digests
        /\ digests[ManifestFile] \subseteq FilesOf("sst", digests)
        /\ Opened(digests) = snapshot
        /\ \A name \in DOMAIN digests : name = NameOf(name.kind, name.id)
    BY <2>1 DEF BackupHolds
  <2>4. \A kind : \A id \in FilesOf(kind, digests) : NameOf(kind, id) \in DOMAIN digests
    BY <2>3 DEF FilesOf
  <2>5. FilesOf("wal", restored') = FilesOf("wal", digests)
    BY <2>2 DEF FilesOf
  <2>6. restored'[ManifestFile] = digests[ManifestFile]
    BY <2>2, <2>3
  <2>7. UNION {restored'[NameOf("sst", t)] : t \in digests[ManifestFile]}
          = UNION {digests[NameOf("sst", t)] : t \in digests[ManifestFile]}
    <3>1. \A t \in digests[ManifestFile] :
            restored'[NameOf("sst", t)] = digests[NameOf("sst", t)]
      BY <2>2, <2>3, <2>4
    <3> QED BY <3>1
  <2>8. UNION {restored'[NameOf("wal", s)] : s \in FilesOf("wal", digests)}
          = UNION {digests[NameOf("wal", s)] : s \in FilesOf("wal", digests)}
    <3>1. \A s \in FilesOf("wal", digests) :
            restored'[NameOf("wal", s)] = digests[NameOf("wal", s)]
      BY <2>2, <2>4
    <3> QED BY <3>1
  <2>9. Opened(restored)' = snapshot'
    BY <1>1, <2>3, <2>5, <2>6, <2>7, <2>8 DEF Opened, ManifestFile
  <2>10. BackupHolds'
    <3>1. FilesOf("wal", digests)' = FilesOf("wal", digests)
          /\ FilesOf("sst", digests)' = FilesOf("sst", digests)
          /\ Opened(digests)' = Opened(digests)
      BY <1>1 DEF FilesOf, Opened
    <3> QED BY <1>1, <2>1, <2>9, <3>1 DEF BackupHolds, ManifestFile, CurrentFile
  <2> QED BY <1>2, <1>3, <1>5, <2>10
<1> QED BY <1>6, <1>7

LEMMA BackupInvStep == BackupInv /\ [BackupNext]_backupVars => BackupInv'
<1> SUFFICES ASSUME BackupInv, [BackupNext]_backupVars PROVE BackupInv'
  OBVIOUS
<1>1. CASE BackupNext
  BY <1>1, PutKeeps, FlushBufferKeeps, FreezeKeeps, WriteTableKeeps, PublishFlushKeeps,
     PublishCompactedKeeps, RemoveKeeps, CallKeeps, CheckpointKeeps, LockKeeps, CopyKeeps,
     FinishKeeps, FailKeeps, RestoreKeeps, CrashKeeps
     DEF BackupNext
<1>2. CASE UNCHANGED backupVars
  <2>1. /\ written' = written /\ buffered' = buffered /\ segments' = segments
        /\ waiting' = waiting /\ tableFiles' = tableFiles /\ named' = named
        /\ pointer' = pointer /\ worker' = worker /\ digests' = digests
        /\ snapshot' = snapshot /\ copies' = copies /\ copying' = copying
        /\ restored' = restored
    BY <1>2 DEF backupVars, storeVars, copyVars
  <2>2. LogCovers' /\ InTables' = InTables /\ InLog' = InLog
    BY <2>1, StoreStays DEF BackupInv
  <2>3. BackupTypes' /\ WorkerHolds'
    BY <2>1, <2>2 DEF BackupInv, BackupTypes, WorkerHolds
  <2>4. Directory' = Directory /\ ToCopy' = ToCopy
    BY <2>1 DEF Directory, ToCopy, ManifestFile, CurrentFile
  <2>5. CopyingInv'
    BY <2>1, <2>2, <2>4 DEF BackupInv, CopyingInv
  <2> QED BY <2>1, <2>2, <2>3, <2>5, BackupStays DEF BackupInv
<1> QED BY <1>1, <1>2

(* A backup holds exactly the writes there were when Backup took its locks,*)
(* and so does a directory that RestoreBackup made of it, whatever the     *)
(* store does before, meanwhile and after (backup.go).                     *)
THEOREM BackupsAreExact == BackupSpec => []BackupExact
<1>1. BackupInv => BackupExact
  <2> SUFFICES ASSUME BackupInv PROVE BackupExact
    OBVIOUS
  <2>1. digests # <<>> /\ backupFiles = digests => Intact /\ Opened(digests) = snapshot
    BY DEF BackupInv, BackupHolds, Intact
  <2> QED BY <2>1 DEF BackupInv, BackupHolds, BackupExact
<1> QED BY BackupInvInit, BackupInvStep, <1>1, PTL DEF BackupSpec

-----------------------------------------------------------------------------
(* Matcher.                                                                *)

LEMMA BoundedIsSeq ==
    ASSUME NEW S, NEW n \in Nat
    PROVE  BoundedSeq(S, n) \subseteq Seq(S)
<1> SUFFICES ASSUME NEW s \in BoundedSeq(S, n) PROVE s \in Seq(S)
  OBVIOUS
<1>1. PICK m \in 0..n : s \in [1..m -> S]
  BY Zenon DEF BoundedSeq, SeqOf
<1>2. m \in Nat
  OBVIOUS
<1>3. Seq(S) = UNION {[1..k -> S] : k \in Nat}
  BY SeqDef
<1>4. s \in UNION {[1..k -> S] : k \in Nat}
  BY <1>1, <1>2, Zenon
<1> QED BY <1>3, <1>4, Zenon

PatternPlaces == 1 .. Len(pattern) + 1
TargetPlaces == 1 .. Len(target) + 1

(* The pattern goes on behind the character or the class at p.             *)
Behind(p) == IF pattern[p] = "[" THEN Closing(p) + 1 ELSE p + 1

(* The character or the class at p takes the target's character at t.      *)
Takes(p, t) ==
    IF pattern[p] = "[" THEN InClass(p, target[t]) ELSE pattern[p] \in {"_", target[t]}

LEMMA ClosingIs ==
    ASSUME Len(pattern) \in Nat, NEW p \in 1 .. Len(pattern)
    PROVE  Closing(p) \in Nat /\ p < Closing(p) /\ Closing(p) <= Len(pattern) + 1
<1> DEFINE S == {Len(pattern) + 1} \cup {e \in p + 1 .. Len(pattern) : pattern[e] = "]"}
<1>1. S \in SUBSET Nat /\ S # {}
  OBVIOUS
<1>2. Min(S) \in S
  BY <1>1, LeastOfNaturals
<1>3. \A e \in S : e \in Nat /\ p < e /\ e <= Len(pattern) + 1
  OBVIOUS
<1>4. Closing(p) = Min(S)
  BY Zenon DEF Closing
<1> QED BY <1>2, <1>3, <1>4

FitsAt(fits, p) ==
    fits[p] = IF p > Len(pattern) THEN {Len(target) + 1}
              ELSE IF pattern[p] = "%"
              THEN {t \in 1 .. Len(target) + 1 : \E u \in fits[p + 1] : t <= u}
              ELSE IF pattern[p] = "["
              THEN {t \in 1 .. Len(target) :
                       InClass(p, target[t]) /\ t + 1 \in fits[Closing(p) + 1]}
              ELSE {t \in 1 .. Len(target) :
                       pattern[p] \in {"_", target[t]} /\ t + 1 \in fits[p + 1]}

LEMMA FitsExist ==
    ASSUME Len(pattern) \in Nat, Len(target) \in Nat
    PROVE  \E fits \in [PatternPlaces -> SUBSET TargetPlaces] : \A p \in PatternPlaces : FitsAt(fits, p)
<1> DEFINE S == SUBSET TargetPlaces
           stop == {p \in PatternPlaces : p > Len(pattern) \/ (pattern[p] = "[" /\ Closing(p) > Len(pattern))}
           base == [p \in PatternPlaces |-> IF p > Len(pattern) THEN {Len(target) + 1} ELSE {}]
           jump == [p \in PatternPlaces |-> Behind(p)]
           step == [p \in PatternPlaces |-> [x \in S |->
                      IF pattern[p] = "%" THEN {t \in TargetPlaces : \E u \in x : t <= u}
                      ELSE {t \in 1 .. Len(target) : Takes(p, t) /\ t + 1 \in x}]]
           n == Len(pattern) + 1
<1>1. \A p \in 1..n : p \in stop => base[p] \in S
  BY DEF PatternPlaces, TargetPlaces
<1>2. ASSUME NEW p \in 1..n, p \notin stop
      PROVE  jump[p] \in (p + 1)..n /\ \A x \in S : step[p][x] \in S
  <2>1. p \in 1 .. Len(pattern) /\ (pattern[p] = "[" => Closing(p) <= Len(pattern))
    <3>1. p \in 1 .. Len(pattern) /\ ~(pattern[p] = "[" /\ Closing(p) > Len(pattern))
      <4>1. p \in PatternPlaces /\ p \in Nat
        BY DEF PatternPlaces
      <4>2. ~(p > Len(pattern)) /\ ~(pattern[p] = "[" /\ Closing(p) > Len(pattern))
        BY <1>2, <4>1, Zenon
      <4> HIDE DEF stop, step, jump, base
      <4> QED BY <4>1, <4>2 DEF PatternPlaces
    <3> HIDE DEF stop, step, jump, base
    <3> QED BY <3>1, ClosingIs
  <2>2. jump[p] \in (p + 1)..n
    BY <2>1, ClosingIs DEF PatternPlaces, Behind
  <2>3. \A x \in S : step[p][x] \in S
    <3> SUFFICES ASSUME NEW x \in S PROVE step[p][x] \in S
      OBVIOUS
    <3>1. step[p][x] = IF pattern[p] = "%" THEN {t \in TargetPlaces : \E u \in x : t <= u}
                       ELSE {t \in 1 .. Len(target) : Takes(p, t) /\ t + 1 \in x}
      BY DEF PatternPlaces
    <3>2. 1 .. Len(target) \subseteq TargetPlaces
      BY DEF TargetPlaces
    <3> DEFINE y == step[p][x]
    <3> HIDE DEF y, step
    <3>3. CASE pattern[p] = "%"
      BY <3>1, <3>3 DEF y
    <3>4. CASE pattern[p] # "%"
      BY <3>1, <3>2, <3>4 DEF y
    <3> QED BY <3>3, <3>4
  <2> QED BY <2>2, <2>3
<1> HIDE DEF stop, base, jump, step, S
<1>3. PICK f \in [1..n -> S] : Follows(f, n, stop, base, jump, step)
  <2>1. n \in Nat
    OBVIOUS
  <2> HIDE DEF n
  <2>2. Jumps(n, S, stop, base, jump, step)
    BY <1>1, <1>2 DEF Jumps
  <2> QED BY <2>1, <2>2, JumpRecursion
<1>4. ASSUME NEW p \in PatternPlaces PROVE FitsAt(f, p)
  <2>1. f[p] = IF p \in stop THEN base[p] ELSE step[p][f[jump[p]]]
    BY <1>3 DEF PatternPlaces, Follows
  <2>2. CASE p > Len(pattern)
    <3>1. f[p] = {Len(target) + 1}
      <4>1. p \in stop
        BY <2>2, Zenon DEF stop
      <4>2. base[p] = {Len(target) + 1}
        BY <2>2, Zenon DEF base
      <4> QED BY <2>1, <4>1, <4>2
    <3> QED BY <2>2, <3>1, Zenon DEF FitsAt
  <2>3. CASE p <= Len(pattern) /\ p \in stop
    <3>1. f[p] = {} /\ pattern[p] = "[" /\ Closing(p) > Len(pattern)
      BY <2>1, <2>3 DEF stop, base, PatternPlaces
    <3>2. Closing(p) \in Nat
      BY <2>3, ClosingIs DEF PatternPlaces
    <3>3. \A t : ~InClass(p, t)
      BY <3>1, <3>2 DEF InClass
    <3>4. {t \in 1 .. Len(target) : InClass(p, target[t]) /\ t + 1 \in f[Closing(p) + 1]} = {}
      BY <3>3
    <3>5. p \in Nat /\ ~(p > Len(pattern)) /\ pattern[p] # "%"
      BY <2>3, <3>1 DEF PatternPlaces
    <3> QED BY <3>1, <3>4, <3>5, Zenon DEF FitsAt
  <2>4. CASE p <= Len(pattern) /\ p \notin stop
    <3>1. jump[p] \in 1..n /\ jump[p] = Behind(p) /\ p \in 1..n
      BY <1>2, <2>4 DEF PatternPlaces, jump
    <3>2. f[Behind(p)] \in S
      BY <1>3, <3>1
    <3>3. f[p] = IF pattern[p] = "%" THEN {t \in TargetPlaces : \E u \in f[Behind(p)] : t <= u}
                 ELSE {t \in 1 .. Len(target) : Takes(p, t) /\ t + 1 \in f[Behind(p)]}
      <4>1. f[p] = step[p][f[Behind(p)]]
        BY <2>1, <2>4, <3>1
      <4> QED BY <3>2, <4>1 DEF step
    <3>4. p \in Nat /\ ~(p > Len(pattern))
      BY <2>4 DEF PatternPlaces
    <3>5. CASE pattern[p] = "%"
      <4>1. Behind(p) = p + 1
        BY <3>5 DEF Behind
      <4> QED BY <3>3, <3>4, <3>5, <4>1, Zenon DEF FitsAt, TargetPlaces
    <3>6. CASE pattern[p] = "["
      <4>1. Behind(p) = Closing(p) + 1 /\ \A t : Takes(p, t) <=> InClass(p, target[t])
        BY <3>6, Zenon DEF Behind, Takes
      <4>2. pattern[p] # "%"
        BY <3>6
      <4>3. f[p] = {t \in 1 .. Len(target) : InClass(p, target[t]) /\ t + 1 \in f[Closing(p) + 1]}
        BY <3>3, <4>1, <4>2
      <4> QED BY <3>4, <3>6, <4>2, <4>3, Zenon DEF FitsAt
    <3>7. CASE pattern[p] # "%" /\ pattern[p] # "["
      <4>1. Behind(p) = p + 1 /\ \A t : Takes(p, t) <=> pattern[p] \in {"_", target[t]}
        BY <3>7, Zenon DEF Behind, Takes
      <4>2. f[p] = {t \in 1 .. Len(target) :
                       pattern[p] \in {"_", target[t]} /\ t + 1 \in f[p + 1]}
        BY <3>3, <3>7, <4>1
      <4> QED BY <3>4, <3>7, <4>2, Zenon DEF FitsAt
    <3> QED BY <3>5, <3>6, <3>7
  <2> QED BY <2>2, <2>3, <2>4 DEF PatternPlaces
<1> QED BY <1>3, <1>4 DEF PatternPlaces, S

LEMMA FitsAre ==
    ASSUME Len(pattern) \in Nat, Len(target) \in Nat
    PROVE  Beginnings \in [PatternPlaces -> SUBSET TargetPlaces] /\ \A p \in PatternPlaces : FitsAt(Beginnings, p)
<1> DEFINE Of(fits) == [p \in 1 .. Len(pattern) + 1 |->
              IF p > Len(pattern) THEN {Len(target) + 1}
              ELSE IF pattern[p] = "%"
              THEN {t \in 1 .. Len(target) + 1 : \E u \in fits[p + 1] : t <= u}
              ELSE IF pattern[p] = "["
              THEN {t \in 1 .. Len(target) :
                       InClass(p, target[t]) /\ t + 1 \in fits[Closing(p) + 1]}
              ELSE {t \in 1 .. Len(target) :
                       pattern[p] \in {"_", target[t]} /\ t + 1 \in fits[p + 1]}]
<1>1. Beginnings = CHOOSE fits : fits = Of(fits)
  BY Zenon DEF Beginnings
<1>2. PICK f \in [PatternPlaces -> SUBSET TargetPlaces] : \A p \in PatternPlaces : FitsAt(f, p)
  BY FitsExist
<1>3. f = Of(f)
  <2>1. DOMAIN f = PatternPlaces /\ f = [p \in PatternPlaces |-> f[p]]
    OBVIOUS
  <2>2. \A p \in PatternPlaces : f[p] = Of(f)[p]
    BY <1>2, Zenon DEF FitsAt, PatternPlaces
  <2>3. DOMAIN Of(f) = PatternPlaces /\ Of(f) = [p \in PatternPlaces |-> Of(f)[p]]
    BY DEF PatternPlaces
  <2> HIDE DEF Of
  <2> QED BY <2>1, <2>2, <2>3
<1>4. Beginnings = Of(Beginnings)
  <2> HIDE DEF Of
  <2> QED BY <1>1, <1>3
<1>5. \A p \in PatternPlaces : FitsAt(Beginnings, p)
  <2> DEFINE g == Beginnings
  <2>1. g = Of(g)
    BY <1>4
  <2> HIDE DEF g
  <2>2. \A p \in PatternPlaces : FitsAt(g, p)
    BY <2>1, Zenon DEF FitsAt, PatternPlaces
  <2> QED BY <2>2 DEF g
<1>6. Beginnings = [p \in PatternPlaces |-> Beginnings[p]]
  <2>1. DOMAIN Of(Beginnings) = PatternPlaces
    BY DEF PatternPlaces
  <2>2. Of(Beginnings) = [p \in DOMAIN Of(Beginnings) |-> Of(Beginnings)[p]]
    OBVIOUS
  <2> HIDE DEF Of
  <2> QED BY <1>4, <2>1, <2>2
<1>7. ASSUME NEW p \in PatternPlaces PROVE Beginnings[p] \subseteq TargetPlaces
  <2>1. FitsAt(Beginnings, p)
    BY <1>5
  <2>2. {Len(target) + 1} \subseteq TargetPlaces /\ 1 .. Len(target) \subseteq TargetPlaces
    BY DEF TargetPlaces
  <2> QED BY <2>1, <2>2 DEF FitsAt, TargetPlaces
<1> QED BY <1>5, <1>6, <1>7

MatcherTypes ==
    /\ Len(pattern) \in Nat
    /\ Len(target) \in Nat
    /\ \A t \in 1 .. Len(target) : target[t] \in Letter
    /\ pi \in PatternPlaces
    /\ ti \in TargetPlaces
    /\ star \in 0 .. Len(pattern)
    /\ matchIdx \in 1 .. ti
    /\ verdict \in {"none", "yes", "no"}

(* Until the matcher has seen a % it is where a match has to go on.        *)
NoStar == star = 0 => (Matches <=> ti \in Beginnings[pi])

(* From then on what comes behind the last % has to begin at matchIdx or   *)
(* later.  All that begins there gets, in as many characters, to where the *)
(* matcher is in the pattern, and the matcher has come here from matchIdx. *)
AfterStar ==
    star # 0 =>
        /\ star + 1 \in PatternPlaces
        /\ Matches <=> \E t \in Beginnings[star + 1] : matchIdx <= t
        /\ \A t \in Beginnings[star + 1] :
              matchIdx <= t => t + (ti - matchIdx) \in Beginnings[pi]
        /\ ti \in Beginnings[pi] => matchIdx \in Beginnings[star + 1]

MatcherInv ==
    /\ MatcherTypes
    /\ verdict = "none" => NoStar /\ AfterStar
    /\ MatcherExact

LEMMA FitsStays ==
    ASSUME pattern' = pattern, target' = target
    PROVE  Beginnings' = Beginnings /\ (Matches' <=> Matches)
<1>1. Beginnings' = Beginnings
  BY SMT DEF Beginnings, InClass, Closing
<1> QED BY <1>1 DEF Matches

LEMMA MatcherInvInit ==
    ASSUME MatcherInit
    PROVE  MatcherInv
<1>1. Len(pattern) \in Nat
  <2> DEFINE P == Letter \cup {"%", "_", "[", "]"}
  <2>1. PICK asked \in BoundedSeq(P, MaxPattern) :
           pattern \in {asked, <<"%">> \o asked \o <<"%">>}
    BY DEF MatcherInit
  <2>2. asked \in Seq(P)
    BY <2>1, BoundedIsSeq, MatcherAssumption
  <2>3. "%" \in P
    OBVIOUS
  <2> HIDE DEF P
  <2>4. <<"%">> \o asked \o <<"%">> \in Seq(P)
    BY <2>2, <2>3
  <2> QED BY <2>1, <2>2, <2>4
<1>2. Len(target) \in Nat /\ \A t \in 1 .. Len(target) : target[t] \in Letter
  <2>1. target \in BoundedSeq(Letter, MaxTarget)
    BY DEF MatcherInit
  <2>2. target \in Seq(Letter)
    BY <2>1, BoundedIsSeq, MatcherAssumption
  <2> QED BY <2>2
<1>3. MatcherTypes
  <2>1. pi = 1 /\ ti = 1 /\ star = 0 /\ matchIdx = 1 /\ verdict = "none"
    BY DEF MatcherInit
  <2> QED BY <1>1, <1>2, <2>1 DEF MatcherTypes, PatternPlaces, TargetPlaces
<1>4. NoStar /\ AfterStar /\ MatcherExact
  BY DEF MatcherInit, NoStar, AfterStar, MatcherExact, Matches
<1> QED BY <1>3, <1>4 DEF MatcherInv

LEMMA FitsOf ==
    ASSUME MatcherTypes, NEW p \in 1 .. Len(pattern)
    PROVE  /\ p + 1 \in PatternPlaces
           /\ pattern[p] = "%" =>
                 \A t \in TargetPlaces : t \in Beginnings[p] <=> \E u \in Beginnings[p + 1] : t <= u
           /\ pattern[p] # "%" =>
                 \A t : t \in Beginnings[p] <=>
                    t \in 1 .. Len(target) /\ Takes(p, t) /\ t + 1 \in Beginnings[Behind(p)]
<1>1. p \in PatternPlaces /\ p + 1 \in PatternPlaces /\ p \in Nat /\ ~(p > Len(pattern))
  BY DEF PatternPlaces, MatcherTypes
<1>2. FitsAt(Beginnings, p)
  BY <1>1, FitsAre DEF MatcherTypes
<1>3. CASE pattern[p] = "%"
  <2>1. Beginnings[p] = {t \in TargetPlaces : \E u \in Beginnings[p + 1] : t <= u}
    BY <1>1, <1>2, <1>3, Zenon DEF FitsAt, TargetPlaces
  <2> QED BY <1>1, <1>3, <2>1
<1>4. CASE pattern[p] = "["
  <2>1. pattern[p] # "%"
    BY <1>4
  <2>2. Beginnings[p] = {t \in 1 .. Len(target) :
                      InClass(p, target[t]) /\ t + 1 \in Beginnings[Closing(p) + 1]}
    BY <1>1, <1>2, <1>4, <2>1, Zenon DEF FitsAt
  <2>3. Behind(p) = Closing(p) + 1 /\ \A t : Takes(p, t) <=> InClass(p, target[t])
    BY <1>4, Zenon DEF Behind, Takes
  <2> QED BY <1>1, <2>1, <2>2, <2>3
<1>5. CASE pattern[p] # "%" /\ pattern[p] # "["
  <2>1. Beginnings[p] = {t \in 1 .. Len(target) :
                      pattern[p] \in {"_", target[t]} /\ t + 1 \in Beginnings[p + 1]}
    BY <1>1, <1>2, <1>5, Zenon DEF FitsAt
  <2>2. Behind(p) = p + 1 /\ \A t : Takes(p, t) <=> pattern[p] \in {"_", target[t]}
    BY <1>5, Zenon DEF Behind, Takes
  <2> QED BY <1>1, <1>5, <2>1, <2>2
<1> QED BY <1>3, <1>4, <1>5

(* The matcher takes one character where what it takes fits.               *)
LEMMA OneFitsIs ==
    ASSUME MatcherTypes, Looping
    PROVE  /\ ti \in 1 .. Len(target)
           /\ OneFits <=> pi <= Len(pattern) /\ pattern[pi] # "%" /\ Takes(pi, ti)
           /\ OneFits => /\ pi \in 1 .. Len(pattern) /\ Behind(pi) \in PatternPlaces
                         /\ Behind(pi) = (IF pattern[pi] = "[" THEN Closing(pi) ELSE pi) + 1
<1>1. ti \in 1 .. Len(target) /\ pi \in Nat /\ 1 <= pi
  BY DEF Looping, MatcherTypes, TargetPlaces, PatternPlaces
<1>2. OneFits <=> pi <= Len(pattern) /\ pattern[pi] # "%" /\ Takes(pi, ti)
  <2>1. target[ti] \in Letter /\ target[ti] \notin {"%", "_", "["}
    BY <1>1, MatcherAssumption DEF MatcherTypes
  <2>2. CASE pattern[pi] = "["
    BY <2>2 DEF OneFits, Takes
  <2>3. CASE pattern[pi] = "_"
    BY <2>3 DEF OneFits, Takes
  <2>4. CASE pattern[pi] = "%"
    BY <2>4 DEF OneFits, Takes
  <2>5. CASE pattern[pi] \notin {"[", "_", "%"}
    BY <2>5 DEF OneFits, Takes
  <2> QED BY <2>2, <2>3, <2>4, <2>5
<1>3. ASSUME OneFits
      PROVE  /\ pi \in 1 .. Len(pattern) /\ Behind(pi) \in PatternPlaces
             /\ Behind(pi) = (IF pattern[pi] = "[" THEN Closing(pi) ELSE pi) + 1
  <2>1. pi \in 1 .. Len(pattern)
    BY <1>1, <1>2, <1>3
  <2>2. pattern[pi] = "[" => Closing(pi) <= Len(pattern)
    BY <1>2, <1>3 DEF Takes, InClass
  <2>3. Closing(pi) \in Nat /\ pi < Closing(pi)
    BY <2>1, ClosingIs DEF MatcherTypes
  <2>4. Len(pattern) \in Nat
    BY DEF MatcherTypes
  <2> QED BY <2>1, <2>2, <2>3, <2>4 DEF Behind, PatternPlaces
<1> QED BY <1>1, <1>2, <1>3

LEMMA TakeOneKeeps ==
    ASSUME MatcherInv, TakeOne
    PROVE  MatcherInv'
<1> USE DEF MatcherInv
<1>1. /\ verdict = "none" /\ verdict' = verdict /\ pattern' = pattern /\ target' = target
      /\ star' = star /\ matchIdx' = matchIdx
      /\ ti' = ti + 1 /\ OneFits /\ Looping
  BY DEF TakeOne, Looping
<1>2. pi' = Behind(pi) /\ pi' \in PatternPlaces /\ pi \in 1 .. Len(pattern)
      /\ ti \in 1 .. Len(target) /\ pattern[pi] # "%" /\ Takes(pi, ti)
  BY <1>1, OneFitsIs DEF TakeOne
<1>3. Beginnings' = Beginnings /\ (Matches' <=> Matches)
  BY <1>1, FitsStays
<1>4. \A t : t \in Beginnings[pi] <=>
         t \in 1 .. Len(target) /\ Takes(pi, t) /\ t + 1 \in Beginnings[Behind(pi)]
  BY <1>2, FitsOf
<1>5. MatcherTypes'
  BY <1>1, <1>2 DEF MatcherTypes, PatternPlaces, TargetPlaces
<1>6. ti \in Beginnings[pi] <=> ti + 1 \in Beginnings[pi']
  BY <1>2, <1>4
<1>7. NoStar'
  BY <1>1, <1>3, <1>6 DEF NoStar
<1>8. AfterStar'
  <2> SUFFICES ASSUME star # 0 PROVE AfterStar'
    BY <1>1 DEF AfterStar
  <2>1. (PatternPlaces)' = PatternPlaces
    BY <1>1 DEF PatternPlaces
  <2>2. ASSUME NEW t \in Beginnings[star + 1], matchIdx <= t
        PROVE  t + ((ti + 1) - matchIdx) \in Beginnings[pi']
    <3>1. t + (ti - matchIdx) \in Beginnings[pi]
      BY <1>1, <2>2 DEF AfterStar
    <3>2. (t + (ti - matchIdx)) + 1 \in Beginnings[pi']
      BY <1>2, <1>4, <3>1
    <3>3. t \in Nat
      <4>1. star + 1 \in PatternPlaces /\ Beginnings \in [PatternPlaces -> SUBSET TargetPlaces]
        BY <1>1, FitsAre DEF MatcherTypes, AfterStar
      <4> QED BY <2>2, <4>1 DEF MatcherTypes, TargetPlaces
    <3>4. (t + (ti - matchIdx)) + 1 = t + ((ti + 1) - matchIdx)
      BY <1>2, <3>3 DEF MatcherTypes
    <3> QED BY <3>2, <3>4
  <2> QED BY <1>1, <1>3, <1>6, <2>1, <2>2 DEF AfterStar
<1> QED BY <1>1, <1>5, <1>7, <1>8 DEF MatcherExact

LEMMA TakePercentKeeps ==
    ASSUME MatcherInv, TakePercent
    PROVE  MatcherInv'
<1> USE DEF MatcherInv
<1>1. /\ verdict = "none" /\ verdict' = verdict /\ pattern' = pattern /\ target' = target
      /\ star' = pi /\ matchIdx' = ti /\ pi' = pi + 1 /\ ti' = ti /\ ti <= Len(target)
      /\ pi \in 1 .. Len(pattern) /\ pattern[pi] = "%"
  BY DEF TakePercent, Looping, AtPercent, MatcherTypes, PatternPlaces
<1>2. Beginnings' = Beginnings /\ (Matches' <=> Matches)
  BY <1>1, FitsStays
<1>3. \A t \in TargetPlaces : t \in Beginnings[pi] <=> \E u \in Beginnings[pi + 1] : t <= u
  BY <1>1, FitsOf
<1>4. pi + 1 \in PatternPlaces /\ (PatternPlaces)' = PatternPlaces /\ (TargetPlaces)' = TargetPlaces
  BY <1>1 DEF PatternPlaces, TargetPlaces, MatcherTypes
<1>5. MatcherTypes'
  BY <1>1, <1>4 DEF MatcherTypes, TargetPlaces
<1>6. Beginnings \in [PatternPlaces -> SUBSET TargetPlaces] /\ TargetPlaces \subseteq Nat
  BY FitsAre DEF MatcherTypes, TargetPlaces
<1>7. Matches <=> \E u \in Beginnings[pi + 1] : ti <= u
  <2>1. ti \in TargetPlaces
    BY DEF MatcherTypes
  <2>2. CASE star = 0
    BY <1>1, <1>3, <2>1, <2>2 DEF NoStar
  <2>3. CASE star # 0
    <3>1. star + 1 \in PatternPlaces /\ star \in Nat /\ matchIdx \in Nat /\ matchIdx <= ti /\ ti \in Nat
      BY <1>1, <2>1, <2>3 DEF AfterStar, MatcherTypes, TargetPlaces
    <3>2. ASSUME Matches PROVE \E u \in Beginnings[pi + 1] : ti <= u
      <4>1. PICK t \in Beginnings[star + 1] : matchIdx <= t
        BY <1>1, <2>3, <3>2 DEF AfterStar
      <4>2. t + (ti - matchIdx) \in Beginnings[pi]
        BY <1>1, <2>3, <4>1 DEF AfterStar
      <4>3. t \in Nat /\ pi \in PatternPlaces
        BY <1>6, <3>1, <4>1 DEF MatcherTypes
      <4> DEFINE v == t + (ti - matchIdx)
      <4>4. ti <= v /\ v \in TargetPlaces
        BY <1>6, <3>1, <4>1, <4>2, <4>3
      <4>5. PICK u \in Beginnings[pi + 1] : v <= u
        BY <1>3, <4>2, <4>4
      <4>6. u \in Nat /\ v \in Nat
        BY <1>4, <1>6, <4>4
      <4> HIDE DEF v
      <4> QED BY <3>1, <4>4, <4>5, <4>6
    <3>3. ASSUME NEW u \in Beginnings[pi + 1], ti <= u PROVE Matches
      <4>1. ti \in Beginnings[pi]
        BY <1>3, <2>1, <3>3
      <4>2. matchIdx \in Beginnings[star + 1]
        BY <1>1, <2>3, <4>1 DEF AfterStar
      <4> QED BY <1>1, <2>3, <3>1, <4>2 DEF AfterStar
    <3> QED BY <3>2, <3>3
  <2> QED BY <2>2, <2>3
<1>8. NoStar'
  BY <1>1 DEF NoStar
<1>9. AfterStar'
  <2>1. \A t \in Beginnings[pi + 1] : t \in Nat
    BY <1>4, <1>6
  <2>2. ti \in Nat
    BY DEF MatcherTypes, TargetPlaces
  <2>3. \A t \in Beginnings[pi + 1] : t + (ti - ti) \in Beginnings[pi + 1]
    BY <2>1, <2>2
  <2> QED BY <1>1, <1>2, <1>4, <1>7, <2>3 DEF AfterStar
<1> QED BY <1>1, <1>5, <1>8, <1>9 DEF MatcherExact

LEMMA BacktrackKeeps ==
    ASSUME MatcherInv, Backtrack
    PROVE  MatcherInv'
<1> USE DEF MatcherInv
<1>1. /\ verdict = "none" /\ pattern' = pattern /\ target' = target /\ star' = star
      /\ ~AtPercent /\ ~OneFits /\ Looping
  BY DEF Backtrack, Looping
<1>2. Beginnings' = Beginnings /\ (Matches' <=> Matches) /\ (PatternPlaces)' = PatternPlaces /\ (TargetPlaces)' = TargetPlaces
  BY <1>1, FitsStays DEF PatternPlaces, TargetPlaces
<1>3. ti \in 1 .. Len(target) /\ Len(target) \in Nat
  BY <1>1, OneFitsIs DEF MatcherTypes
<1>4. ti \notin Beginnings[pi]
  <2>1. CASE pi <= Len(pattern)
    <3>1. pi \in 1 .. Len(pattern) /\ pattern[pi] # "%"
      BY <1>1, <2>1 DEF AtPercent, MatcherTypes, PatternPlaces
    <3>2. ~Takes(pi, ti)
      BY <1>1, <2>1, <3>1, OneFitsIs
    <3> QED BY <3>1, <3>2, FitsOf
  <2>2. CASE ~(pi <= Len(pattern))
    <3>1. pi \in PatternPlaces /\ pi > Len(pattern)
      BY <2>2 DEF MatcherTypes, PatternPlaces
    <3>2. Beginnings[pi] = {Len(target) + 1}
      BY <3>1, FitsAre, Zenon DEF FitsAt, MatcherTypes
    <3> QED BY <1>3, <3>2
  <2> QED BY <2>1, <2>2
<1>5. CASE star = 0
  <2>1. verdict' = "no" /\ pi' = pi /\ ti' = ti /\ matchIdx' = matchIdx
    BY <1>5 DEF Backtrack
  <2>2. ~Matches
    BY <1>1, <1>4, <1>5 DEF NoStar
  <2>3. MatcherTypes'
    BY <1>1, <1>2, <2>1 DEF MatcherTypes
  <2> QED BY <1>2, <2>1, <2>2, <2>3 DEF MatcherExact
<1>6. CASE star # 0
  <2>1. /\ verdict' = verdict /\ pi' = star + 1 /\ ti' = matchIdx + 1 /\ matchIdx' = matchIdx + 1
    BY <1>6 DEF Backtrack, Resume
  <2>2. star + 1 \in PatternPlaces /\ matchIdx + 1 \in TargetPlaces /\ matchIdx \in Nat
    BY <1>1, <1>3, <1>6 DEF AfterStar, MatcherTypes, TargetPlaces
  <2>3. MatcherTypes'
    BY <1>1, <1>2, <2>1, <2>2 DEF MatcherTypes
  <2>4. matchIdx \notin Beginnings[star + 1]
    <3> SUFFICES ASSUME matchIdx \in Beginnings[star + 1] PROVE FALSE
      OBVIOUS
    <3>1. matchIdx + (ti - matchIdx) \in Beginnings[pi]
      BY <1>1, <1>6, <2>2 DEF AfterStar
    <3>2. matchIdx + (ti - matchIdx) = ti
      BY <1>3, <2>2
    <3> QED BY <1>4, <3>1, <3>2
  <2>5. \A t \in Beginnings[star + 1] : t \in Nat
    BY <2>2, FitsAre DEF MatcherTypes, TargetPlaces
  <2>6. Matches <=> \E t \in Beginnings[star + 1] : matchIdx + 1 <= t
    <3>1. \A t \in Beginnings[star + 1] : matchIdx <= t <=> matchIdx + 1 <= t
      BY <2>2, <2>4, <2>5
    <3> QED BY <1>1, <1>6, <3>1 DEF AfterStar
  <2>7. \A t \in Beginnings[star + 1] : t + ((matchIdx + 1) - (matchIdx + 1)) \in Beginnings[star + 1]
    BY <2>2, <2>5
  <2>8. AfterStar'
    BY <1>1, <1>2, <2>1, <2>2, <2>6, <2>7 DEF AfterStar
  <2>9. NoStar'
    BY <1>1, <1>6 DEF NoStar
  <2> QED BY <1>1, <2>1, <2>3, <2>8, <2>9 DEF MatcherExact
<1> QED BY <1>5, <1>6

(* At the end of the target only a % fits, any number of times.            *)
LEMMA EndFits ==
    ASSUME MatcherTypes, NEW p \in PatternPlaces
    PROVE  Len(target) + 1 \in Beginnings[p]
              <=> \A i \in p .. Len(pattern) : pattern[i] = "%"
<1> DEFINE L == Len(pattern)
           T == Len(target)
           Right(q) == T + 1 \in Beginnings[q] <=> \A i \in q .. L : pattern[i] = "%"
           Bad == {d \in 0 .. L : ~Right(L + 1 - d)}
<1>1. L \in Nat /\ T \in Nat /\ Beginnings \in [PatternPlaces -> SUBSET TargetPlaces]
  BY FitsAre DEF MatcherTypes
<1>2. Bad = {}
  <2> SUFFICES ASSUME Bad # {} PROVE FALSE
    OBVIOUS
  <2> HIDE DEF Right
  <2>1. Bad \in SUBSET Nat
    BY <1>1
  <2>2. PICK d \in Bad : \A e \in Bad : d <= e
    BY <2>1, LeastOfNaturals
  <2>3. d \in 0 .. L /\ ~Right(L + 1 - d)
    OBVIOUS
  <2> DEFINE q == L + 1 - d
  <2>4. CASE d = 0
    <3>1. q = L + 1 /\ q \in PatternPlaces /\ q > L
      BY <1>1, <2>4 DEF PatternPlaces
    <3>2. Beginnings[q] = {T + 1}
      BY <1>1, <3>1, FitsAre, Zenon DEF FitsAt
    <3>3. q .. L = {}
      BY <1>1, <3>1
    <3>4. Right(q)
      BY <3>2, <3>3 DEF Right
    <3> QED BY <2>3, <3>4
  <2>5. CASE d # 0
    <3>1. q \in 1 .. L /\ d - 1 \in 0 .. L /\ L + 1 - (d - 1) = q + 1 /\ q + 1 \in PatternPlaces
          /\ L \in Nat
      BY <1>1, <2>3, <2>5 DEF PatternPlaces
    <3>2. Right(q + 1)
      BY <2>2, <2>3, <2>5, <3>1
    <3> HIDE DEF q
    <3>3. CASE pattern[q] = "%"
      <4>1. \A t \in TargetPlaces : t \in Beginnings[q] <=> \E u \in Beginnings[q + 1] : t <= u
        BY <3>1, <3>3, FitsOf
      <4>2. T + 1 \in TargetPlaces /\ \A u \in Beginnings[q + 1] : u \in TargetPlaces
        BY <1>1, <3>1 DEF TargetPlaces
      <4>3. \A u \in TargetPlaces : T + 1 <= u <=> u = T + 1
        BY <1>1 DEF TargetPlaces
      <4>4. T + 1 \in Beginnings[q] <=> T + 1 \in Beginnings[q + 1]
        BY <4>1, <4>2, <4>3
      <4>5. q .. L = {q} \cup (q + 1) .. L
        BY <3>1
      <4>6. Right(q)
        BY <3>2, <3>3, <4>4, <4>5 DEF Right
      <4> QED BY <2>3, <4>6 DEF q
    <3>4. CASE pattern[q] # "%"
      <4>1. T + 1 \notin Beginnings[q]
        BY <1>1, <3>1, <3>4, FitsOf
      <4>2. q \in q .. L
        BY <3>1
      <4>3. Right(q)
        BY <3>4, <4>1, <4>2 DEF Right
      <4> QED BY <2>3, <4>3 DEF q
    <3> QED BY <3>3, <3>4
  <2> QED BY <2>4, <2>5
<1>3. L + 1 - p \in 0 .. L /\ L + 1 - (L + 1 - p) = p
  BY <1>1 DEF PatternPlaces
<1>4. Right(p)
  <2> HIDE DEF Right
  <2> QED BY <1>2, <1>3
<1> QED BY <1>4

LEMMA MatcherFinishKeeps ==
    ASSUME MatcherInv, Finish
    PROVE  MatcherInv'
<1> USE DEF MatcherInv
<1>1. /\ verdict = "none" /\ pattern' = pattern /\ target' = target /\ pi' = pi /\ ti' = ti
      /\ star' = star /\ matchIdx' = matchIdx /\ ~(ti <= Len(target))
      /\ verdict' \in {"yes", "no"}
      /\ verdict' = "yes" <=> \A i \in pi .. Len(pattern) : pattern[i] = "%"
  BY DEF Finish, MatcherTypes, TargetPlaces
<1>2. Beginnings' = Beginnings /\ (Matches' <=> Matches) /\ (PatternPlaces)' = PatternPlaces /\ (TargetPlaces)' = TargetPlaces
  BY <1>1, FitsStays DEF PatternPlaces, TargetPlaces
<1>3. ti = Len(target) + 1 /\ pi \in PatternPlaces /\ ti \in Nat /\ Len(target) \in Nat
  BY <1>1 DEF MatcherTypes, TargetPlaces
<1>4. ti \in Beginnings[pi] <=> \A i \in pi .. Len(pattern) : pattern[i] = "%"
  BY <1>3, EndFits
<1>5. Matches <=> ti \in Beginnings[pi]
  <2>1. CASE star = 0
    BY <1>1, <2>1 DEF NoStar
  <2>2. CASE star # 0
    <3>1. star + 1 \in PatternPlaces /\ matchIdx \in Nat /\ matchIdx <= ti
      BY <1>1, <1>3, <2>2 DEF AfterStar, MatcherTypes
    <3>2. \A q \in PatternPlaces : \A t \in Beginnings[q] : t \in Nat /\ t <= ti
      BY <1>3, FitsAre DEF MatcherTypes, TargetPlaces
    <3>3. ASSUME Matches PROVE ti \in Beginnings[pi]
      <4>1. PICK t \in Beginnings[star + 1] : matchIdx <= t
        BY <1>1, <2>2, <3>3 DEF AfterStar
      <4>2. t + (ti - matchIdx) \in Beginnings[pi]
        BY <1>1, <2>2, <4>1 DEF AfterStar
      <4>3. t + (ti - matchIdx) <= ti
        BY <1>3, <3>2, <4>2
      <4>4. t + (ti - matchIdx) = ti
        BY <1>3, <3>1, <3>2, <4>1, <4>3
      <4> QED BY <4>2, <4>4
    <3>4. ASSUME ti \in Beginnings[pi] PROVE Matches
      BY <1>1, <2>2, <3>1, <3>4 DEF AfterStar
    <3> QED BY <3>3, <3>4
  <2> QED BY <2>1, <2>2
<1>6. MatcherTypes'
  BY <1>1, <1>2 DEF MatcherTypes
<1> QED BY <1>1, <1>2, <1>4, <1>5, <1>6 DEF MatcherExact

LEMMA MatcherInvStep ==
    ASSUME MatcherInv, [MatcherNext]_matcherVars
    PROVE  MatcherInv'
<1>1. CASE UNCHANGED matcherVars
  <2>1. /\ pattern' = pattern /\ target' = target /\ pi' = pi /\ ti' = ti
        /\ star' = star /\ matchIdx' = matchIdx /\ verdict' = verdict
    BY <1>1 DEF matcherVars
  <2>2. Beginnings' = Beginnings /\ (Matches' <=> Matches) /\ (PatternPlaces)' = PatternPlaces /\ (TargetPlaces)' = TargetPlaces
    BY <2>1, FitsStays DEF PatternPlaces, TargetPlaces
  <2>3. MatcherTypes'
    BY <2>1, <2>2 DEF MatcherTypes, MatcherInv
  <2>4. (NoStar' <=> NoStar) /\ (MatcherExact' <=> MatcherExact)
    BY <2>1, <2>2 DEF NoStar, MatcherExact
  <2>5. AfterStar' <=> AfterStar
    BY <2>1, <2>2 DEF AfterStar
  <2> QED BY <2>1, <2>3, <2>4, <2>5 DEF MatcherInv
<1> QED BY <1>1, TakeOneKeeps, TakePercentKeeps, BacktrackKeeps, MatcherFinishKeeps DEF MatcherNext

(* The matcher, which remembers only the last % and never goes back behind *)
(* it, answers what a search through all the ways to fit the pattern would *)
(* (match.go), for any pattern, target and alphabet.                       *)
THEOREM MatcherAnswersRight == MatcherSpec => []MatcherExact
<1>1. MatcherInv => MatcherExact
  BY DEF MatcherInv
<1> QED BY <1>1, MatcherInvInit, MatcherInvStep, PTL DEF MatcherSpec

-----------------------------------------------------------------------------
(* SkipList and MemTable.                                                  *)

(* What the pointers of a level mean: from a node to the next of its set.  *)
IsNext(S, n, s) ==
    \/ s = Nil /\ \A m \in S : ~(n < m)
    \/ s \in S /\ n < s /\ \A m \in S : n < m => s <= m

(* Where a walk ends that starts at n and may pass some of the nodes.      *)
IsEnd(S, passed, n, w) ==
    /\ w \in S
    /\ w = n \/ (w \in passed /\ n < w)
    /\ \A m \in S : m \in passed /\ n < m => m <= w

End(S, passed, n) == CHOOSE w : IsEnd(S, passed, n, w)

LEMMA EndIs ==
    ASSUME NEW S \in Indices, NEW passed, NEW n \in S
    PROVE  /\ IsEnd(S, passed, n, End(S, passed, n))
           /\ \A w : IsEnd(S, passed, n, w) => w = End(S, passed, n)
<1> DEFINE M == {n} \cup {m \in S : m \in passed /\ n < m}
<1>1. M \in Indices /\ M # {} /\ S \subseteq Nat
  <2>1. M \in SUBSET S
    OBVIOUS
  <2> HIDE DEF M
  <2>2. n \in M
    BY DEF M
  <2> QED BY <2>1, <2>2, SubsetIndices DEF Indices
<1>2. Max(M) \in M /\ \A m \in M : m <= Max(M)
  BY <1>1, MaxIsGreatest
<1>3. IsEnd(S, passed, n, Max(M))
  <2> DEFINE w == Max(M)
  <2> HIDE DEF w
  <2>1. w \in M /\ \A m \in M : m <= w
    BY <1>2 DEF w
  <2>2. \A m \in S : m \in passed /\ n < m => m \in M
    OBVIOUS
  <2>3. w \in S /\ (w = n \/ (w \in passed /\ n < w))
    BY <2>1
  <2>4. IsEnd(S, passed, n, w)
    BY <2>1, <2>2, <2>3 DEF IsEnd
  <2> QED BY <2>4 DEF w
<1>4. IsEnd(S, passed, n, End(S, passed, n))
  BY <1>3, Zenon DEF End
<1>5. ASSUME NEW v, NEW w, IsEnd(S, passed, n, v), IsEnd(S, passed, n, w)
      PROVE  v = w
  <2>1. v \in Nat /\ w \in Nat /\ n \in Nat
    BY <1>1, <1>5 DEF IsEnd
  <2>2. v <= w /\ w <= v
    BY <1>5, <2>1 DEF IsEnd
  <2> QED BY <2>1, <2>2
<1> QED BY <1>4, <1>5

(* One step of a walk: it goes on from the next node, or ends.             *)
LEMMA EndGoesOn ==
    ASSUME NEW S \in SUBSET Nat, NEW passed, NEW n \in S, NEW s, IsNext(S, n, s),
           s \in passed, s # Nil, NEW w, IsEnd(S, passed, s, w)
    PROVE  IsEnd(S, passed, n, w)
<1>1. s \in S /\ n < s /\ \A m \in S : n < m => s <= m
  BY DEF IsNext
<1>2. w \in S /\ (w = s \/ (w \in passed /\ s < w))
      /\ \A m \in S : m \in passed /\ s < m => m <= w
  BY DEF IsEnd
<1>3. w \in passed /\ n < w
  BY <1>1, <1>2
<1>4. ASSUME NEW m \in S, m \in passed, n < m PROVE m <= w
  <2>1. m = s \/ s < m
    BY <1>1, <1>4
  <2> QED BY <1>1, <1>2, <1>4, <2>1
<1> QED BY <1>2, <1>3, <1>4 DEF IsEnd

(* Nodes that are passed whenever a later one is.                          *)
Closed(S, passed) ==
    /\ Nil \notin passed
    /\ \A k \in S, m \in S : m \in passed /\ Top < k /\ k <= m => k \in passed

LEMMA EndHere ==
    ASSUME NEW S \in SUBSET Nat, NEW passed, Closed(S, passed), NEW n \in S, NEW s,
           IsNext(S, n, s), s \notin passed
    PROVE  IsEnd(S, passed, n, n)
<1>1. ASSUME NEW m \in S, m \in passed, n < m PROVE FALSE
  <2>1. s \in S /\ n < s /\ s <= m
    BY <1>1 DEF IsNext
  <2>2. Top < s
    BY <2>1 DEF Top
  <2> QED BY <1>1, <2>1, <2>2 DEF Closed
<1> QED BY <1>1 DEF IsEnd

-----------------------------------------------------------------------------
(* The list.  A pointer of a node on a level leads to the next node on it, *)
(* the nodes are those of the map, and none is higher than the list.       *)
SkipTypes ==
    /\ DOMAIN forward \in Indices
    /\ Top \in DOMAIN forward
    /\ DOMAIN stored = DOMAIN forward \ {Top}
    /\ DOMAIN stored \subseteq SkipKey
    /\ topLevel \in 1 .. MaxHeight
    /\ length = Cardinality(DOMAIN stored)

Heights ==
    /\ DOMAIN forward[Top] = 1 .. MaxHeight
    /\ \A n \in DOMAIN stored : \E h \in 1 .. topLevel : DOMAIN forward[n] = 1 .. h

Linked ==
    \A l \in 1 .. MaxHeight : \A n \in OnLevel(l) : IsNext(OnLevel(l), n, forward[n][l])

IsTheMap ==
    /\ DOMAIN entries = DOMAIN stored
    /\ \A k \in DOMAIN stored : entries[k] = stored[k] /\ stored[k] \in SkipValue

SkipInv == SkipTypes /\ Heights /\ Linked /\ IsTheMap

LEMMA LevelsAre ==
    ASSUME SkipInv
    PROVE  /\ \A l : OnLevel(l) \in Indices /\ OnLevel(l) \subseteq DOMAIN forward
           /\ \A l \in 1 .. MaxHeight : Top \in OnLevel(l)
           /\ OnLevel(1) = DOMAIN forward
           /\ \A l \in 1 .. MaxHeight : l > 1 => OnLevel(l) \subseteq OnLevel(l - 1)
           /\ \A l \in 1 .. MaxHeight : l > topLevel => OnLevel(l) = {Top}
           /\ Top \notin DOMAIN stored /\ DOMAIN stored \subseteq Nat \ {0}
<1>1. MaxHeight \in Nat \ {0} /\ SkipKey \subseteq Nat \ {0}
  BY SkipListAssumption
<1>2. \A l : OnLevel(l) \subseteq DOMAIN forward
  BY DEF OnLevel
<1>3. \A l : OnLevel(l) \in Indices
  BY <1>2, SubsetIndices DEF SkipInv, SkipTypes
<1>4. \A l \in 1 .. MaxHeight : Top \in OnLevel(l)
  BY DEF SkipInv, SkipTypes, Heights, OnLevel
<1>5. \A n \in DOMAIN forward : n = Top \/ n \in DOMAIN stored
  BY DEF SkipInv, SkipTypes
<1>6. OnLevel(1) = DOMAIN forward
  <2>1. ASSUME NEW n \in DOMAIN stored PROVE 1 \in DOMAIN forward[n]
    BY DEF SkipInv, Heights
  <2>2. Top \in OnLevel(1)
    BY <1>1, <1>4
  <2>3. \A n \in DOMAIN forward : 1 \in DOMAIN forward[n]
    BY <1>5, <2>1, <2>2 DEF OnLevel
  <2> QED BY <2>3 DEF OnLevel
<1>7. ASSUME NEW l \in 1 .. MaxHeight, l > 1 PROVE OnLevel(l) \subseteq OnLevel(l - 1)
  <2>1. ASSUME NEW n \in DOMAIN stored, l \in DOMAIN forward[n]
        PROVE  l - 1 \in DOMAIN forward[n]
    <3>1. PICK h \in 1 .. topLevel : DOMAIN forward[n] = 1 .. h
      BY <2>1 DEF SkipInv, Heights
    <3> QED BY <1>7, <2>1, <3>1
  <2>2. l - 1 \in 1 .. MaxHeight
    BY <1>1, <1>7
  <2> QED BY <1>4, <1>5, <2>1, <2>2 DEF OnLevel
<1>8. ASSUME NEW l \in 1 .. MaxHeight, l > topLevel PROVE OnLevel(l) = {Top}
  <2>1. ASSUME NEW n \in DOMAIN stored PROVE l \notin DOMAIN forward[n]
    <3>1. PICK h \in 1 .. topLevel : DOMAIN forward[n] = 1 .. h
      BY DEF SkipInv, Heights
    <3> QED BY <1>8, <3>1 DEF SkipInv, SkipTypes
  <2> QED BY <1>4, <1>5, <2>1 DEF OnLevel
<1>9. Top \notin DOMAIN stored /\ DOMAIN stored \subseteq Nat \ {0}
  BY <1>1 DEF SkipInv, SkipTypes, Top
<1> QED BY <1>2, <1>3, <1>4, <1>6, <1>7, <1>8, <1>9

Walking(level, passed, walk) ==
    walk = [n \in OnLevel(level) |->
               IF forward[n][level] \in passed THEN walk[forward[n][level]] ELSE n]

LEMMA WalkIs ==
    ASSUME SkipInv, NEW level \in 1 .. MaxHeight, NEW passed,
           Closed(DOMAIN forward, passed), NEW node \in OnLevel(level)
    PROVE  IsEnd(OnLevel(level), passed, node, Walk(node, level, passed))
<1> DEFINE S == OnLevel(level)
           next(n) == forward[n][level]
           g == [n \in S |-> End(S, passed, n)]
<1>1. S \in Indices /\ S \subseteq Nat /\ S \subseteq DOMAIN forward
  BY LevelsAre DEF Indices
<1>2. \A n \in S : IsNext(S, n, next(n))
  BY DEF SkipInv, Linked
<1>3. Closed(S, passed)
  BY <1>1 DEF Closed
<1>4. \A n \in S : next(n) \in passed => next(n) \in S /\ n < next(n) /\ next(n) # Nil
  BY <1>2, <1>3 DEF IsNext, Closed
<1> HIDE DEF S, next
<1>5. Walking(level, passed, g)
  <2>1. ASSUME NEW n \in S
        PROVE  g[n] = IF next(n) \in passed THEN g[next(n)] ELSE n
    <3>1. CASE next(n) \in passed
      <4>1. next(n) \in S /\ next(n) # Nil
        BY <1>4, <2>1, <3>1
      <4>2. IsEnd(S, passed, next(n), End(S, passed, next(n)))
        BY <1>1, <4>1, EndIs
      <4>3. IsEnd(S, passed, n, End(S, passed, next(n)))
        BY <1>1, <1>2, <2>1, <3>1, <4>1, <4>2, EndGoesOn
      <4>4. End(S, passed, next(n)) = End(S, passed, n)
        BY <1>1, <2>1, <4>3, EndIs
      <4> QED BY <2>1, <3>1, <4>1, <4>4
    <3>2. CASE next(n) \notin passed
      <4>1. IsEnd(S, passed, n, n)
        BY <1>1, <1>2, <1>3, <2>1, <3>2, EndHere
      <4>2. n = End(S, passed, n)
        BY <1>1, <2>1, <4>1, EndIs
      <4> QED BY <2>1, <3>2, <4>2
    <3> QED BY <3>1, <3>2
  <2>2. g = [n \in S |-> IF next(n) \in passed THEN g[next(n)] ELSE n]
    <3> DEFINE h == [n \in S |-> IF next(n) \in passed THEN g[next(n)] ELSE n]
    <3>1. DOMAIN g = S /\ DOMAIN h = S /\ \A n \in S : g[n] = h[n]
      BY <2>1
    <3> QED BY <3>1
  <2> HIDE DEF g
  <2> QED BY <2>2, Zenon DEF Walking, S, next
<1> HIDE DEF g
<1>6. Walk(node, level, passed) = (CHOOSE walk : Walking(level, passed, walk))[node]
  BY Zenon DEF Walk, Walking
<1> DEFINE f == CHOOSE walk : Walking(level, passed, walk)
<1>7. Walking(level, passed, f)
  BY <1>5, Zenon
<1> HIDE DEF f
<1>8. \A n \in S : f[n] = IF next(n) \in passed THEN f[next(n)] ELSE n
  BY <1>7, Zenon DEF Walking, S, next
<1> DEFINE Bad == {n \in S : ~IsEnd(S, passed, n, f[n])}
<1>9. Bad = {}
  <2> SUFFICES ASSUME Bad # {} PROVE FALSE
    OBVIOUS
  <2>1. Bad \in Indices
    BY <1>1, SubsetIndices
  <2>2. PICK n \in Bad : \A m \in Bad : m <= n
    BY <2>1, MaxIsGreatest
  <2>3. n \in S /\ n \in Nat /\ ~IsEnd(S, passed, n, f[n])
    BY <1>1
  <2>4. CASE next(n) \in passed
    <3>1. next(n) \in S /\ next(n) # Nil /\ n < next(n) /\ next(n) \in Nat
      BY <1>1, <1>4, <2>3, <2>4
    <3>2. next(n) \notin Bad
      BY <2>2, <2>3, <3>1
    <3>3. IsEnd(S, passed, next(n), f[next(n)])
      BY <3>1, <3>2
    <3>4. IsEnd(S, passed, n, f[next(n)])
      BY <1>1, <1>2, <2>3, <2>4, <3>1, <3>3, EndGoesOn
    <3> QED BY <1>8, <2>3, <2>4, <3>4
  <2>5. CASE next(n) \notin passed
    <3>1. IsEnd(S, passed, n, n)
      BY <1>1, <1>2, <1>3, <2>3, <2>5, EndHere
    <3> QED BY <1>8, <2>3, <2>5, <3>1
  <2> QED BY <2>4, <2>5
<1>10. IsEnd(S, passed, node, f[node])
  BY <1>9 DEF S
<1> QED BY <1>6, <1>10 DEF S, f

(* From the level above, the walk gets to where one from the top would.    *)
LEMMA EndFromAbove ==
    ASSUME NEW S \in SUBSET Nat, NEW passed, NEW n \in Nat, n \in passed, Top < n,
           NEW w, IsEnd(S, passed, n, w)
    PROVE  IsEnd(S, passed, Top, w)
<1>1. w \in S /\ (w = n \/ (w \in passed /\ n < w))
      /\ \A m \in S : m \in passed /\ n < m => m <= w
  BY DEF IsEnd
<1>2. w \in passed /\ Top < w /\ n <= w /\ w \in Nat /\ n \in Nat
  BY <1>1 DEF IsEnd, Top
<1>3. ASSUME NEW m \in S, m \in passed PROVE m <= w
  BY <1>1, <1>2, <1>3
<1> QED BY <1>1, <1>2, <1>3 DEF IsEnd

Descending(passed, down) ==
    down = [l \in 1 .. topLevel |->
               Walk(IF l = topLevel THEN Top ELSE down[l + 1], l, passed)]

LEMMA DescentIs ==
    ASSUME SkipInv, NEW passed, Closed(DOMAIN forward, passed)
    PROVE  \A l \in 1 .. topLevel : IsEnd(OnLevel(l), passed, Top, Descent(passed)[l])
<1> DEFINE L == 1 .. topLevel
           Reaches(l, w) == IsEnd(OnLevel(l), passed, Top, w)
           from(down, l) == IF l = topLevel THEN Top ELSE down[l + 1]
           g == [l \in L |-> End(OnLevel(l), passed, Top)]
<1>1. topLevel \in Nat \ {0} /\ topLevel <= MaxHeight /\ MaxHeight \in Nat
      /\ L \subseteq 1 .. MaxHeight
  BY SkipListAssumption DEF SkipInv, SkipTypes
<1>2. \A l \in L : /\ OnLevel(l) \in Indices /\ OnLevel(l) \subseteq Nat /\ Top \in OnLevel(l)
                   /\ (l + 1 \in L => OnLevel(l + 1) \subseteq OnLevel(l))
  <2> SUFFICES ASSUME NEW l \in L
               PROVE  /\ OnLevel(l) \in Indices /\ OnLevel(l) \subseteq Nat
                      /\ Top \in OnLevel(l)
                      /\ (l + 1 \in L => OnLevel(l + 1) \subseteq OnLevel(l))
    OBVIOUS
  <2>1. l \in 1 .. MaxHeight /\ (l + 1 \in L => l + 1 \in 1 .. MaxHeight)
        /\ l + 1 > 1 /\ (l + 1) - 1 = l
    BY <1>1
  <2> QED BY <2>1, LevelsAre DEF Indices
<1>3. ASSUME NEW down, NEW l \in L, l = topLevel \/ Reaches(l + 1, down[l + 1])
      PROVE  Reaches(l, Walk(from(down, l), l, passed))
  <2>1. l \in 1 .. MaxHeight
    BY <1>1
  <2>2. CASE l = topLevel
    <3>1. from(down, l) = Top
      BY <2>2
    <3> QED BY <1>2, <2>1, <3>1, WalkIs
  <2>3. CASE l # topLevel
    <3> DEFINE p == down[l + 1]
    <3>1. l + 1 \in L /\ from(down, l) = p /\ Reaches(l + 1, p)
      BY <1>1, <1>3, <2>3
    <3> HIDE DEF p, from
    <3>2. p \in OnLevel(l) /\ p \in Nat /\ (p = Top \/ (p \in passed /\ Top < p))
      BY <1>2, <3>1 DEF IsEnd
    <3>3. IsEnd(OnLevel(l), passed, p, Walk(p, l, passed))
      BY <2>1, <3>2, WalkIs
    <3>4. Reaches(l, Walk(p, l, passed))
      BY <1>2, <3>2, <3>3, EndFromAbove
    <3> QED BY <3>1, <3>4
  <2> QED BY <2>2, <2>3
<1> HIDE DEF L, Reaches
<1>4. Descending(passed, g)
  <2>1. ASSUME NEW l \in L PROVE g[l] = Walk(from(g, l), l, passed)
    <3>1. l = topLevel \/ (l + 1 \in L /\ g[l + 1] = End(OnLevel(l + 1), passed, Top))
      BY <1>1 DEF L
    <3>2. l = topLevel \/ Reaches(l + 1, g[l + 1])
      BY <1>2, <3>1, EndIs DEF Reaches
    <3>3. Reaches(l, Walk(from(g, l), l, passed))
      <4> HIDE DEF g, from
      <4> QED BY <1>3, <3>2
    <3>4. Walk(from(g, l), l, passed) = End(OnLevel(l), passed, Top)
      <4> HIDE DEF g, from
      <4> QED BY <1>2, <3>3, EndIs DEF Reaches
    <3> QED BY <3>4
  <2>2. g = [l \in L |-> Walk(from(g, l), l, passed)]
    <3> DEFINE h == [l \in L |-> Walk(from(g, l), l, passed)]
    <3>1. DOMAIN g = L /\ DOMAIN h = L
      OBVIOUS
    <3>2. \A l \in L : g[l] = h[l]
      <4> HIDE DEF g, from
      <4> QED BY <2>1
    <3> HIDE DEF h
    <3> QED BY <3>1, <3>2 DEF h
  <2> HIDE DEF g
  <2> QED BY <2>2, Zenon DEF Descending, L
<1> HIDE DEF g
<1>5. Descent(passed) = CHOOSE down : Descending(passed, down)
  BY Zenon DEF Descent, Descending
<1> DEFINE f == Descent(passed)
<1>6. Descending(passed, f)
  BY <1>4, <1>5, Zenon
<1> HIDE DEF f
<1>7. \A l \in L : f[l] = Walk(from(f, l), l, passed)
  BY <1>6, Zenon DEF Descending, L
<1> DEFINE Bad == {l \in L : ~Reaches(l, f[l])}
<1>8. Bad = {}
  <2> SUFFICES ASSUME Bad # {} PROVE FALSE
    OBVIOUS
  <2>1. Bad \in Indices
    <3>1. L \in Indices
      BY <1>1, IntervalIndices DEF L
    <3> QED BY <3>1, SubsetIndices
  <2>2. PICK l \in Bad : \A k \in Bad : k <= l
    BY <2>1, MaxIsGreatest
  <2>3. l \in L /\ ~Reaches(l, f[l])
    OBVIOUS
  <2>4. l = topLevel \/ (l + 1 \in L /\ ~(l + 1 <= l))
    BY <1>1, <2>3 DEF L
  <2>5. l = topLevel \/ Reaches(l + 1, f[l + 1])
    BY <2>2, <2>4
  <2>6. Reaches(l, Walk(from(f, l), l, passed))
    <3> HIDE DEF from
    <3> QED BY <1>3, <2>3, <2>5
  <2> QED BY <1>7, <2>3, <2>6
<1> QED BY <1>8 DEF L, Reaches, f

LEMMA PathIs ==
    ASSUME SkipInv, NEW key \in SkipKey
    PROVE  \A l \in 1 .. topLevel :
              /\ Path(key)[l] \in OnLevel(l)
              /\ Path(key)[l] < key
              /\ \A m \in OnLevel(l) : m < key => m <= Path(key)[l]
<1> DEFINE passed == {n \in DOMAIN stored : Before(n, key)}
<1>1. \A n : n \in passed <=> n \in DOMAIN stored /\ n < key
  BY DEF Before
<1>2. DOMAIN stored \subseteq Nat \ {0} /\ DOMAIN stored = DOMAIN forward \ {Top}
      /\ key \in Nat \ {0}
  BY LevelsAre, SkipListAssumption DEF SkipInv, SkipTypes
<1>3. Path(key) = Descent(passed)
  BY DEF Path
<1> HIDE DEF passed
<1>4. Closed(DOMAIN forward, passed)
  <2>1. Nil \notin passed
    BY <1>1, <1>2 DEF Nil
  <2>2. ASSUME NEW k \in DOMAIN forward, NEW m \in DOMAIN forward, m \in passed, Top < k, k <= m
        PROVE  k \in passed
    BY <1>1, <1>2, <2>2 DEF Top
  <2> QED BY <2>1, <2>2 DEF Closed
<1> SUFFICES ASSUME NEW l \in 1 .. topLevel
             PROVE  /\ Path(key)[l] \in OnLevel(l)
                    /\ Path(key)[l] < key
                    /\ \A m \in OnLevel(l) : m < key => m <= Path(key)[l]
  OBVIOUS
<1> DEFINE w == Path(key)[l]
<1>5. IsEnd(OnLevel(l), passed, Top, w)
  BY <1>3, <1>4, DescentIs
<1>6. OnLevel(l) \subseteq DOMAIN forward
  BY LevelsAre
<1> HIDE DEF w
<1>7. w \in OnLevel(l) /\ w < key
  BY <1>1, <1>2, <1>5 DEF IsEnd, Top
<1>8. ASSUME NEW m \in OnLevel(l), m < key PROVE m <= w
  <2>1. w = Top \/ w \in passed
    BY <1>5 DEF IsEnd
  <2>2. CASE m = Top
    BY <1>1, <1>2, <2>1, <2>2 DEF Top
  <2>3. CASE m # Top
    <3>1. m \in passed /\ Top < m
      BY <1>1, <1>2, <1>6, <1>8, <2>3 DEF Top
    <3> QED BY <1>5, <3>1 DEF IsEnd
  <2> QED BY <2>2, <2>3
<1> QED BY <1>7, <1>8 DEF w

(* The node the descent comes to is the first that does not come before.   *)
LEMMA LandingIs ==
    ASSUME SkipInv, NEW key \in SkipKey
    PROVE  \/ Landing(key) = Nil /\ \A k \in DOMAIN stored : k < key
           \/ /\ Landing(key) \in DOMAIN stored /\ key <= Landing(key)
              /\ \A k \in DOMAIN stored : key <= k => Landing(key) <= k
<1> DEFINE p == Path(key)[1]
<1>1. 1 \in 1 .. topLevel /\ 1 \in 1 .. MaxHeight
  BY SkipListAssumption DEF SkipInv, SkipTypes
<1>2. OnLevel(1) = DOMAIN forward /\ Top \notin DOMAIN stored
      /\ DOMAIN stored \subseteq Nat \ {0} /\ DOMAIN stored = DOMAIN forward \ {Top}
      /\ key \in Nat \ {0} /\ Landing(key) = forward[p][1]
  BY LevelsAre, SkipListAssumption DEF SkipInv, SkipTypes, Landing
<1>3. p \in DOMAIN forward /\ p < key /\ \A m \in DOMAIN forward : m < key => m <= p
  BY <1>1, <1>2, PathIs
<1>4. IsNext(DOMAIN forward, p, Landing(key))
  BY <1>1, <1>2, <1>3 DEF SkipInv, Linked
<1> HIDE DEF p
<1>5. p \in Nat
  BY <1>2, <1>3 DEF Top
<1>6. \A k \in DOMAIN stored : k \in DOMAIN forward /\ k \in Nat /\ (key <= k <=> p < k)
  BY <1>2, <1>3, <1>5
<1>7. CASE Landing(key) = Nil /\ \A m \in DOMAIN forward : ~(p < m)
  BY <1>2, <1>6, <1>7
<1>8. CASE Landing(key) \in DOMAIN forward /\ p < Landing(key)
           /\ \A m \in DOMAIN forward : p < m => Landing(key) <= m
  <2>1. Landing(key) \in DOMAIN stored
    BY <1>2, <1>5, <1>8 DEF Top
  <2> QED BY <1>6, <1>8, <2>1
<1> QED BY <1>4, <1>7, <1>8 DEF IsNext

LEMMA FindNodeIs ==
    ASSUME SkipInv, NEW key \in SkipKey
    PROVE  /\ FindNode(key) = IF key \in DOMAIN stored THEN key ELSE Nil
           /\ Lookup(key) = IF key \in DOMAIN stored THEN stored[key] ELSE Nil
           /\ Nil # key
<1>1. DOMAIN stored \subseteq Nat \ {0} /\ key \in Nat \ {0}
  BY LevelsAre, SkipListAssumption
<1>2. Landing(key) = key <=> key \in DOMAIN stored
  <2>1. ASSUME key \in DOMAIN stored PROVE Landing(key) = key
    BY <1>1, <2>1, LandingIs
  <2>2. ASSUME key \notin DOMAIN stored PROVE Landing(key) # key
    BY <1>1, <2>2, LandingIs DEF Nil
  <2> QED BY <2>1, <2>2
<1>3. Nil # key
  BY <1>1 DEF Nil
<1> QED BY <1>2, <1>3 DEF FindNode, Lookup

LEMMA FirstAndLast ==
    ASSUME SkipInv
    PROVE  /\ \/ FirstKey = Nil /\ DOMAIN stored = {}
              \/ FirstKey \in DOMAIN stored /\ \A k \in DOMAIN stored : FirstKey <= k
           /\ \/ LastKey = Nil /\ DOMAIN stored = {}
              \/ LastKey \in DOMAIN stored /\ \A k \in DOMAIN stored : k <= LastKey
<1>1. 1 \in 1 .. topLevel /\ 1 \in 1 .. MaxHeight
  BY SkipListAssumption DEF SkipInv, SkipTypes
<1>2. OnLevel(1) = DOMAIN forward /\ Top \in DOMAIN forward /\ Top \notin DOMAIN stored
      /\ DOMAIN stored \subseteq Nat \ {0} /\ DOMAIN stored = DOMAIN forward \ {Top}
  BY LevelsAre DEF SkipInv, SkipTypes
<1>3. \/ FirstKey = Nil /\ DOMAIN stored = {}
      \/ FirstKey \in DOMAIN stored /\ \A k \in DOMAIN stored : FirstKey <= k
  <2>1. IsNext(DOMAIN forward, Top, FirstKey)
    BY <1>1, <1>2 DEF SkipInv, Linked, FirstKey
  <2>2. \A k \in DOMAIN forward : Top < k <=> k \in DOMAIN stored
    BY <1>2 DEF Top
  <2>3. CASE FirstKey = Nil /\ \A m \in DOMAIN forward : ~(Top < m)
    BY <1>2, <2>2, <2>3
  <2>4. CASE FirstKey \in DOMAIN forward /\ Top < FirstKey
             /\ \A m \in DOMAIN forward : Top < m => FirstKey <= m
    BY <1>2, <2>2, <2>4
  <2> QED BY <2>1, <2>3, <2>4 DEF IsNext
<1>4. \/ LastKey = Nil /\ DOMAIN stored = {}
      \/ LastKey \in DOMAIN stored /\ \A k \in DOMAIN stored : k <= LastKey
  <2>1. IsFiniteSet(DOMAIN stored)
    <3>1. DOMAIN forward \in Indices
      BY DEF SkipInv, SkipTypes
    <3> QED BY <1>2, <3>1, FS_Subset DEF Indices
  <2>2. length = 0 <=> DOMAIN stored = {}
    BY <2>1, FS_EmptySet DEF SkipInv, SkipTypes
  <2>3. CASE length = 0
    BY <2>2, <2>3 DEF LastKey
  <2>4. CASE length # 0
    <3> DEFINE w == Descent(DOMAIN stored)[1]
    <3>1. Closed(DOMAIN forward, DOMAIN stored)
      BY <1>2 DEF Closed, Nil, Top
    <3>2. LastKey = w
      BY <2>4 DEF LastKey
    <3>3. IsEnd(DOMAIN forward, DOMAIN stored, Top, w)
      BY <1>1, <1>2, <3>1, DescentIs
    <3> HIDE DEF w
    <3>4. \A k \in DOMAIN stored : k \in DOMAIN forward /\ Top < k
      BY <1>2 DEF Top
    <3>5. \A k \in DOMAIN stored : k <= w
      BY <3>3, <3>4 DEF IsEnd
    <3>6. PICK k \in DOMAIN stored : TRUE
      BY <2>2, <2>4
    <3>7. w # Top
      BY <1>2, <3>5, <3>6 DEF Top
    <3>8. w \in DOMAIN stored
      BY <3>3, <3>7 DEF IsEnd
    <3> QED BY <3>2, <3>5, <3>8
  <2> QED BY <2>3, <2>4
<1> QED BY <1>3, <1>4

-----------------------------------------------------------------------------
(* Linking a node in and out of a level.                                   *)
LEMMA NextWithNode ==
    ASSUME NEW S \in SUBSET Nat, NEW key \in Nat, key \notin S, NEW p \in S, p < key,
           \A m \in S : m < key => m <= p,
           NEW next, \A n \in S : IsNext(S, n, next[n])
    PROVE  /\ IsNext(S \cup {key}, key, next[p])
           /\ \A n \in S : IsNext(S \cup {key}, n, IF n = p THEN key ELSE next[n])
<1>1. IsNext(S \cup {key}, key, next[p])
  <2>1. \A m \in S : p < m <=> key < m
    OBVIOUS
  <2>2. IsNext(S, p, next[p])
    OBVIOUS
  <2>3. \A m \in S \cup {key} : key < m => m \in S
    OBVIOUS
  <2>4. CASE next[p] = Nil /\ \A m \in S : ~(p < m)
    <3>1. \A m \in S \cup {key} : ~(key < m)
      BY <2>1, <2>3, <2>4
    <3> QED BY <2>4, <3>1 DEF IsNext
  <2>5. CASE next[p] \in S /\ p < next[p] /\ \A m \in S : p < m => next[p] <= m
    <3>1. \A m \in S \cup {key} : key < m => next[p] <= m
      BY <2>1, <2>3, <2>5
    <3> QED BY <2>1, <2>5, <3>1 DEF IsNext
  <2> QED BY <2>2, <2>4, <2>5 DEF IsNext
<1>2. IsNext(S \cup {key}, p, key)
  <2>1. \A m \in S \cup {key} : p < m => key <= m
    OBVIOUS
  <2> QED BY <2>1 DEF IsNext
<1>3. ASSUME NEW n \in S, n # p PROVE IsNext(S \cup {key}, n, next[n])
  <2>1. IsNext(S, n, next[n]) /\ n \in Nat
    OBVIOUS
  <2>2. CASE next[n] = Nil /\ \A m \in S : ~(n < m)
    <3>1. \A m \in S \cup {key} : ~(n < m)
      BY <1>3, <2>2
    <3> QED BY <2>2, <3>1 DEF IsNext
  <2>3. CASE next[n] \in S /\ n < next[n] /\ \A m \in S : n < m => next[n] <= m
    <3>1. next[n] \in Nat /\ p \in Nat
      BY <2>3
    <3>2. n < key => n < p
      BY <1>3, <2>1, <3>1
    <3>3. n < key => next[n] <= p
      BY <2>3, <3>2
    <3>4. n < key => next[n] <= key
      BY <3>1, <3>3
    <3>5. \A m \in S \cup {key} : n < m => next[n] <= m
      BY <2>3, <3>4
    <3> QED BY <2>3, <3>5 DEF IsNext
  <2> QED BY <2>1, <2>2, <2>3 DEF IsNext
<1> QED BY <1>1, <1>2, <1>3

LEMMA NextWithoutNode ==
    ASSUME NEW S \in SUBSET Nat, NEW key \in S, NEW p \in S, p < key,
           \A m \in S : m < key => m <= p,
           NEW next, \A n \in S : IsNext(S, n, next[n])
    PROVE  \A n \in S \ {key} :
              IsNext(S \ {key}, n, IF n = p THEN next[key] ELSE next[n])
<1>1. IsNext(S, key, next[key])
  OBVIOUS
<1>2. IsNext(S \ {key}, p, next[key])
  <2>1. \A m \in S \ {key} : p < m <=> key < m
    OBVIOUS
  <2>2. CASE next[key] = Nil /\ \A m \in S : ~(key < m)
    BY <2>1, <2>2 DEF IsNext
  <2>3. CASE next[key] \in S /\ key < next[key] /\ \A m \in S : key < m => next[key] <= m
    <3>1. next[key] \in Nat /\ key \in Nat /\ p \in Nat
      BY <2>3
    <3>2. next[key] \in S \ {key} /\ p < next[key]
      BY <2>3, <3>1
    <3>3. \A m \in S \ {key} : p < m => next[key] <= m
      BY <2>1, <2>3
    <3> QED BY <3>2, <3>3 DEF IsNext
  <2> QED BY <1>1, <2>2, <2>3 DEF IsNext
<1>3. ASSUME NEW n \in S \ {key}, n # p PROVE IsNext(S \ {key}, n, next[n])
  <2>1. IsNext(S, n, next[n]) /\ n \in Nat
    BY <1>3
  <2>2. CASE next[n] = Nil /\ \A m \in S : ~(n < m)
    BY <2>2 DEF IsNext
  <2>3. CASE next[n] \in S /\ n < next[n] /\ \A m \in S : n < m => next[n] <= m
    <3>1. next[n] # key
      BY <1>3, <2>3
    <3> QED BY <2>3, <3>1 DEF IsNext
  <2> QED BY <2>1, <2>2, <2>3 DEF IsNext
<1> QED BY <1>2, <1>3

-----------------------------------------------------------------------------
(* The steps.                                                              *)
LEMMA EmptyList ==
    ASSUME NEW f, f = [n \in {Top} |-> [l \in 1 .. MaxHeight |-> Nil]]
    PROVE  /\ DOMAIN f = {Top}
           /\ DOMAIN f[Top] = 1 .. MaxHeight
           /\ \A l \in 1 .. MaxHeight :
                 /\ {n \in DOMAIN f : l \in DOMAIN f[n]} = {Top}
                 /\ IsNext({Top}, Top, f[Top][l])
<1>1. DOMAIN f = {Top} /\ f[Top] = [l \in 1 .. MaxHeight |-> Nil]
  OBVIOUS
<1>2. DOMAIN f[Top] = 1 .. MaxHeight /\ \A l \in 1 .. MaxHeight : f[Top][l] = Nil
  BY <1>1
<1>3. ASSUME NEW l \in 1 .. MaxHeight
      PROVE  /\ {n \in DOMAIN f : l \in DOMAIN f[n]} = {Top}
             /\ IsNext({Top}, Top, f[Top][l])
  BY <1>1, <1>2 DEF IsNext, Top
<1> QED BY <1>1, <1>2, <1>3

LEMMA SkipInvInit ==
    ASSUME SkipInit
    PROVE  SkipInv
<1>1. /\ forward = [n \in {Top} |-> [l \in 1 .. MaxHeight |-> Nil]]
      /\ topLevel = 1 /\ length = 0 /\ DOMAIN stored = {} /\ DOMAIN entries = {}
  BY DEF SkipInit
<1>2. DOMAIN forward = {Top} /\ DOMAIN forward[Top] = 1 .. MaxHeight
  BY <1>1, EmptyList
<1>3. {Top} \in Indices /\ Cardinality({}) = 0
  <2>1. {Top} \in SUBSET Nat
    BY DEF Top
  <2> QED BY <2>1, FS_Singleton, FS_EmptySet DEF Indices
<1>4. SkipTypes
  BY <1>1, <1>2, <1>3, SkipListAssumption DEF SkipTypes
<1>5. Heights
  BY <1>1, <1>2 DEF Heights
<1>6. Linked
  <2>1. \A l \in 1 .. MaxHeight : OnLevel(l) = {Top} /\ IsNext({Top}, Top, forward[Top][l])
    BY <1>1, EmptyList, Zenon DEF OnLevel
  <2> QED BY <2>1 DEF Linked
<1>7. IsTheMap
  BY <1>1 DEF IsTheMap
<1> QED BY <1>4, <1>5, <1>6, <1>7 DEF SkipInv

LEMMA SkipClearKeeps ==
    ASSUME SkipClear
    PROVE  SkipInv'
<1>1. /\ forward' = [n \in {Top} |-> [l \in 1 .. MaxHeight |-> Nil]]
      /\ topLevel' = 1 /\ length' = 0 /\ DOMAIN stored' = {} /\ DOMAIN entries' = {}
  BY DEF SkipClear
<1>2. DOMAIN forward' = {Top} /\ DOMAIN forward'[Top] = 1 .. MaxHeight
  BY <1>1, EmptyList
<1>3. {Top} \in Indices /\ Cardinality({}) = 0
  <2>1. {Top} \in SUBSET Nat
    BY DEF Top
  <2> QED BY <2>1, FS_Singleton, FS_EmptySet DEF Indices
<1>4. SkipTypes'
  BY <1>1, <1>2, <1>3, SkipListAssumption DEF SkipTypes
<1>5. Heights'
  BY <1>1, <1>2 DEF Heights
<1>6. Linked'
  <2>1. \A l \in 1 .. MaxHeight :
           OnLevel(l)' = {Top} /\ IsNext({Top}, Top, forward'[Top][l])
    BY <1>1, EmptyList, Zenon DEF OnLevel
  <2> QED BY <2>1 DEF Linked
<1>7. IsTheMap'
  BY <1>1 DEF IsTheMap
<1> QED BY <1>4, <1>5, <1>6, <1>7 DEF SkipInv

Update(key, l) == IF l <= topLevel THEN Path(key)[l] ELSE Top

LEMMA UpdateIs ==
    ASSUME SkipInv, NEW key \in SkipKey, NEW l \in 1 .. MaxHeight
    PROVE  /\ Update(key, l) \in OnLevel(l)
           /\ Update(key, l) < key
           /\ \A m \in OnLevel(l) : m < key => m <= Update(key, l)
<1>1. topLevel \in Nat /\ l \in Nat /\ 1 <= l /\ key \in Nat \ {0}
  BY SkipListAssumption DEF SkipInv, SkipTypes
<1>2. CASE l <= topLevel
  BY <1>1, <1>2, PathIs DEF Update
<1>3. CASE ~(l <= topLevel)
  <2>1. OnLevel(l) = {Top}
    BY <1>1, <1>3, LevelsAre
  <2>2. Update(key, l) = Top
    BY <1>3 DEF Update
  <2> QED BY <1>1, <2>1, <2>2 DEF Top
<1> QED BY <1>2, <1>3

LEMMA InsertKeeps ==
    ASSUME SkipInv, NEW key \in SkipKey, NEW value \in SkipValue,
           key \notin DOMAIN stored,
           NEW height \in 1 .. MaxHeight, Insert(key, value, height),
           entries' = WithEntry(entries, key, value)
    PROVE  SkipInv'
<1> DEFINE node == [l \in 1 .. height |-> forward[Update(key, l)][l]]
           other(n) == [l \in DOMAIN forward[n] |->
                           IF l <= height /\ Update(key, l) = n THEN key
                           ELSE forward[n][l]]
<1>1. /\ forward' = [n \in DOMAIN forward \cup {key} |-> IF n = key THEN node ELSE other(n)]
      /\ stored' = WithEntry(stored, key, value)
      /\ topLevel' = (IF height > topLevel THEN height ELSE topLevel)
      /\ length' = length + 1
  BY DEF Insert, Update, Raised
<1>2. /\ DOMAIN forward \in Indices /\ Top \in DOMAIN forward
      /\ DOMAIN stored = DOMAIN forward \ {Top}
      /\ topLevel \in Nat /\ 1 <= topLevel /\ topLevel <= MaxHeight /\ MaxHeight \in Nat
      /\ key \in Nat \ {0} /\ key # Top /\ key \notin DOMAIN forward
      /\ height \in Nat /\ 1 <= height
  BY SkipListAssumption DEF SkipInv, SkipTypes, Top
<1>3. /\ DOMAIN forward' = DOMAIN forward \cup {key}
      /\ forward'[key] = node
      /\ \A n \in DOMAIN forward : forward'[n] = other(n)
  <2> HIDE DEF node, other
  <2> QED BY <1>1, <1>2
<1>4. /\ DOMAIN node = 1 .. height
      /\ \A l \in 1 .. height : node[l] = forward[Update(key, l)][l]
      /\ \A n : DOMAIN other(n) = DOMAIN forward[n]
      /\ \A n : \A l \in DOMAIN forward[n] :
            other(n)[l] = IF l <= height /\ Update(key, l) = n THEN key ELSE forward[n][l]
  OBVIOUS
<1> HIDE DEF node, other
<1>5. topLevel' \in 1 .. MaxHeight /\ topLevel <= topLevel' /\ height <= topLevel'
      /\ topLevel' \in Nat
  BY <1>1, <1>2
<1>6. /\ DOMAIN stored' = DOMAIN stored \cup {key} /\ stored'[key] = value
      /\ \A k \in DOMAIN stored : stored'[k] = stored[k]
      /\ DOMAIN entries' = DOMAIN entries \cup {key} /\ entries'[key] = value
      /\ \A k \in DOMAIN entries : k # key => entries'[k] = entries[k]
  BY <1>1 DEF WithEntry
<1>7. SkipTypes'
  <2>1. DOMAIN forward' \in Indices
    BY <1>2, <1>3, AddedNumber
  <2>2. IsFiniteSet(DOMAIN stored)
    BY <1>2, FS_Subset DEF Indices
  <2>3. Cardinality(DOMAIN stored \cup {key}) = Cardinality(DOMAIN stored) + 1
    BY <2>2, FS_AddElement
  <2> QED BY <1>1, <1>2, <1>3, <1>5, <1>6, <2>1, <2>3 DEF SkipTypes, SkipInv
<1>8. Heights'
  <2>1. DOMAIN forward'[Top] = 1 .. MaxHeight
    BY <1>2, <1>3, <1>4 DEF SkipInv, Heights
  <2>2. ASSUME NEW n \in DOMAIN stored
        PROVE  \E h \in 1 .. topLevel' : DOMAIN forward'[n] = 1 .. h
    <3>1. PICK h \in 1 .. topLevel : DOMAIN forward[n] = 1 .. h
      BY DEF SkipInv, Heights
    <3>2. DOMAIN forward'[n] = 1 .. h /\ h \in 1 .. topLevel'
      BY <1>2, <1>3, <1>4, <1>5, <3>1
    <3> QED BY <3>2
  <2>3. \E h \in 1 .. topLevel' : DOMAIN forward'[key] = 1 .. h
    BY <1>2, <1>3, <1>4, <1>5
  <2> QED BY <1>6, <2>1, <2>2, <2>3 DEF Heights
<1>9. Linked'
  <2> SUFFICES ASSUME NEW l \in 1 .. MaxHeight, NEW n \in OnLevel(l)'
               PROVE  IsNext(OnLevel(l)', n, forward'[n][l])
    BY DEF Linked
  <2> DEFINE S == OnLevel(l)
             u == Update(key, l)
             next == [m \in S |-> forward[m][l]]
  <2>1. S \in SUBSET Nat /\ key \notin S /\ S \subseteq DOMAIN forward
    BY <1>2, LevelsAre DEF Indices
  <2>2. u \in S /\ u < key /\ \A m \in S : m < key => m <= u
    BY UpdateIs
  <2>3. \A m \in S : IsNext(S, m, next[m]) /\ next[m] = forward[m][l] /\ l \in DOMAIN forward[m]
    BY DEF SkipInv, Linked, OnLevel
  <2>4. OnLevel(l)' = IF l <= height THEN S \cup {key} ELSE S
    BY <1>2, <1>3, <1>4 DEF OnLevel
  <2>5. \A m \in S : forward'[m][l] = IF l <= height /\ u = m THEN key ELSE next[m]
    BY <1>3, <1>4, <2>1, <2>3
  <2> HIDE DEF S, u, next
  <2>6. CASE l <= height
    <3>1. IsNext(S \cup {key}, key, next[u])
          /\ \A m \in S : IsNext(S \cup {key}, m, IF m = u THEN key ELSE next[m])
      BY <1>2, <2>1, <2>2, <2>3, NextWithNode
    <3>2. forward'[key][l] = next[u]
      BY <1>2, <1>3, <1>4, <2>2, <2>3, <2>6 DEF u
    <3> QED BY <2>4, <2>5, <2>6, <3>1, <3>2
  <2>7. CASE ~(l <= height)
    BY <2>3, <2>4, <2>5, <2>7
  <2> QED BY <2>6, <2>7
<1>10. IsTheMap'
  BY <1>6 DEF SkipInv, IsTheMap
<1> QED BY <1>7, <1>8, <1>9, <1>10 DEF SkipInv

LEMMA SkipPutKeeps ==
    ASSUME SkipInv, NEW key \in SkipKey, NEW value \in SkipValue, NEW replace \in BOOLEAN,
           SkipPut(key, value, replace)
    PROVE  SkipInv'
<1>1. CASE key \notin DOMAIN stored
  <2>1. FindNode(key) = Nil
    BY <1>1, FindNodeIs
  <2>2. PICK height \in 1 .. MaxHeight : Insert(key, value, height)
    BY <2>1 DEF SkipPut
  <2>3. entries' = WithEntry(entries, key, value)
    BY <2>1 DEF SkipPut
  <2> QED BY <1>1, <2>2, <2>3, InsertKeeps
<1>2. CASE key \in DOMAIN stored
  <2>1. FindNode(key) # Nil
    BY <1>2, FindNodeIs
  <2>2. /\ stored' = IF replace THEN [stored EXCEPT ![key] = value] ELSE stored
        /\ entries' = IF replace THEN [entries EXCEPT ![key] = value] ELSE entries
        /\ forward' = forward /\ topLevel' = topLevel /\ length' = length
    BY <2>1 DEF SkipPut
  <2>3. /\ DOMAIN stored' = DOMAIN stored /\ DOMAIN entries' = DOMAIN entries
        /\ \A k \in DOMAIN stored :
              stored'[k] = IF replace /\ k = key THEN value ELSE stored[k]
        /\ \A k \in DOMAIN entries :
              entries'[k] = IF replace /\ k = key THEN value ELSE entries[k]
    BY <2>2
  <2>4. SkipTypes'
    BY <2>2, <2>3 DEF SkipInv, SkipTypes
  <2>5. Heights'
    BY <2>2, <2>3 DEF SkipInv, Heights
  <2>6. Linked'
    BY <2>2 DEF SkipInv, Linked, OnLevel
  <2>7. IsTheMap'
    BY <2>3 DEF SkipInv, IsTheMap
  <2> QED BY <2>4, <2>5, <2>6, <2>7 DEF SkipInv
<1> QED BY <1>1, <1>2

LEMMA SkipDeleteKeeps ==
    ASSUME SkipInv, NEW key \in SkipKey, SkipDelete(key)
    PROVE  SkipInv'
<1> DEFINE path == Path(key)
           linked == {l \in 1 .. topLevel : forward[path[l]][l] = key}
           other(n) == [l \in DOMAIN forward[n] |->
                           IF l \in linked /\ path[l] = n
                           THEN forward[key][l] ELSE forward[n][l]]
           head == other(Top)
<1>1. key \in DOMAIN stored
  BY FindNodeIs DEF SkipDelete
<1>2. /\ DOMAIN forward \in Indices /\ Top \in DOMAIN forward
      /\ DOMAIN stored = DOMAIN forward \ {Top}
      /\ topLevel \in Nat /\ 1 <= topLevel /\ topLevel <= MaxHeight /\ MaxHeight \in Nat
      /\ key \in Nat \ {0} /\ key # Top /\ key \in DOMAIN forward
  BY <1>1, SkipListAssumption DEF SkipInv, SkipTypes, Top
<1>3. /\ forward' = [n \in DOMAIN forward \ {key} |-> other(n)]
      /\ topLevel' = Lowered(forward'[Top])
      /\ stored' = [n \in DOMAIN stored \ {key} |-> stored[n]]
      /\ length' = length - 1
      /\ entries' = [k \in DOMAIN entries \ {key} |-> entries[k]]
  BY DEF SkipDelete
<1>4. /\ DOMAIN forward' = DOMAIN forward \ {key}
      /\ \A n \in DOMAIN forward : n # key => forward'[n] = other(n)
  <2> HIDE DEF other
  <2> QED BY <1>3
<1>5. /\ \A n : DOMAIN other(n) = DOMAIN forward[n]
      /\ \A n : \A l \in DOMAIN forward[n] :
            other(n)[l] = IF l \in linked /\ path[l] = n THEN forward[key][l]
                          ELSE forward[n][l]
  <2> HIDE DEF linked, path
  <2> QED OBVIOUS
<1>6. ASSUME NEW l \in 1 .. topLevel
      PROVE  /\ l \in linked <=> key \in OnLevel(l)
             /\ path[l] \in OnLevel(l) /\ path[l] < key
             /\ \A m \in OnLevel(l) : m < key => m <= path[l]
  <2> DEFINE p == path[l]
             S == OnLevel(l)
  <2>1. p \in S /\ p < key /\ \A m \in S : m < key => m <= p
    BY PathIs
  <2>2. IsNext(S, p, forward[p][l])
    BY <1>2, <2>1 DEF SkipInv, Linked
  <2>3. S \subseteq Nat
    BY LevelsAre DEF Indices
  <2>4. l \in linked <=> forward[p][l] = key
    OBVIOUS
  <2> HIDE DEF p, S, linked, path
  <2>5. p \in Nat
    BY <2>1, <2>3
  <2>6. ASSUME key \in S PROVE forward[p][l] = key
    <3>1. forward[p][l] # Nil
      BY <2>1, <2>2, <2>3, <2>6 DEF IsNext, Nil
    <3>2. forward[p][l] \in S /\ p < forward[p][l] /\ forward[p][l] <= key
      BY <2>1, <2>2, <2>6, <3>1 DEF IsNext
    <3>3. forward[p][l] \in Nat /\ key \in Nat
      BY <1>2, <2>3, <3>2
    <3>4. ~(forward[p][l] < key)
      BY <2>1, <2>5, <3>2, <3>3
    <3> QED BY <3>2, <3>3, <3>4
  <2>7. ASSUME forward[p][l] = key PROVE key \in S
    BY <1>2, <2>2, <2>7 DEF IsNext, Nil
  <2> QED BY <2>1, <2>4, <2>6, <2>7 DEF p, S
<1> HIDE DEF path, linked, other
<1>7. Lowered(forward'[Top]) \in 1 .. topLevel
      /\ \A l \in 1 .. topLevel : forward'[Top][l] # Nil => l <= Lowered(forward'[Top])
  <2> DEFINE L == {1} \cup {l \in 1 .. topLevel : forward'[Top][l] # Nil}
  <2>1. L \in SUBSET (1 .. topLevel) /\ 1 .. topLevel \in Indices
    BY <1>2, IntervalIndices
  <2>2. L \in Indices /\ L # {}
    <3> HIDE DEF L
    <3> QED BY <2>1, SubsetIndices DEF L
  <2>3. Lowered(forward'[Top]) = Max(L)
    BY DEF Lowered
  <2>4. \A l \in 1 .. topLevel : forward'[Top][l] # Nil => l \in L
    OBVIOUS
  <2> HIDE DEF L
  <2> QED BY <2>1, <2>2, <2>3, <2>4, MaxIsGreatest
<1>8. topLevel' \in 1 .. topLevel /\ topLevel' \in Nat
      /\ \A l \in 1 .. topLevel : forward'[Top][l] # Nil => l <= topLevel'
  <2>1. topLevel' = Lowered(forward'[Top])
    BY <1>3
  <2> QED BY <1>2, <1>7, <2>1
<1>9. /\ DOMAIN stored' = DOMAIN stored \ {key}
      /\ \A k \in DOMAIN stored \ {key} : stored'[k] = stored[k]
      /\ DOMAIN entries' = DOMAIN entries \ {key}
      /\ \A k \in DOMAIN entries \ {key} : entries'[k] = entries[k]
  BY <1>3
<1>10. \A l \in 1 .. MaxHeight : OnLevel(l)' = OnLevel(l) \ {key}
  BY <1>4, <1>5 DEF OnLevel
<1>11. Linked'
  <2> SUFFICES ASSUME NEW l \in 1 .. MaxHeight, NEW n \in OnLevel(l)'
               PROVE  IsNext(OnLevel(l)', n, forward'[n][l])
    BY DEF Linked
  <2> DEFINE S == OnLevel(l)
             next == [m \in S |-> forward[m][l]]
  <2>1. S \in SUBSET Nat /\ S \subseteq DOMAIN forward
    BY <1>2, LevelsAre DEF Indices
  <2>2. \A m \in S : IsNext(S, m, next[m]) /\ next[m] = forward[m][l] /\ l \in DOMAIN forward[m]
    BY DEF SkipInv, Linked, OnLevel
  <2>3. OnLevel(l)' = S \ {key}
    BY <1>10
  <2>4. n \in S /\ n # key
    BY <2>3
  <2>5. forward'[n][l] = IF l \in linked /\ path[l] = n THEN forward[key][l] ELSE next[n]
    BY <1>4, <1>5, <2>1, <2>2, <2>4
  <2>6. l \in Nat /\ 1 <= l /\ (l \in linked => l <= topLevel)
    BY <1>2 DEF linked
  <2> HIDE DEF S, next
  <2>7. CASE key \in S
    <3>1. l <= topLevel
      <4>1. S = {Top} \/ l <= topLevel
        BY <1>2, <2>6, LevelsAre DEF S
      <4> QED BY <1>2, <2>7, <4>1
    <3> DEFINE p == path[l]
    <3>2. l \in linked /\ p \in S /\ p < key /\ \A m \in S : m < key => m <= p
      BY <1>6, <2>6, <2>7, <3>1 DEF S
    <3> HIDE DEF p
    <3>3. IsNext(S \ {key}, n, IF n = p THEN next[key] ELSE next[n])
      BY <2>1, <2>2, <2>4, <2>7, <3>2, NextWithoutNode
    <3>4. forward'[n][l] = IF n = p THEN next[key] ELSE next[n]
      BY <2>2, <2>5, <2>7, <3>2 DEF p
    <3> QED BY <2>3, <3>3, <3>4
  <2>8. CASE key \notin S
    <3>1. l \notin linked
      BY <1>2, <1>6, <2>6, <2>8 DEF S
    <3>2. S \ {key} = S
      BY <2>8
    <3> QED BY <2>2, <2>3, <2>4, <2>5, <3>1, <3>2
  <2> QED BY <2>7, <2>8
<1>12. Heights'
  <2>1. DOMAIN forward'[Top] = 1 .. MaxHeight
    BY <1>2, <1>4, <1>5 DEF SkipInv, Heights
  <2>2. ASSUME NEW n \in DOMAIN stored, n # key
        PROVE  \E h \in 1 .. topLevel' : DOMAIN forward'[n] = 1 .. h
    <3>1. PICK h \in 1 .. topLevel : DOMAIN forward[n] = 1 .. h
      BY DEF SkipInv, Heights
    <3>2. DOMAIN forward'[n] = 1 .. h
      BY <1>2, <1>4, <1>5, <2>2, <3>1
    <3>3. h \in 1 .. MaxHeight /\ h \in Nat /\ 1 <= h
      BY <1>2, <3>1
    <3>4. n \in OnLevel(h)' /\ Top \in OnLevel(h)' /\ n # Top
      BY <1>2, <1>4, <2>1, <2>2, <3>2, <3>3 DEF OnLevel
    <3>5. IsNext(OnLevel(h)', Top, forward'[Top][h])
      BY <1>11, <3>3, <3>4 DEF Linked
    <3>6. Top < n
      BY <1>2, <2>2, LevelsAre DEF Top
    <3>7. forward'[Top][h] # Nil
      <4>1. OnLevel(h)' \subseteq Nat
        BY <1>10, <3>3, LevelsAre DEF Indices
      <4> QED BY <3>4, <3>5, <3>6, <4>1 DEF IsNext, Nil
    <3>8. h <= topLevel'
      BY <1>8, <3>1, <3>7
    <3> QED BY <1>8, <3>2, <3>3, <3>8
  <2> QED BY <1>9, <2>1, <2>2 DEF Heights
<1>13. SkipTypes'
  <2>1. DOMAIN forward' \in Indices
    BY <1>2, <1>4, SubsetIndices
  <2>2. IsFiniteSet(DOMAIN stored)
    BY <1>2, FS_Subset DEF Indices
  <2>3. Cardinality(DOMAIN stored \ {key}) = Cardinality(DOMAIN stored) - 1
    BY <1>1, <2>2, FS_RemoveElement
  <2>4. topLevel' \in 1 .. MaxHeight
    BY <1>2, <1>8
  <2> QED BY <1>2, <1>3, <1>4, <1>9, <2>1, <2>3, <2>4 DEF SkipTypes, SkipInv
<1>14. IsTheMap'
  BY <1>9 DEF SkipInv, IsTheMap
<1> QED BY <1>11, <1>12, <1>13, <1>14 DEF SkipInv

LEMMA SkipInvStutters ==
    ASSUME SkipInv, UNCHANGED skipVars
    PROVE  SkipInv'
<1>1. forward' = forward /\ stored' = stored /\ topLevel' = topLevel /\ length' = length
      /\ entries' = entries
  BY DEF skipVars, list
<1>2. SkipTypes'
  BY <1>1 DEF SkipInv, SkipTypes
<1>3. Heights'
  BY <1>1 DEF SkipInv, Heights
<1>4. Linked'
  BY <1>1 DEF SkipInv, Linked, OnLevel
<1>5. IsTheMap'
  BY <1>1 DEF SkipInv, IsTheMap
<1> QED BY <1>2, <1>3, <1>4, <1>5 DEF SkipInv

LEMMA SkipInvStep ==
    ASSUME SkipInv, [SkipNext]_skipVars
    PROVE  SkipInv'
BY SkipInvStutters, SkipPutKeeps, SkipDeleteKeeps, SkipClearKeeps DEF SkipNext

-----------------------------------------------------------------------------
(* The records in their order.                                             *)
Listing(S, v) == [i \in 1 .. Cardinality(S) |-> <<Nth(S, i - 1), v[Nth(S, i - 1)]>>]

Pairs(v) == {<<k, v[k]>> : k \in DOMAIN v}

LEMMA ListingIs ==
    ASSUME NEW v, NEW S \in Indices, S \subseteq DOMAIN v
    PROVE  /\ Cardinality(S) \in Nat
           /\ Listing(S, v) \in Seq(Pairs(v))
           /\ Len(Listing(S, v)) = Cardinality(S)
           /\ \A i \in 1 .. Cardinality(S) :
                 /\ Nth(S, i - 1) \in S
                 /\ Listing(S, v)[i] = <<Nth(S, i - 1), v[Nth(S, i - 1)]>>
<1> DEFINE c == Cardinality(S)
<1>1. c \in Nat
  BY FS_CardinalityType DEF Indices
<1>2. \A i \in 1 .. c : Nth(S, i - 1) \in S
  BY <1>1, NthOf
<1> HIDE DEF c
<1>3. Listing(S, v) = [i \in 1 .. c |-> <<Nth(S, i - 1), v[Nth(S, i - 1)]>>]
  BY DEF Listing, c
<1>4. \A i \in 1 .. c : <<Nth(S, i - 1), v[Nth(S, i - 1)]>> \in Pairs(v)
  BY <1>2 DEF Pairs
<1>5. Listing(S, v) \in [1 .. c -> Pairs(v)]
  BY <1>3, <1>4
<1>6. Listing(S, v) \in Seq(Pairs(v))
  BY <1>1, <1>5, SeqDef
<1>7. Len(Listing(S, v)) = c
  BY <1>1, <1>3, <1>6, LenProperties
<1> QED BY <1>1, <1>2, <1>3, <1>6, <1>7 DEF c

(* Counting from n on.                                                     *)
LEMMA NthWithoutFirst ==
    ASSUME NEW S \in Indices, NEW n \in S, \A m \in S : n <= m
    PROVE  /\ S \ {n} \in Indices
           /\ Cardinality(S) = Cardinality(S \ {n}) + 1 /\ Cardinality(S \ {n}) \in Nat
           /\ Nth(S, 0) = n
           /\ \A i \in 1 .. Cardinality(S \ {n}) : Nth(S \ {n}, i - 1) = Nth(S, i)
<1> DEFINE T == S \ {n}
<1>1. T \in SUBSET S /\ IsFiniteSet(S) /\ S \subseteq Nat
  BY DEF Indices
<1>2. T \in Indices
  BY <1>1, SubsetIndices
<1>3. Cardinality(S) = Cardinality(T) + 1 /\ Cardinality(T) \in Nat
      /\ Cardinality(S) \in Nat
  BY <1>1, OneLess
<1>4. Nth(S, 0) = n
  <2>1. \A j \in S : ~(j < n)
    BY <1>1
  <2>2. {j \in S : j < n} = {}
    BY <2>1
  <2>3. Rank(S, n) = 0
    BY <2>2, FS_EmptySet DEF Rank
  <2> QED BY <2>3, NthCovers
<1> HIDE DEF T
<1>5. ASSUME NEW i \in 1 .. Cardinality(T) PROVE Nth(T, i - 1) = Nth(S, i)
  <2> DEFINE k == Nth(T, i - 1)
  <2>1. k \in T /\ Rank(T, k) = i - 1
    BY <1>2, <1>3, NthOf
  <2> HIDE DEF k
  <2>2. k \in S /\ k # n /\ n < k
    BY <1>1, <2>1 DEF T
  <2>3. {j \in S : j < k} = {j \in T : j < k} \cup {n} /\ n \notin {j \in T : j < k}
    BY <2>2 DEF T
  <2>4. IsFiniteSet({j \in T : j < k})
    <3>1. {j \in T : j < k} \in SUBSET T
      OBVIOUS
    <3> QED BY <1>2, <3>1, FS_Subset DEF Indices
  <2>5. Rank(S, k) = Rank(T, k) + 1
    BY <2>3, <2>4, FS_AddElement DEF Rank
  <2>6. Rank(S, k) = i
    BY <2>1, <2>5
  <2> QED BY <2>2, <2>6, NthCovers DEF k
<1> QED BY <1>2, <1>3, <1>4, <1>5 DEF T

LEMMA ListingStep ==
    ASSUME NEW v, NEW S \in Indices, S \subseteq DOMAIN v,
           NEW n \in S, \A m \in S : n <= m
    PROVE  Listing(S, v) = <<<<n, v[n]>>>> \o Listing(S \ {n}, v)
<1> DEFINE T == S \ {n}
           c == Cardinality(T)
           e == <<n, v[n]>>
           P == Pairs(v)
           s == Listing(S, v)
           t == Listing(T, v)
<1>1. T \in Indices /\ T \subseteq DOMAIN v /\ Cardinality(S) = c + 1 /\ c \in Nat
      /\ Nth(S, 0) = n /\ \A i \in 1 .. c : Nth(T, i - 1) = Nth(S, i)
  BY NthWithoutFirst
<1>2. /\ s \in Seq(P) /\ Len(s) = c + 1
      /\ \A i \in 1 .. c + 1 : s[i] = <<Nth(S, i - 1), v[Nth(S, i - 1)]>>
  <2>1. /\ s \in Seq(P) /\ Len(s) = Cardinality(S)
        /\ \A i \in 1 .. Cardinality(S) : s[i] = <<Nth(S, i - 1), v[Nth(S, i - 1)]>>
    BY ListingIs
  <2> HIDE DEF s, P, c, T
  <2> QED BY <1>1, <2>1
<1>3. /\ t \in Seq(P) /\ Len(t) = c
      /\ \A i \in 1 .. c : t[i] = <<Nth(T, i - 1), v[Nth(T, i - 1)]>>
  <2> HIDE DEF T
  <2> QED BY <1>1, ListingIs
<1>4. e \in P
  BY DEF Pairs
<1> HIDE DEF T, c, P, s, t
<1>5. s[1] = e
  <2>1. 1 \in 1 .. c + 1 /\ 1 - 1 = 0
    BY <1>1
  <2> QED BY <1>1, <1>2, <2>1
<1>6. \A i \in 1 .. c : s[i + 1] = t[i]
  <2> SUFFICES ASSUME NEW i \in 1 .. c PROVE s[i + 1] = t[i]
    OBVIOUS
  <2>1. i + 1 \in 1 .. c + 1 /\ (i + 1) - 1 = i
    BY <1>1
  <2> QED BY <1>1, <1>2, <1>3, <2>1
<1> HIDE DEF e
<1>7. <<e>> \in Seq(P) /\ Len(<<e>>) = 1 /\ <<e>>[1] = e
  BY <1>4
<1> DEFINE r == <<e>> \o t
<1>8. r \in Seq(P) /\ Len(r) = c + 1
      /\ \A i \in 1 .. c + 1 : r[i] = IF i <= 1 THEN <<e>>[i] ELSE t[i - 1]
  <2>1. /\ r \in Seq(P) /\ Len(r) = Len(<<e>>) + Len(t)
        /\ \A i \in 1 .. Len(<<e>>) + Len(t) :
              r[i] = IF i <= Len(<<e>>) THEN <<e>>[i] ELSE t[i - Len(<<e>>)]
    BY <1>3, <1>7, ConcatProperties
  <2>2. Len(<<e>>) + Len(t) = c + 1
    BY <1>1, <1>3, <1>7
  <2> HIDE DEF r
  <2> QED BY <1>7, <2>1, <2>2
<1> HIDE DEF r
<1>9. ASSUME NEW i \in 1 .. c + 1 PROVE s[i] = r[i]
  <2>1. CASE i = 1
    BY <1>5, <1>7, <1>8, <2>1
  <2>2. CASE i # 1
    <3>1. i - 1 \in 1 .. c /\ (i - 1) + 1 = i /\ ~(i <= 1)
      BY <1>1, <2>2
    <3> QED BY <1>6, <1>8, <3>1
  <2> QED BY <2>1, <2>2
<1>10. s = r
  BY <1>2, <1>8, <1>9, SeqEqual
<1> QED BY <1>10 DEF s, r, t, T, e

Gathering(from) ==
    from = [n \in DOMAIN stored \cup {Nil} |->
               IF n = Nil THEN <<>> ELSE <<<<n, stored[n]>>>> \o from[forward[n][1]]]

LEMMA ListEntriesIs ==
    ASSUME SkipInv
    PROVE  ListEntries = Listing(DOMAIN stored, stored)
<1> DEFINE D == DOMAIN stored
           next(n) == forward[n][1]
           From(n) == {m \in D : n # Nil /\ n <= m}
           List(n) == Listing(From(n), stored)
           g == [n \in D \cup {Nil} |-> List(n)]
<1>1. D \in Indices /\ D \subseteq Nat \ {0} /\ Nil \notin D /\ D = DOMAIN forward \ {Top}
  <2>1. D = DOMAIN forward \ {Top} /\ DOMAIN forward \in Indices
    BY DEF SkipInv, SkipTypes
  <2> QED BY <2>1, SubsetIndices, LevelsAre DEF Nil
<1>2. \A n \in D : IsNext(DOMAIN forward, n, next(n))
  <2>1. 1 \in 1 .. MaxHeight /\ OnLevel(1) = DOMAIN forward
    BY SkipListAssumption, LevelsAre
  <2> QED BY <1>1, <2>1 DEF SkipInv, Linked
<1> HIDE DEF D, next
<1>3. ASSUME NEW n \in D
      PROVE  /\ next(n) \in D \cup {Nil} /\ (next(n) # Nil => n < next(n))
             /\ From(next(n)) = From(n) \ {n}
  <2>1. IsNext(DOMAIN forward, n, next(n)) /\ n \in Nat \ {0}
    BY <1>1, <1>2
  <2>2. CASE next(n) = Nil /\ \A m \in DOMAIN forward : ~(n < m)
    BY <1>1, <2>1, <2>2
  <2>3. CASE next(n) \in DOMAIN forward /\ n < next(n)
             /\ \A m \in DOMAIN forward : n < m => next(n) <= m
    <3>1. next(n) \in D /\ next(n) \in Nat /\ next(n) # Nil
      BY <1>1, <2>1, <2>3 DEF Top
    <3>2. \A m \in D : n <= m /\ m # n <=> next(n) <= m
      BY <1>1, <2>1, <2>3, <3>1
    <3> QED BY <1>1, <2>3, <3>1, <3>2
  <2> QED BY <2>1, <2>2, <2>3 DEF IsNext
<1>4. ASSUME NEW n \in D
      PROVE  List(n) = <<<<n, stored[n]>>>> \o List(next(n))
  <2> DEFINE S == From(n)
  <2>1. S \in SUBSET D /\ n \in S /\ \A m \in S : n <= m
    BY <1>1
  <2>2. S \in Indices /\ S \subseteq DOMAIN stored
    BY <1>1, <2>1, SubsetIndices DEF D
  <2> HIDE DEF S
  <2>3. Listing(S, stored) = <<<<n, stored[n]>>>> \o Listing(S \ {n}, stored)
    BY <2>1, <2>2, ListingStep
  <2>4. From(next(n)) = S \ {n}
    BY <1>3 DEF S
  <2> QED BY <2>3, <2>4 DEF S
<1>5. List(Nil) = <<>>
  <2>1. From(Nil) = {}
    OBVIOUS
  <2>2. {} \in Indices
    BY FS_EmptySet DEF Indices
  <2>3. Listing({}, stored) \in Seq(Pairs(stored)) /\ Len(Listing({}, stored)) = 0
    BY <2>2, ListingIs, FS_EmptySet
  <2>4. Listing({}, stored) = <<>>
    BY <2>3, EmptySeq
  <2> QED BY <2>1, <2>4
<1> HIDE DEF From, List
<1>6. Gathering(g)
  <2>1. ASSUME NEW n \in D \cup {Nil}
        PROVE  g[n] = IF n = Nil THEN <<>> ELSE <<<<n, stored[n]>>>> \o g[next(n)]
    <3>1. CASE n = Nil
      BY <1>5, <3>1
    <3>2. CASE n # Nil
      <4>1. n \in D /\ next(n) \in D \cup {Nil}
        BY <1>3, <3>2
      <4> QED BY <1>4, <3>2, <4>1
    <3> QED BY <3>1, <3>2
  <2> DEFINE h == [n \in D \cup {Nil} |->
                      IF n = Nil THEN <<>> ELSE <<<<n, stored[n]>>>> \o g[next(n)]]
  <2>2. g = h
    <3>1. DOMAIN g = D \cup {Nil} /\ DOMAIN h = D \cup {Nil}
      OBVIOUS
    <3>2. \A n \in D \cup {Nil} : g[n] = h[n]
      <4> HIDE DEF g
      <4> QED BY <2>1
    <3> QED BY <3>1, <3>2
  <2> HIDE DEF g
  <2> QED BY <2>2, Zenon DEF Gathering, D, next
<1> HIDE DEF g
<1> DEFINE f == CHOOSE from : Gathering(from)
<1>7. ListEntries = f[FirstKey]
  BY Zenon DEF ListEntries, Gathering
<1>8. Gathering(f)
  BY <1>6, Zenon
<1> HIDE DEF f
<1>9. \A n \in D \cup {Nil} :
         f[n] = IF n = Nil THEN <<>> ELSE <<<<n, stored[n]>>>> \o f[next(n)]
  BY <1>8, Zenon DEF Gathering, D, next
<1> DEFINE Bad == {n \in D : f[n] # List(n)}
<1>10. f[Nil] = List(Nil)
  BY <1>5, <1>9
<1>11. Bad = {}
  <2> SUFFICES ASSUME Bad # {} PROVE FALSE
    OBVIOUS
  <2>1. Bad \in Indices
    BY <1>1, SubsetIndices
  <2>2. PICK n \in Bad : \A m \in Bad : m <= n
    BY <2>1, MaxIsGreatest
  <2>3. n \in D /\ n \in Nat /\ n # Nil /\ f[n] # List(n)
    BY <1>1
  <2>4. next(n) \in D \cup {Nil} /\ (next(n) # Nil => n < next(n))
    BY <1>3, <2>3
  <2>5. f[next(n)] = List(next(n))
    <3>1. CASE next(n) = Nil
      BY <1>10, <3>1
    <3>2. CASE next(n) # Nil
      <4>1. next(n) \in D /\ next(n) \in Nat /\ n < next(n)
        BY <1>1, <2>4, <3>2
      <4>2. next(n) \notin Bad
        BY <2>2, <2>3, <4>1
      <4> QED BY <4>1, <4>2
    <3> QED BY <3>1, <3>2
  <2>6. f[n] = List(n)
    BY <1>4, <1>9, <2>3, <2>5
  <2> QED BY <2>3, <2>6
<1>12. FirstKey \in D \cup {Nil} /\ From(FirstKey) = D
  <2>1. CASE FirstKey = Nil /\ D = {}
    BY <2>1 DEF From
  <2>2. CASE FirstKey \in D /\ \A k \in D : FirstKey <= k
    BY <1>1, <2>2 DEF From
  <2> QED BY <2>1, <2>2, FirstAndLast DEF D
<1>13. f[FirstKey] = List(FirstKey)
  BY <1>10, <1>11, <1>12
<1> QED BY <1>7, <1>12, <1>13 DEF List, D

(* The scan cuts the list where the keys reach the boundaries.             *)
Below(key) == {k \in DOMAIN stored : k < key}

LEMMA BelowIs ==
    ASSUME SkipInv, NEW key
    PROVE  /\ Below(key) \in SUBSET DOMAIN stored /\ IsFiniteSet(Below(key))
           /\ Cardinality(Below(key)) \in 0 .. Cardinality(DOMAIN stored)
           /\ Cardinality(DOMAIN stored) \in Nat /\ DOMAIN stored \in Indices
<1>1. DOMAIN stored \in Indices
  <2>1. DOMAIN stored = DOMAIN forward \ {Top} /\ DOMAIN forward \in Indices
    BY DEF SkipInv, SkipTypes
  <2> QED BY <2>1, SubsetIndices
<1>2. IsFiniteSet(DOMAIN stored)
  BY <1>1 DEF Indices
<1>3. Below(key) \in SUBSET DOMAIN stored
  BY DEF Below
<1>4. IsFiniteSet(Below(key)) /\ Cardinality(Below(key)) <= Cardinality(DOMAIN stored)
  BY <1>2, <1>3, FS_Subset
<1>5. Cardinality(Below(key)) \in Nat /\ Cardinality(DOMAIN stored) \in Nat
  BY <1>2, <1>4, FS_CardinalityType
<1> QED BY <1>1, <1>3, <1>4, <1>5

LEMMA CutIs ==
    ASSUME SkipInv, NEW key \in SkipKey, NEW default
    PROVE  Cut(key, default) = Cardinality(Below(key)) + 1
<1> DEFINE D == DOMAIN stored
           N == Cardinality(D)
           b == Cardinality(Below(key))
           L == Listing(D, stored)
           I == {i \in 1 .. N : Nth(D, i - 1) >= key}
           M == {N + 1} \cup I
<1>1. D \in Indices /\ N \in Nat /\ b \in Nat /\ b <= N /\ key \in Nat \ {0}
      /\ D \subseteq Nat /\ IsFiniteSet(D)
  BY BelowIs, SkipListAssumption DEF Indices
<1>2. /\ Len(L) = N /\ DOMAIN L = 1 .. N
      /\ \A i \in 1 .. N : Nth(D, i - 1) \in D /\ L[i] = <<Nth(D, i - 1), stored[Nth(D, i - 1)]>>
  BY <1>1, ListingIs, LenProperties
<1>3. Cut(key, default) = Min(M)
  <2>1. ListEntries = L
    BY ListEntriesIs
  <2>2. key # 0
    BY <1>1
  <2> HIDE DEF L, N, D
  <2>3. \A i \in 1 .. N : AtLeast(L[i], key) <=> Nth(D, i - 1) >= key
    BY <1>2 DEF AtLeast
  <2>4. {i \in DOMAIN L : AtLeast(L[i], key)} = I
    BY <1>2, <2>3
  <2> HIDE DEF I
  <2>5. Cut(key, default) = Min({Len(L) + 1} \cup {i \in DOMAIN L : AtLeast(L[i], key)})
    BY <2>1, <2>2, Zenon DEF Cut
  <2> QED BY <1>2, <2>4, <2>5
<1>4. \A i \in 1 .. N : Nth(D, i - 1) >= key <=> i > b
  <2> SUFFICES ASSUME NEW i \in 1 .. N PROVE Nth(D, i - 1) >= key <=> i > b
    OBVIOUS
  <2> DEFINE k == Nth(D, i - 1)
             R == {j \in D : j < k}
  <2>1. i - 1 \in 0 .. (N - 1) /\ i \in Nat
    BY <1>1
  <2>2. k \in D /\ Cardinality(R) = i - 1
    BY <1>1, <2>1, NthOf DEF Rank
  <2> HIDE DEF k
  <2>3. k \in Nat /\ R \in SUBSET D /\ IsFiniteSet(R)
    BY <1>1, <2>2, FS_Subset
  <2>4. ASSUME k >= key PROVE i > b
    <3>1. Below(key) \in SUBSET R
      BY <1>1, <2>3, <2>4 DEF Below
    <3>2. b <= Cardinality(R)
      BY <2>3, <3>1, FS_Subset
    <3> QED BY <1>1, <2>1, <2>2, <3>2
  <2>5. ASSUME ~(k >= key) PROVE ~(i > b)
    <3>1. R \cup {k} \in SUBSET Below(key) /\ k \notin R
      BY <1>1, <2>2, <2>3, <2>5 DEF Below
    <3>2. Cardinality(R \cup {k}) = Cardinality(R) + 1
      BY <2>3, <3>1, FS_AddElement
    <3>3. Cardinality(R \cup {k}) <= b
      BY <3>1, BelowIs, FS_Subset
    <3> QED BY <1>1, <2>1, <2>2, <3>2, <3>3
  <2> QED BY <2>4, <2>5 DEF k
<1>5. \A i : i \in M <=> i \in b + 1 .. N + 1
  <2> HIDE DEF N, D, b
  <2> QED BY <1>1, <1>4
<1> HIDE DEF N, D, b, M
<1>6. M \in SUBSET Nat /\ b + 1 \in M /\ \A i \in M : b + 1 <= i
  BY <1>1, <1>5
<1>7. Min(M) \in M /\ \A i \in M : Min(M) <= i
  BY <1>6, LeastOfNaturals
<1> DEFINE m == Min(M)
<1>8. m \in M /\ m <= b + 1 /\ b + 1 <= m /\ m \in Nat
  BY <1>6, <1>7
<1> HIDE DEF m
<1>9. m = b + 1
  BY <1>1, <1>8
<1> QED BY <1>3, <1>9 DEF b, m

LEMMA ScanIs ==
    ASSUME SkipInv, NEW startKey \in SkipKey \cup {0}, NEW endKey \in SkipKey \cup {0},
           NEW keys, keys = {k \in DOMAIN stored :
                                k >= startKey /\ (endKey = 0 \/ k < endKey)}
    PROVE  MemScan(startKey, endKey) = Listing(keys, stored)
<1> DEFINE D == DOMAIN stored
           N == Cardinality(D)
           L == Listing(D, stored)
           Low == Below(startKey)
           Upto == IF endKey = 0 THEN D ELSE Below(endKey)
           a == Cardinality(Low)
           b == Cardinality(Upto)
           c == Cardinality(keys)
           P == Pairs(stored)
           s == MemScan(startKey, endKey)
           t == Listing(keys, stored)
<1>1. /\ D \in Indices /\ D \subseteq Nat \ {0} /\ IsFiniteSet(D) /\ N \in Nat
      /\ startKey \in Nat /\ endKey \in Nat
  BY BelowIs, LevelsAre, SkipListAssumption DEF Indices
<1>2. /\ Low \in SUBSET D /\ IsFiniteSet(Low) /\ a \in Nat
      /\ Upto \in SUBSET D /\ IsFiniteSet(Upto) /\ b \in 0 .. N /\ b \in Nat
  BY <1>1, BelowIs
<1>3. keys = Upto \ Low /\ keys \in SUBSET D
  BY <1>1 DEF Below
<1>4. keys \in Indices /\ IsFiniteSet(keys) /\ c \in Nat
  BY <1>1, <1>3, SubsetIndices, FS_Subset, FS_CardinalityType
<1>5. c = IF a <= b THEN b - a ELSE 0
  <2>1. CASE endKey = 0 \/ startKey <= endKey
    <3>1. Low \in SUBSET Upto
      BY <1>1, <2>1 DEF Below
    <3>2. Upto \cap Low = Low
      BY <3>1
    <3>3. c = b - a
      BY <1>2, <1>3, <3>2, FS_Difference
    <3>4. a <= b
      BY <1>2, <3>1, FS_Subset
    <3> QED BY <3>3, <3>4
  <2>2. CASE endKey # 0 /\ endKey < startKey
    <3>1. Upto \in SUBSET Low
      BY <1>1, <2>2 DEF Below
    <3>2. keys = {}
      BY <1>3, <3>1
    <3>3. c = 0
      BY <3>2, FS_EmptySet
    <3>4. b <= a
      BY <1>2, <3>1, FS_Subset
    <3> QED BY <1>2, <3>3, <3>4
  <2> QED BY <1>1, <2>1, <2>2
<1>6. ListEntries = L /\ L \in Seq(P) /\ Len(L) = N
      /\ \A i \in 1 .. N : L[i] = <<Nth(D, i - 1), stored[Nth(D, i - 1)]>> /\ L[i] \in P
  <2>1. \A i \in 1 .. N : Nth(D, i - 1) \in D /\ L[i] = <<Nth(D, i - 1), stored[Nth(D, i - 1)]>>
    BY <1>1, ListingIs
  <2>2. \A i \in 1 .. N : L[i] \in P
    BY <2>1 DEF Pairs
  <2> QED BY <1>1, <2>1, <2>2, ListEntriesIs, ListingIs
<1>7. Cut(startKey, 1) = a + 1
  <2>1. CASE startKey = 0
    <3>1. Low = {}
      BY <1>1, <2>1 DEF Below
    <3>2. a = 0
      BY <3>1, FS_EmptySet
    <3> QED BY <2>1, <3>2 DEF Cut
  <2>2. CASE startKey # 0
    BY <2>2, CutIs
  <2> QED BY <2>1, <2>2
<1>8. Cut(endKey, N + 1) = b + 1
  <2>1. CASE endKey = 0
    BY <2>1 DEF Cut
  <2>2. CASE endKey # 0
    BY <2>2, CutIs
  <2> QED BY <2>1, <2>2
<1>9. s = SubSeq(L, a + 1, b)
  <2>1. s = SubSeq(L, Cut(startKey, 1), Cut(endKey, N + 1) - 1)
    BY <1>6, Zenon DEF MemScan
  <2>2. (b + 1) - 1 = b
    BY <1>2
  <2> HIDE DEF s, L, a, b, N
  <2> QED BY <1>7, <1>8, <2>1, <2>2
<1> HIDE DEF s
<1>10. /\ t \in Seq(P) /\ Len(t) = c
       /\ \A i \in 1 .. c : Nth(keys, i - 1) \in keys
                            /\ t[i] = <<Nth(keys, i - 1), stored[Nth(keys, i - 1)]>>
  BY <1>3, <1>4, ListingIs
<1> HIDE DEF t, L, P, N, c, a, b
<1>11. /\ s \in Seq(P) /\ Len(s) = c
       /\ \A i \in 1 .. c : s[i] = L[a + i]
  <2>1. \A i \in a + 1 .. b : L[i] \in P
    BY <1>2, <1>6
  <2>2. /\ s \in Seq(P)
        /\ Len(s) = IF a + 1 <= b THEN b - (a + 1) + 1 ELSE 0
        /\ \A i \in 1 .. b - (a + 1) + 1 : s[i] = L[a + 1 + i - 1]
    BY <1>2, <1>9, <2>1, SubSeqProperties
  <2>3. Len(s) = c
    BY <1>2, <1>5, <2>2
  <2>4. ASSUME NEW i \in 1 .. c PROVE s[i] = L[a + i]
    <3>1. i \in 1 .. b - (a + 1) + 1 /\ a + 1 + i - 1 = a + i
      BY <1>2, <1>5, <2>4
    <3> QED BY <2>2, <3>1
  <2> QED BY <2>2, <2>3, <2>4
<1>12. ASSUME NEW i \in 1 .. c PROVE s[i] = t[i]
  <2> DEFINE k == Nth(keys, i - 1)
             R == {j \in keys : j < k}
             Q == {j \in D : j < k}
  <2>1. i - 1 \in 0 .. (c - 1) /\ i \in Nat
    BY <1>4
  <2>2. k \in keys /\ Cardinality(R) = i - 1
    BY <1>4, <2>1, NthOf DEF Rank, c
  <2> HIDE DEF k
  <2>3. k \in D /\ k >= startKey /\ (endKey = 0 \/ k < endKey) /\ k \in Nat
    BY <1>1, <2>2
  <2>4. Q = Low \cup R /\ Low \cap R = {}
    BY <1>1, <1>3, <2>3 DEF Below
  <2>5. IsFiniteSet(R)
    <3>1. R \in SUBSET keys
      OBVIOUS
    <3> QED BY <1>4, <3>1, FS_Subset
  <2> HIDE DEF R, Q
  <2>6. Cardinality(Q) = a + (i - 1)
    <3>1. Cardinality(Low \cup R) = Cardinality(Low) + Cardinality(R) - Cardinality(Low \cap R)
      BY <1>2, <2>5, FS_Union
    <3>2. Cardinality(Low \cap R) = 0
      BY <2>4, FS_EmptySet
    <3>3. Cardinality(Low) = a /\ Cardinality(R) = i - 1
      BY <2>2 DEF a, R
    <3> QED BY <1>2, <2>1, <2>4, <3>1, <3>2, <3>3
  <2>7. Rank(D, k) = a + (i - 1)
    BY <2>6 DEF Rank, Q
  <2>8. Rank(D, k) \in 0 .. (N - 1) /\ Nth(D, Rank(D, k)) = k
    BY <1>1, <2>3, NthCovers DEF N
  <2>9. a + i \in 1 .. N /\ (a + i) - 1 = a + (i - 1)
    BY <1>1, <1>2, <2>1, <2>7, <2>8
  <2>10. L[a + i] = <<k, stored[k]>>
    BY <1>6, <2>7, <2>8, <2>9
  <2> QED BY <1>10, <1>11, <2>10 DEF k
<1>13. s = t
  BY <1>10, <1>11, <1>12, SeqEqual
<1> QED BY <1>13 DEF s, t

LEMMA ReadsFromInv ==
    ASSUME SkipInv
    PROVE  ReadsTheMap
<1>1. /\ DOMAIN entries = DOMAIN stored /\ \A k \in DOMAIN stored : entries[k] = stored[k]
      /\ DOMAIN stored \in Indices /\ DOMAIN stored \subseteq Nat \ {0}
      /\ length = Cardinality(DOMAIN stored)
  BY BelowIs, LevelsAre DEF SkipInv, IsTheMap, SkipTypes
<1>2. ASSUME NEW S \in SUBSET DOMAIN stored, NEW n \in S, \A k \in S : n <= k
      PROVE  Least(S) = n
  <2>1. S \in SUBSET Nat /\ S # {}
    BY <1>1, <1>2
  <2> DEFINE m == Min(S)
  <2>2. m \in S /\ m <= n /\ n <= m
    BY <1>2, <2>1, LeastOfNaturals
  <2>3. Least(S) = m
    BY <2>1 DEF Least
  <2> HIDE DEF m
  <2> QED BY <2>1, <2>2, <2>3
<1>3. Least({}) = Nil
  BY DEF Least
<1>4. ASSUME NEW key \in SkipKey
      PROVE  /\ Lookup(key) = IF key \in DOMAIN entries THEN entries[key] ELSE Nil
             /\ LowerBound(key) = Least({k \in DOMAIN entries : k >= key})
  <2>1. Lookup(key) = IF key \in DOMAIN entries THEN entries[key] ELSE Nil
    BY <1>1, FindNodeIs
  <2> DEFINE S == {k \in DOMAIN entries : k >= key}
             n == Landing(key)
  <2>2. key \in Nat
    BY SkipListAssumption
  <2>3. LowerBound(key) = n
    BY DEF LowerBound
  <2>4. CASE n = Nil /\ \A k \in DOMAIN stored : k < key
    <3>1. S = {}
      BY <1>1, <2>2, <2>4
    <3> QED BY <1>3, <2>1, <2>3, <2>4, <3>1
  <2>5. CASE /\ n \in DOMAIN stored /\ key <= n
             /\ \A k \in DOMAIN stored : key <= k => n <= k
    <3> HIDE DEF n
    <3>1. S \in SUBSET DOMAIN stored /\ n \in S /\ \A k \in S : n <= k
      BY <1>1, <2>2, <2>5
    <3> HIDE DEF S
    <3>2. Least(S) = n
      BY <1>2, <3>1
    <3> QED BY <2>1, <2>3, <3>2 DEF S
  <2> QED BY <2>4, <2>5, LandingIs
<1>5. FirstKey = Least(DOMAIN entries)
  <2>1. CASE FirstKey = Nil /\ DOMAIN stored = {}
    BY <1>1, <1>3, <2>1
  <2>2. CASE FirstKey \in DOMAIN stored /\ \A k \in DOMAIN stored : FirstKey <= k
    BY <1>1, <1>2, <2>2
  <2> QED BY <2>1, <2>2, FirstAndLast
<1>6. LastKey = IF DOMAIN entries = {} THEN Nil ELSE Max(DOMAIN entries)
  <2>1. DOMAIN entries = {} <=> DOMAIN stored = {}
    BY <1>1
  <2>2. CASE LastKey = Nil /\ DOMAIN stored = {}
    BY <2>1, <2>2
  <2>3. CASE LastKey \in DOMAIN stored /\ \A k \in DOMAIN stored : k <= LastKey
    <3> DEFINE m == Max(DOMAIN stored)
    <3>1. m \in DOMAIN stored /\ LastKey <= m /\ m <= LastKey
      BY <1>1, <2>3, MaxIsGreatest
    <3>2. m = LastKey
      <4> HIDE DEF m
      <4> QED BY <1>1, <2>3, <3>1
    <3>3. DOMAIN stored # {}
      BY <2>3
    <3> QED BY <1>1, <2>1, <3>2, <3>3
  <2> QED BY <2>2, <2>3, FirstAndLast
<1>7. length = Cardinality(DOMAIN entries)
  BY <1>1
<1>8. ASSUME NEW startKey \in SkipKey \cup {0}, NEW endKey \in SkipKey \cup {0},
             NEW keys,
             keys = {k \in DOMAIN entries : k >= startKey /\ (endKey = 0 \/ k < endKey)}
      PROVE  MemScan(startKey, endKey) =
                 [i \in 1 .. Cardinality(keys) |->
                     <<Nth(keys, i - 1), entries[Nth(keys, i - 1)]>>]
  <2>1. MemScan(startKey, endKey) = Listing(keys, stored)
    BY <1>1, <1>8, ScanIs
  <2>2. keys \subseteq DOMAIN stored
    BY <1>1, <1>8
  <2>3. keys \in Indices
    BY <1>1, <2>2, SubsetIndices
  <2>4. \A i \in 1 .. Cardinality(keys) : entries[Nth(keys, i - 1)] = stored[Nth(keys, i - 1)]
    <3>1. \A i \in 1 .. Cardinality(keys) : Nth(keys, i - 1) \in keys
      BY <2>2, <2>3, ListingIs
    <3> QED BY <1>1, <2>2, <3>1
  <2> QED BY <2>1, <2>4 DEF Listing
<1> QED BY <1>4, <1>5, <1>6, <1>7, <1>8 DEF ReadsTheMap

(* Whatever is set, added, deleted and cleared, and whatever heights the   *)
(* nodes draw, the list answers what the map it stands for answers         *)
(* (skipList.go), for any keys, values and greatest height.                *)
THEOREM SkipListReadsTheMap == SkipSpec => []ReadsTheMap
<1> QED BY ReadsFromInv, SkipInvInit, SkipInvStep, PTL DEF SkipSpec

-----------------------------------------------------------------------------
(* The size.  What it lacks is what the writers that have set a record     *)
(* still have to add.                                                      *)
Sizes(map) == [k \in DOMAIN map |-> recordSize(map[k])]
TotalOf(map) == SumFunctionOnSet(Sizes(map), DOMAIN map)

Adding == {w \in MemWriter : writing[w].at = "set"}
Owed(w) == writing[w].add
Pending == SumFunctionOnSet([w \in MemWriter |-> Owed(w)], Adding)

SizeInv ==
    /\ size \in Int
    /\ writing \in [MemWriter -> [at : {"idle", "checked", "set"}, add : Int]]
    /\ IsFiniteSet(Adding)
    /\ size + Pending = TotalOf(entries)

MemInv == SkipInv /\ SizeInv

LEMMA EntriesFacts ==
    ASSUME SkipInv
    PROVE  /\ IsFiniteSet(DOMAIN entries)
           /\ \A k \in DOMAIN entries : Sizes(entries)[k] \in Nat /\ entries[k] \in Nat
                                        /\ Sizes(entries)[k] = recordSize(entries[k])
           /\ TotalOf(entries) \in Nat
<1>1. DOMAIN entries \in Indices /\ IsFiniteSet(DOMAIN entries)
  BY BelowIs DEF SkipInv, IsTheMap, Indices
<1>2. \A k \in DOMAIN entries : entries[k] \in Nat
  BY MemTableAssumption DEF SkipInv, IsTheMap
<1>3. \A k \in DOMAIN entries : Sizes(entries)[k] = recordSize(entries[k])
  BY DEF Sizes
<1>4. \A k \in DOMAIN entries : Sizes(entries)[k] \in Nat
  BY <1>2, <1>3, MemTableAssumption DEF recordSize
<1> QED BY <1>1, <1>2, <1>3, <1>4, SumType DEF TotalOf

LEMMA PutGrows ==
    ASSUME SkipInv, NEW key \in SkipKey, NEW value \in SkipValue,
           SkipPut(key, value, TRUE)
    PROVE  /\ Growth(Lookup(key), value) \in Int
           /\ TotalOf(entries') = TotalOf(entries) + Growth(Lookup(key), value)
<1> DEFINE D == DOMAIN entries
           E == DOMAIN entries'
           f == Sizes(entries)
           g == Sizes(entries')
           new == recordSize(value)
<1>1. /\ IsFiniteSet(D) /\ \A k \in D : f[k] \in Nat /\ entries[k] \in Nat
                                         /\ f[k] = recordSize(entries[k])
      /\ new \in Nat /\ D = DOMAIN stored /\ \A k \in D : stored[k] = entries[k]
  BY EntriesFacts, MemTableAssumption DEF recordSize, SkipInv, IsTheMap
<1>2. /\ E = D \cup {key} /\ entries'[key] = value
      /\ \A k \in D : k # key => entries'[k] = entries[k]
  <2>1. CASE FindNode(key) = Nil
    <3>1. entries' = WithEntry(entries, key, value)
      BY <2>1 DEF SkipPut
    <3> QED BY <3>1 DEF WithEntry
  <2>2. CASE FindNode(key) # Nil
    <3>1. entries' = [entries EXCEPT ![key] = value]
      BY <2>2 DEF SkipPut
    <3>2. key \in D
      BY <1>1, <2>2, FindNodeIs
    <3> QED BY <3>1, <3>2
  <2> QED BY <2>1, <2>2
<1>3. /\ g[key] = new /\ \A k \in D : k # key => g[k] = f[k]
      /\ \A k \in E : g[k] \in Nat
  <2>1. \A k \in E : g[k] = recordSize(entries'[k])
    BY DEF Sizes
  <2> HIDE DEF g, f, E, D
  <2> QED BY <1>1, <1>2, <2>1
<1>4. IsFiniteSet(E) /\ key \in E /\ IsFiniteSet(E \ {key})
  <2>1. IsFiniteSet(E)
    BY <1>1, <1>2, FS_AddElement
  <2> QED BY <1>2, <2>1, FS_Subset
<1> HIDE DEF D, E, f, g, new
<1>5. SumFunctionOnSet(g, E) = new + SumFunctionOnSet(g, E \ {key})
  BY <1>3, <1>4, SumTakes
<1>6. SumFunctionOnSet(g, E \ {key}) = SumFunctionOnSet(f, E \ {key})
  <2>1. \A k \in E \ {key} : g[k] = f[k]
    BY <1>2, <1>3
  <2> QED BY <1>4, <2>1, SumSame
<1>7. SumFunctionOnSet(f, E \ {key}) \in Nat
  <2>1. \A k \in E \ {key} : f[k] \in Nat
    BY <1>1, <1>2
  <2> QED BY <1>4, <2>1, SumType
<1>8. CASE key \in D
  <2>0. IsFiniteSet(D) /\ (\A k \in D : f[k] \in Nat) /\ key \in D
    BY <1>1, <1>8
  <2>4. SumFunctionOnSet(f, D) = f[key] + SumFunctionOnSet(f, D \ {key})
    BY <2>0, SumTakes
  <2>1. SumFunctionOnSet(f, D) = f[key] + SumFunctionOnSet(f, D \ {key}) /\ D = E
    BY <1>2, <1>8, <2>4
  <2>2. Lookup(key) = entries[key] /\ entries[key] # Nil
    BY <1>1, <1>8, FindNodeIs DEF Nil
  <2>3. Growth(Lookup(key), value) = new - f[key]
    BY <1>1, <1>8, <2>2 DEF Growth, new
  <2> QED BY <1>1, <1>5, <1>6, <1>7, <1>8, <2>0, <2>1, <2>3 DEF TotalOf, f, g, D, E
<1>9. CASE key \notin D
  <2>1. E \ {key} = D
    BY <1>2, <1>9
  <2>2. Lookup(key) = Nil
    BY <1>1, <1>9, FindNodeIs
  <2>3. Growth(Lookup(key), value) = new
    BY <1>1, <2>2 DEF Growth, new
  <2> QED BY <1>1, <1>5, <1>6, <1>7, <2>1, <2>3 DEF TotalOf, f, g, D, E
<1> QED BY <1>8, <1>9

LEMMA PendingType ==
    ASSUME SizeInv
    PROVE  Pending \in Int /\ \A w \in MemWriter : Owed(w) \in Int
<1>1. \A w \in MemWriter : Owed(w) \in Int
  BY DEF SizeInv, Owed
<1>2. Adding \subseteq MemWriter
  BY DEF Adding
<1> DEFINE f == [w \in MemWriter |-> Owed(w)]
<1>3. \A w \in Adding : f[w] \in Int
  BY <1>1, <1>2
<1> HIDE DEF f
<1> QED BY <1>1, <1>3, IntegerSumType DEF SizeInv, Pending, f

(* A writer that changes what it has to add, or has added it.              *)
LEMMA PendingChanges ==
    ASSUME NEW f \in [MemWriter -> Int], NEW g \in [MemWriter -> Int],
           NEW A \in SUBSET MemWriter, IsFiniteSet(A), NEW w \in MemWriter \ A,
           \A v \in A : f[v] = g[v]
    PROVE  /\ SumFunctionOnSet(g, A \cup {w}) = g[w] + SumFunctionOnSet(f, A)
           /\ SumFunctionOnSet(f, A) \in Int
<1> DEFINE B == A \cup {w}
<1>1. \A v \in B : g[v] \in Int
  OBVIOUS
<1>2. IsFiniteSet(B) /\ B \ {w} = A
  BY FS_AddElement
<1>3. SumFunctionOnSet(g, B) = g[w] + SumFunctionOnSet(g, A)
  BY <1>1, <1>2, IntegerSumTakes
<1>4. SumFunctionOnSet(f, A) = SumFunctionOnSet(g, A)
  BY SumSame
<1>5. SumFunctionOnSet(f, A) \in Int
  <2>1. \A v \in A : f[v] \in Int
    OBVIOUS
  <2> QED BY <2>1, IntegerSumType
<1> QED BY <1>3, <1>4, <1>5

LEMMA SetRecordKeeps ==
    ASSUME MemInv, NEW w \in MemWriter, NEW key \in SkipKey, NEW value \in SkipValue,
           SetRecord(w, key, value)
    PROVE  MemInv'
<1> DEFINE d == Growth(Lookup(key), value)
           f == [v \in MemWriter |-> Owed(v)]
           g == [v \in MemWriter |-> Owed(v)']
<1>1. /\ writing[w].at = "checked" /\ SkipPut(key, value, TRUE) /\ size' = size
      /\ writing' = [writing EXCEPT ![w] = [at |-> "set", add |-> d]]
  BY DEF SetRecord
<1>2. SkipInv'
  BY <1>1, SkipPutKeeps DEF MemInv
<1>3. d \in Int /\ TotalOf(entries') = TotalOf(entries) + d /\ TotalOf(entries) \in Nat
  BY <1>1, PutGrows, EntriesFacts DEF MemInv
<1> HIDE DEF d
<1>4. writing' \in [MemWriter -> [at : {"idle", "checked", "set"}, add : Int]]
  BY <1>1, <1>3 DEF MemInv, SizeInv
<1>5. /\ Adding' = Adding \cup {w} /\ w \notin Adding /\ Adding \in SUBSET MemWriter
      /\ Owed(w)' = d /\ \A v \in MemWriter : v # w => Owed(v)' = Owed(v)
  BY <1>1 DEF MemInv, SizeInv, Adding, Owed
<1>6. /\ f \in [MemWriter -> Int] /\ g \in [MemWriter -> Int]
      /\ \A v \in Adding : f[v] = g[v]
      /\ g[w] = d /\ Pending = SumFunctionOnSet(f, Adding)
      /\ Pending' = SumFunctionOnSet(g, Adding')
  <2>1. \A v \in MemWriter : Owed(v) \in Int
    BY PendingType DEF MemInv
  <2>2. \A v \in MemWriter : Owed(v)' \in Int
    BY <1>4 DEF Owed
  <2> QED BY <1>5, <2>1, <2>2 DEF Pending
<1> HIDE DEF f, g
<1>7. IsFiniteSet(Adding) /\ IsFiniteSet(Adding')
  BY <1>5, FS_AddElement DEF MemInv, SizeInv
<1>8. Pending' = d + Pending /\ Pending \in Int
  <2>1. SumFunctionOnSet(g, Adding') = g[w] + SumFunctionOnSet(f, Adding)
        /\ SumFunctionOnSet(f, Adding) \in Int
    BY <1>3, <1>5, <1>6, <1>7, PendingChanges
  <2> QED BY <1>6, <2>1
<1>9. size + Pending = TotalOf(entries) /\ size \in Int
  BY DEF MemInv, SizeInv
<1>10. size' + Pending' = TotalOf(entries') /\ size' \in Int
  BY <1>1, <1>3, <1>8, <1>9
<1> QED BY <1>2, <1>4, <1>7, <1>10 DEF MemInv, SizeInv

LEMMA AddSizeKeeps ==
    ASSUME MemInv, NEW w \in MemWriter, AddSize(w)
    PROVE  MemInv'
<1> DEFINE d == writing[w].add
           f == [v \in MemWriter |-> Owed(v)]
           g == [v \in MemWriter |-> Owed(v)']
<1>1. /\ writing[w].at = "set" /\ size' = size + d
      /\ writing' = [writing EXCEPT ![w] = Idle]
      /\ UNCHANGED skipVars /\ entries' = entries
  BY DEF AddSize, skipVars
<1>2. SkipInv'
  BY <1>1, SkipInvStutters DEF MemInv
<1>3. d \in Int
  BY DEF MemInv, SizeInv
<1>4. writing' \in [MemWriter -> [at : {"idle", "checked", "set"}, add : Int]]
  BY <1>1 DEF MemInv, SizeInv, Idle
<1>5. /\ Adding = Adding' \cup {w} /\ w \notin Adding' /\ Adding' \in SUBSET MemWriter
      /\ Owed(w) = d /\ \A v \in MemWriter : v # w => Owed(v)' = Owed(v)
  BY <1>1 DEF MemInv, SizeInv, Adding, Owed, Idle
<1>6. /\ f \in [MemWriter -> Int] /\ g \in [MemWriter -> Int]
      /\ \A v \in Adding' : f[v] = g[v]
      /\ f[w] = d /\ Pending = SumFunctionOnSet(f, Adding)
      /\ Pending' = SumFunctionOnSet(g, Adding')
  <2>1. \A v \in MemWriter : Owed(v) \in Int
    BY PendingType DEF MemInv
  <2>2. \A v \in MemWriter : Owed(v)' \in Int
    BY <1>4 DEF Owed
  <2> QED BY <1>5, <2>1, <2>2 DEF Pending
<1> HIDE DEF d, f, g
<1>7. IsFiniteSet(Adding')
  <2>1. Adding' \in SUBSET Adding
    BY <1>5
  <2> QED BY <2>1, FS_Subset DEF MemInv, SizeInv
<1>8. Pending = d + Pending' /\ Pending' \in Int
  <2>1. SumFunctionOnSet(f, Adding) = f[w] + SumFunctionOnSet(g, Adding')
        /\ SumFunctionOnSet(g, Adding') \in Int
    BY <1>3, <1>5, <1>6, <1>7, PendingChanges
  <2> QED BY <1>6, <2>1
<1>9. size + Pending = TotalOf(entries) /\ size \in Int
  BY DEF MemInv, SizeInv
<1>10. size' + Pending' = TotalOf(entries') /\ size' \in Int
  BY <1>1, <1>3, <1>8, <1>9
<1> QED BY <1>2, <1>4, <1>7, <1>10 DEF MemInv, SizeInv

LEMMA MemInvInit ==
    ASSUME MemInit
    PROVE  MemInv
<1>1. SkipInv
  BY SkipInvInit DEF MemInit
<1>2. size = 0 /\ writing = [w \in MemWriter |-> Idle] /\ DOMAIN entries = {}
  BY DEF MemInit, SkipInit
<1>3. Adding = {}
  BY <1>2 DEF Adding, Idle
<1>4. Pending = 0 /\ TotalOf(entries) = 0 /\ IsFiniteSet(Adding)
  BY <1>2, <1>3, SumOfNone, FS_EmptySet DEF Pending, TotalOf
<1>5. writing \in [MemWriter -> [at : {"idle", "checked", "set"}, add : Int]]
  BY <1>2 DEF Idle
<1> QED BY <1>1, <1>2, <1>4, <1>5 DEF MemInv, SizeInv

LEMMA MemClearKeeps ==
    ASSUME MemInv, MemClear
    PROVE  MemInv'
<1>1. SkipInv'
  BY SkipClearKeeps DEF MemClear
<1>2. /\ size' = 0 /\ writing' = writing /\ DOMAIN entries' = {}
      /\ \A w \in MemWriter : writing[w] = Idle
  BY DEF MemClear, SkipClear, Unwritten
<1>3. Adding' = {}
  BY <1>2 DEF Adding, Idle
<1>4. Pending' = 0 /\ TotalOf(entries') = 0 /\ IsFiniteSet(Adding')
  BY <1>2, <1>3, SumOfNone, FS_EmptySet DEF Pending, TotalOf
<1>5. writing' \in [MemWriter -> [at : {"idle", "checked", "set"}, add : Int]]
  BY <1>2 DEF MemInv, SizeInv
<1> QED BY <1>1, <1>2, <1>4, <1>5 DEF MemInv, SizeInv

(* Steps that leave the list alone and what the writers have to add.       *)
LEMMA NothingAdded ==
    ASSUME MemInv, UNCHANGED skipVars, size' = size,
           writing' \in [MemWriter -> [at : {"idle", "checked", "set"}, add : Int]],
           \A w \in MemWriter : /\ writing'[w].add = writing[w].add
                                /\ writing'[w].at = "set" <=> writing[w].at = "set"
    PROVE  MemInv'
<1>1. SkipInv' /\ entries' = entries
  BY SkipInvStutters DEF MemInv, skipVars
<1>2. Adding' = Adding
  BY DEF Adding
<1>3. [w \in MemWriter |-> Owed(w)'] = [w \in MemWriter |-> Owed(w)]
  BY DEF Owed
<1>4. Pending' = Pending
  BY <1>2, <1>3, Zenon DEF Pending
<1> QED BY <1>1, <1>2, <1>4 DEF MemInv, SizeInv

LEMMA MemInvStep ==
    ASSUME MemInv, [MemNext]_memVars
    PROVE  MemInv'
<1>1. CASE UNCHANGED memVars
  BY <1>1, NothingAdded DEF memVars, MemInv, SizeInv
<1>2. ASSUME NEW w \in MemWriter, Check(w) PROVE MemInv'
  <2>1. /\ UNCHANGED skipVars /\ size' = size /\ writing[w] = Idle
        /\ writing' = [writing EXCEPT ![w].at = "checked"]
    BY <1>2 DEF Check
  <2>2. writing \in [MemWriter -> [at : {"idle", "checked", "set"}, add : Int]]
    BY DEF MemInv, SizeInv
  <2>3. /\ writing' \in [MemWriter -> [at : {"idle", "checked", "set"}, add : Int]]
        /\ \A v \in MemWriter : /\ writing'[v].add = writing[v].add
                                /\ writing'[v].at = "set" <=> writing[v].at = "set"
    BY <2>1, <2>2 DEF Idle
  <2> QED BY <2>1, <2>3, NothingAdded
<1>3. CASE MarkImmutable
  BY <1>3, NothingAdded DEF MarkImmutable, MemInv, SizeInv
<1> QED BY <1>1, <1>2, <1>3, SetRecordKeeps, AddSizeKeeps, MemClearKeeps DEF MemNext

LEMMA SizeFromInv ==
    ASSUME MemInv
    PROVE  SizeMatches
<1>1. ASSUME Unwritten PROVE size = TotalOf(entries)
  <2>1. Adding = {}
    BY <1>1 DEF Unwritten, Adding, Idle
  <2>2. Pending = 0
    BY <2>1, SumOfNone DEF Pending
  <2> QED BY <2>2 DEF MemInv, SizeInv
<1>2. TotalOf(entries)
        = SumFunctionOnSet([k \in DOMAIN entries |-> recordSize(entries[k])], DOMAIN entries)
  BY DEF TotalOf, Sizes
<1> QED BY <1>1, <1>2 DEF SizeMatches, ShouldFlush

(* A MemTable reads as its map does while writers set records and correct  *)
(* its size at once, and while it is frozen and cleared (MemTable.go,      *)
(* memtable_scan.go).                                                      *)
THEOREM MemTableReadsTheMap == MemSpec => []ReadsTheMap
<1>1. MemInv => ReadsTheMap
  BY ReadsFromInv DEF MemInv
<1> QED BY <1>1, MemInvInit, MemInvStep, PTL DEF MemSpec

(* No byte of the size is lost between writers that replace each other's   *)
(* records (MemTable.go), for any number of writers, keys and lengths.     *)
THEOREM MemTableSizeMatches == MemSpec => []SizeMatches
<1> QED BY SizeFromInv, MemInvInit, MemInvStep, PTL DEF MemSpec

-----------------------------------------------------------------------------
(* What the proofs need to know of the types, and of the names.            *)
LifeTypes ==
    /\ frozen \in Int
    /\ doing = [p \in Proc |-> doing[p]]

LEMMA ProcNames ==
    /\ Worker \in Proc
    /\ Closer \in Proc
    /\ Worker # Closer
    /\ \A c \in Client : c \in Proc /\ c # Worker /\ c # Closer
BY LifecycleAssumption DEF Worker, Closer, Proc

LEMMA InitTypes == LifecycleInit => LifeTypes
BY DEF LifecycleInit, LifeTypes

LEMMA NextTypes == LifeTypes /\ [LifecycleNext]_lifeVars => LifeTypes'
<1> SUFFICES ASSUME LifeTypes, [LifecycleNext]_lifeVars PROVE LifeTypes'
  OBVIOUS
<1> USE ProcNames DEF LifeTypes
<1>1. CASE Put
  BY <1>1 DEF Put, Freeze
<1>2. CASE ReadFails
  BY <1>2 DEF ReadFails
<1>3. CASE WorkerStep
  BY <1>3 DEF WorkerStep, TakeFlush, TakeCompaction, WorkerExits, FlushSucceeded,
       FlushFailed, CompactionSucceeded, Reschedule, CompactionFailed, Go
<1>4. ASSUME NEW p \in Client \cup {Worker}, Acquiring(p) PROVE LifeTypes'
  BY <1>4 DEF Acquiring, BeginFlush, BeginCompaction, Acquire, Go
<1>5. ASSUME NEW p \in Client \cup {Worker}, Working(p) PROVE LifeTypes'
  <2>1. CASE FlushDone(p)
    BY <2>1 DEF FlushDone, Unlock, Go
  <2>2. CASE WriteTable(p)
    BY <2>2 DEF WriteTable, Unlock, Go
  <2>3. CASE PublishTable(p)
    BY <2>3 DEF PublishTable, Unlock, Go
  <2>4. CASE Merge(p)
    BY <2>4 DEF Merge, Unlock, Go
  <2>5. CASE PublishMerge(p)
    BY <2>5 DEF PublishMerge, Unlock, Go
  <2> QED BY <1>5, <2>1, <2>2, <2>3, <2>4, <2>5 DEF Working
<1>6. ASSUME NEW c \in Client, CallCheckpoint(c) \/ CallCompact(c) \/ ReLoad(c)
      PROVE LifeTypes'
  BY <1>6 DEF CallCheckpoint, CallCompact, ReLoad, Freeze, Go
<1>7. ASSUME NEW c \in Client, ClientReturns(c) PROVE LifeTypes'
  BY <1>7 DEF ClientReturns, CheckpointSucceeded, CheckpointFailed, Upgrade,
       SaveFormat, CompactReturns, Go
<1>8. CASE SignalClose \/ Join \/ FinishClose
  BY <1>8 DEF SignalClose, Join, FinishClose, Go
<1>9. CASE OtherOpens \/ OtherCloses
  BY <1>9 DEF OtherOpens, OtherCloses
<1>10. CASE UNCHANGED lifeVars
  BY <1>10 DEF lifeVars
<1> QED BY <1>1, <1>2, <1>3, <1>4, <1>5, <1>6, <1>7, <1>8, <1>9, <1>10
        DEF LifecycleNext

-----------------------------------------------------------------------------
(* A frozen table is not forgotten.  The only steps that take the last     *)
(* responsible goroutine away are those that set the error, hide one, or   *)
(* have seen that nothing is frozen.                                       *)
LEMMA NextForgetsNothing ==
    LifeTypes /\ NoTableForgotten /\ [LifecycleNext]_lifeVars => NoTableForgotten'
<1> SUFFICES ASSUME LifeTypes, NoTableForgotten, [LifecycleNext]_lifeVars
             PROVE  NoTableForgotten'
  OBVIOUS
<1> USE ProcNames DEF LifeTypes, NoTableForgotten, Flushing, tokens
<1>1. CASE Put
  BY <1>1 DEF Put, Freeze, Scheduled, SetError
<1>2. CASE ReadFails
  BY <1>2 DEF ReadFails, SetError
<1>3. CASE WorkerStep
  <2>1. CASE TakeFlush
    BY <2>1 DEF TakeFlush, Go
  <2>2. CASE TakeCompaction \/ WorkerExits \/ Reschedule
    BY <2>2 DEF TakeCompaction, WorkerExits, Reschedule, Go
  <2>3. CASE FlushSucceeded \/ CompactionSucceeded
    BY <2>3 DEF FlushSucceeded, CompactionSucceeded, ClearError, Go
  <2>4. CASE FlushFailed
    BY <2>4 DEF FlushFailed, SetError, Go
  <2>5. CASE CompactionFailed
    BY <2>5 DEF CompactionFailed, SetError, Go
  <2> QED BY <1>3, <2>1, <2>2, <2>3, <2>4, <2>5 DEF WorkerStep
<1>4. ASSUME NEW p \in Client \cup {Worker}, Acquiring(p)
      PROVE  NoTableForgotten'
  BY <1>4 DEF Acquiring, BeginFlush, BeginCompaction, Acquire, Go
<1>5. ASSUME NEW p \in Client \cup {Worker}, Working(p)
      PROVE  NoTableForgotten'
  <2>1. CASE FlushDone(p)
    BY <2>1 DEF FlushDone, AllFlushed
  <2>2. CASE WriteTable(p)
    BY <2>2 DEF WriteTable, Unlock, Go
  <2>3. CASE PublishTable(p)
    BY <2>3 DEF PublishTable, Unlock, Go
  <2>4. CASE Merge(p)
    BY <2>4 DEF Merge, Unlock, Go
  <2>5. CASE PublishMerge(p)
    BY <2>5 DEF PublishMerge, Unlock, Go
  <2> QED BY <1>5, <2>1, <2>2, <2>3, <2>4, <2>5 DEF Working
<1>6. ASSUME NEW c \in Client, CallCheckpoint(c) \/ CallCompact(c) \/ ReLoad(c)
      PROVE  NoTableForgotten'
  BY <1>6 DEF CallCheckpoint, CallCompact, ReLoad, Freeze, Go
<1>7. ASSUME NEW c \in Client, ClientReturns(c)
      PROVE  NoTableForgotten'
  <2>1. CASE CheckpointSucceeded(c)
    BY <2>1 DEF CheckpointSucceeded, ClearError, Go
  <2>2. CASE CheckpointFailed(c)
    BY <2>2 DEF CheckpointFailed, SetError
  <2>3. CASE Upgrade(c) \/ SaveFormat(c) \/ CompactReturns(c)
    BY <2>3 DEF Upgrade, SaveFormat, CompactReturns, Go
  <2> QED BY <1>7, <2>1, <2>2, <2>3 DEF ClientReturns
<1>8. CASE SignalClose \/ Join \/ FinishClose
  BY <1>8 DEF SignalClose, Join, FinishClose, Go
<1>9. CASE OtherOpens \/ OtherCloses
  BY <1>9 DEF OtherOpens, OtherCloses
<1>10. CASE UNCHANGED lifeVars
  BY <1>10 DEF lifeVars
<1> QED BY <1>1, <1>2, <1>3, <1>4, <1>5, <1>6, <1>7, <1>8, <1>9, <1>10
        DEF LifecycleNext

(* A frozen table always has a token in flushCh, a goroutine that will     *)
(* flush it, or an error in backgroundErr, unless an error was cleared     *)
(* while it was waiting (store.go, scheduleFlushLocked, setBackgroundError *)
(* and clearBackgroundError).                                              *)
THEOREM TablesAreNotForgotten == LifecycleSpec => []NoTableForgotten
<1>1. LifecycleInit => NoTableForgotten
  BY DEF LifecycleInit, NoTableForgotten
<1> QED BY InitTypes, NextTypes, <1>1, NextForgetsNothing, PTL DEF LifecycleSpec

-----------------------------------------------------------------------------
(* The order of Close: the worker has gone before Close waits for the      *)
(* lock, and the directory is given back at its end only.                  *)
CloseInOrder ==
    /\ holder # "store" => doing[Closer] = "closed"
    /\ doing[Closer] \in {"lock", "closed"} => doing[Worker] = "exited"

(* A worker that has exited stays so, and what others do moves neither it  *)
(* nor Close.                                                              *)
LEMMA WorkerStaysOut ==
    ASSUME LifeTypes, [LifecycleNext]_lifeVars, doing[Worker] = "exited"
    PROVE  doing'[Worker] = "exited"
<1> USE ProcNames DEF LifeTypes
<1>1. CASE Put \/ ReadFails \/ OtherOpens \/ OtherCloses
  BY <1>1 DEF Put, ReadFails, OtherOpens, OtherCloses
<1>2. CASE WorkerStep
  BY <1>2 DEF WorkerStep, TakeFlush, TakeCompaction, WorkerExits, FlushSucceeded,
       FlushFailed, CompactionSucceeded, Reschedule, CompactionFailed
<1>3. ASSUME NEW p \in Client \cup {Worker}, Acquiring(p) \/ Working(p)
      PROVE  doing'[Worker] = "exited"
  BY <1>3 DEF Acquiring, BeginFlush, BeginCompaction, Acquire, Working, FlushDone,
       WriteTable, PublishTable, Merge, PublishMerge, Unlock, Go
<1>4. ASSUME NEW c \in Client,
             CallCheckpoint(c) \/ CallCompact(c) \/ ReLoad(c) \/ ClientReturns(c)
      PROVE  doing'[Worker] = "exited"
  BY <1>4 DEF CallCheckpoint, CallCompact, ReLoad, ClientReturns,
       CheckpointSucceeded, CheckpointFailed, Upgrade, SaveFormat, CompactReturns, Go
<1>5. CASE SignalClose \/ Join \/ FinishClose
  BY <1>5 DEF SignalClose, Join, FinishClose, Go
<1>6. CASE UNCHANGED lifeVars
  BY <1>6 DEF lifeVars
<1> QED BY <1>1, <1>2, <1>3, <1>4, <1>5, <1>6 DEF LifecycleNext

LEMMA NextCloses ==
    LifeTypes /\ CloseInOrder /\ [LifecycleNext]_lifeVars => CloseInOrder'
<1> SUFFICES ASSUME LifeTypes, CloseInOrder, [LifecycleNext]_lifeVars
             PROVE  CloseInOrder'
  OBVIOUS
<1> USE ProcNames, WorkerStaysOut DEF LifeTypes, CloseInOrder
<1>1. CASE Put \/ ReadFails \/ OtherOpens \/ OtherCloses
  BY <1>1 DEF Put, ReadFails, OtherOpens, OtherCloses
<1>2. CASE WorkerStep
  BY <1>2 DEF WorkerStep, TakeFlush, TakeCompaction, WorkerExits, FlushSucceeded,
       FlushFailed, CompactionSucceeded, Reschedule, CompactionFailed, Go
<1>3. ASSUME NEW p \in Client \cup {Worker}, Acquiring(p) \/ Working(p)
      PROVE  CloseInOrder'
  <2>1. doing'[Closer] = doing[Closer] /\ holder' = holder
    BY <1>3 DEF Acquiring, BeginFlush, BeginCompaction, Acquire, Working, FlushDone,
         WriteTable, PublishTable, Merge, PublishMerge, Unlock, Go
  <2> QED BY <2>1
<1>4. ASSUME NEW c \in Client,
             CallCheckpoint(c) \/ CallCompact(c) \/ ReLoad(c) \/ ClientReturns(c)
      PROVE  CloseInOrder'
  <2>1. doing'[Closer] = doing[Closer] /\ holder' = holder
    BY <1>4 DEF CallCheckpoint, CallCompact, ReLoad, ClientReturns,
         CheckpointSucceeded, CheckpointFailed, Upgrade, SaveFormat, CompactReturns, Go
  <2> QED BY <2>1
<1>5. CASE SignalClose
  BY <1>5 DEF SignalClose, Go
<1>6. CASE Join
  BY <1>6 DEF Join, MayJoin, Go
<1>7. CASE FinishClose
  BY <1>7 DEF FinishClose, Go
<1>8. CASE UNCHANGED lifeVars
  BY <1>8 DEF lifeVars
<1> QED BY <1>1, <1>2, <1>3, <1>4, <1>5, <1>6, <1>7, <1>8 DEF LifecycleNext

(* The maintenance goroutine never writes to the directory after Close has *)
(* given it back: Close waits for it (store.go, workerWG.Wait) first.      *)
THEOREM WorkerGoesFirst == LifecycleSpec => WorkerOwnsDirectory
<1>1. LifecycleInit => CloseInOrder
  BY ProcNames DEF LifecycleInit, CloseInOrder
<1>2. LifeTypes /\ CloseInOrder /\ [LifecycleNext]_lifeVars
      => [doing'[Worker] # doing[Worker] /\ disk' # disk => holder = "store"]_lifeVars
  BY ProcNames, WorkerStaysOut DEF CloseInOrder
<1> QED BY InitTypes, NextTypes, <1>1, NextCloses, <1>2, PTL
        DEF LifecycleSpec, WorkerOwnsDirectory
=============================================================================
