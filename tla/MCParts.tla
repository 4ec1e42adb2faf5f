------------------------------- MODULE MCParts -------------------------------
(***************************************************************************)
(* The parts of the store that can be looked at one at a time, in one run: *)
(* `subject' says which of them moves, and the others stay as they are.    *)
(* They share no variable, so it is what a run of each of them would be.   *)
(***************************************************************************)
EXTENDS ManifestFiles, MemTable, BlockCache, LogQuery, LogSequence,
        TableFormat, BloomFilter, Matcher, LogCodec, Backup

VARIABLE subject

Subject == {"manifest", "skiplist", "memtable", "cache", "query",
            "sequence", "table", "filter", "matcher", "codec", "backup"}

-----------------------------------------------------------------------------
(* Values of the constants.                                                *)

\* Two blocks of two tables, one of them twice as large.
MCBlockBytes(b) == IF b = "big" THEN 2 ELSE 1
MCFileOf(b) == b

\* Logs without a label, with an empty one and with another one.
MCEntry == {[time |-> 1, labels |-> <<>>],
            [time |-> 1, labels |-> [n \in {"a"} |-> ""]],
            [time |-> 2, labels |-> [n \in {"a"} |-> "x"]]}

\* One key is a prefix of another.
MCTableKey == {<<1>>, <<1, 1>>, <<2>>}

\* The second hash of an item is the step between its bits.
MCHashPair == {<<1, 2>>, <<7, 7>>}

\* Nothing, an escape as it is written, the two separators, and NUL.
MCLabelText == {<<>>, <<37, 55, 67>>, <<124, 61>>, <<0>>}
MCLogTime == {-8, -1, 0, 7, 8}

\* Writers and readers differ in their names only.
Symmetry == Permutations(LogWriter \cup MemWriter) \cup Permutations(Reader)

-----------------------------------------------------------------------------
(* Parts with several initial states stay in one of them.                  *)

ManifestInit ==
    IF subject = "manifest" THEN Init
    ELSE /\ generations = <<>>
         /\ current = 0
         /\ backup = 0
         /\ legacy = None
         /\ legacyBackup = None
         /\ memory = None
         /\ saving = None
         /\ savedAs = 0
         /\ stage = "idle"

\* The skip list alone is that of a table in the middle of a write.
RecordsInit ==
    IF subject = "skiplist"
    THEN /\ SkipInit
         /\ size = 0
         /\ mutable = TRUE
         /\ writing = [w \in MemWriter |-> [Idle EXCEPT !.at = "checked"]]
    ELSE MemInit

BloomInit ==
    IF subject = "filter" THEN FilterInit
    ELSE /\ hashes = [i \in FilterItem |-> CHOOSE h \in HashPair : TRUE]
         /\ filter = [m |-> WordBits, k |-> 1, bits |-> <<{}>>]
         /\ binary = NoBinary
         /\ added = {}
         /\ foreign = FALSE

PatternInit ==
    IF subject = "matcher" THEN MatcherInit
    ELSE /\ pattern = <<>>
         /\ target = <<>>
         /\ pi = 1
         /\ ti = 1
         /\ star = 0
         /\ matchIdx = 1
         /\ verdict = "none"

PartsInit ==
    /\ subject \in Subject
    /\ ManifestInit
    /\ RecordsInit
    /\ CacheInit
    /\ LogInit
    /\ SeqInit
    /\ TableInit
    /\ BloomInit
    /\ PatternInit
    /\ CodecInit
    /\ BackupInit

\* What does not move while the subject does.
Others ==
    /\ UNCHANGED subject
    /\ subject # "manifest" => UNCHANGED vars
    /\ subject \notin {"skiplist", "memtable"} => UNCHANGED memVars
    /\ subject = "skiplist" => UNCHANGED <<size, mutable, writing>>
    /\ subject # "cache" => UNCHANGED cacheVars
    /\ subject # "query" => UNCHANGED logVars
    /\ subject # "sequence" => UNCHANGED seqVars
    /\ subject # "table" => UNCHANGED tableVars
    /\ subject # "filter" => UNCHANGED filterVars
    /\ subject # "matcher" => UNCHANGED matcherVars
    /\ subject # "codec" => UNCHANGED codecVars
    /\ subject # "backup" => UNCHANGED backupVars

PartsNext ==
    \/ subject = "manifest" /\ Next /\ Others
    \/ subject = "skiplist" /\ SkipNext /\ Others
    \/ subject = "memtable" /\ MemNext /\ Others
    \/ subject = "cache" /\ CacheNext /\ Others
    \/ subject = "query" /\ LogNext /\ Others
    \/ subject = "sequence" /\ SeqNext /\ Others
    \/ subject = "table" /\ TableNext /\ Others
    \/ subject = "filter" /\ FilterNext /\ Others
    \/ subject = "matcher" /\ MatcherNext /\ Others
    \/ subject = "codec" /\ CodecNext /\ Others
    \/ subject = "backup" /\ BackupNext /\ Others

partVars == <<subject, vars, memVars, cacheVars, logVars, seqVars,
              tableVars, filterVars, matcherVars, codecVars, backupVars>>

PartsSpec == PartsInit /\ [][PartsNext]_partVars
=============================================================================
