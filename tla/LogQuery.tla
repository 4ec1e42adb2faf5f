------------------------------ MODULE LogQuery ------------------------------
(***************************************************************************)
(* Query over structured logs (log.go, query.go, sstable_meta.go): a log   *)
(* entry is a key made of a time and labels, tables carry the range of     *)
(* their times and a filter of their labels, and a query leaves out the    *)
(* tables that cannot contain what it asks for.                            *)
(*                                                                         *)
(* The records of the store are abstracted to which keys are live and      *)
(* which deleted; that flushes and compactions keep them is the subject of *)
(* modules SamStore and Levels.  A Bloom filter is a set of tokens that    *)
(* has those of its table and, by chance, may have more.                   *)
(***************************************************************************)
EXTENDS Integers, FiniteSetsExt, Sequences

CONSTANTS LogName, LogValue,  \* names and values of labels, "" being a value
          Entry,              \* the log entries: [time, labels], labels being
                              \* a function from some names to values
          MaxLogTables        \* bound on the tables at a time

Time == {e.time : e \in Entry}

ASSUME LogQueryAssumption ==
    /\ MaxLogTables \in Nat
    /\ \A e \in Entry :
          /\ e.time \in Nat
          /\ DOMAIN e.labels \subseteq LogName
          /\ \A n \in DOMAIN e.labels : e.labels[n] \in LogValue

VARIABLES
    logTables,  \* the tables, oldest first
    recent,     \* the MemTables as one: [entry -> "live" or "deleted"]
    live        \* the entries written and not deleted: what a query is about

logVars == <<logTables, recent, live>>

LogInit ==
    /\ logTables = <<>>
    /\ recent = <<>>
    /\ live = {}

-----------------------------------------------------------------------------
LabelToken(name, value) == <<name, value>>

TokensOf(e) == {LabelToken(n, e.labels[n]) : n \in DOMAIN e.labels}

\* buildSSTableMeta: a tombstone counts like any record.
BugCounted(records) == {e \in DOMAIN records : records[e] = "live"}
Counted(records) == DOMAIN records

Tokens == {LabelToken(n, v) : n \in LogName, v \in LogValue}

\* The tables these records may be written as.
TablesOf(records) ==
    LET times  == {e.time : e \in Counted(records)}
        found == UNION {TokensOf(e) : e \in Counted(records)}
    IN {[records |-> records, times |-> times, filter |-> found \cup chance] :
            chance \in SUBSET Tokens}

\* Newer records over older ones.
Newer(records, older) ==
    [e \in DOMAIN records \cup DOMAIN older |->
        IF e \in DOMAIN records THEN records[e] ELSE older[e]]

\* WriteLogs, of one entry, and Delete of its key.
WriteLog(e) ==
    /\ recent' = Newer([x \in {e} |-> "live"], recent)
    /\ live' = live \cup {e}
    /\ UNCHANGED logTables

DeleteLog(e) ==
    /\ recent' = Newer([x \in {e} |-> "deleted"], recent)
    /\ live' = live \ {e}
    /\ UNCHANGED logTables

FlushLogs ==
    /\ recent # <<>>
    /\ Len(logTables) < MaxLogTables
    /\ \E table \in TablesOf(recent) : logTables' = Append(logTables, table)
    /\ recent' = <<>>
    /\ UNCHANGED live

\* What the tables with an index in I say together: those at the end are newer.
HoldingIn(I, e) == {i \in I : e \in DOMAIN logTables[i].records}
Overlay(I) ==
    [e \in UNION {DOMAIN logTables[i].records : i \in I} |->
        logTables[Max(HoldingIn(I, e))].records[e]]

\* Compact: one table, without tombstones.
CompactLogs ==
    /\ Len(logTables) > 1
    /\ LET all  == Overlay(DOMAIN logTables)
           kept == {e \in DOMAIN all : all[e] = "live"}
       IN IF kept = {} THEN logTables' = <<>>
          ELSE \E table \in TablesOf([e \in kept |-> "live"]) :
                  logTables' = <<table>>
    /\ UNCHANGED <<recent, live>>

LogNext ==
    \/ \E e \in Entry : WriteLog(e) \/ DeleteLog(e)
    \/ FlushLogs
    \/ CompactLogs

LogSpec == LogInit /\ [][LogNext]_logVars

-----------------------------------------------------------------------------
OverlapsTimeRange(table, start, end) ==
    table.times = {} \/ (Max(table.times) >= start /\ Min(table.times) <= end)

MayContainLabels(table, labels) ==
    \A n \in DOMAIN labels : LabelToken(n, labels[n]) \in table.filter

\* What the map of an entry's labels answers for a name it does not have.
Actual(labels, name) == IF name \in DOMAIN labels THEN labels[name] ELSE ""

labelsMatch(labels, expected) ==
    \A n \in DOMAIN expected : Actual(labels, n) = expected[n]

\* Query; the keys of its range are those with a time in it.
Query(start, end, expected) ==
    LET tables == {i \in DOMAIN logTables :
                      /\ OverlapsTimeRange(logTables[i], start, end)
                      /\ MayContainLabels(logTables[i], expected)}
        latest == Newer(recent, Overlay(tables))
    IN {e \in DOMAIN latest :
            /\ latest[e] = "live"
            /\ start <= e.time /\ e.time <= end
            /\ labelsMatch(e.labels, expected)}

Subset(expected, labels) ==
    \A n \in DOMAIN expected : n \in DOMAIN labels /\ labels[n] = expected[n]

Exact(expected) ==
    \A start, end \in Time : start <= end =>
        Query(start, end, expected) =
            {e \in live : /\ start <= e.time /\ e.time <= end
                          /\ Subset(expected, e.labels)}

Expectations(values) == UNION {[names -> values] : names \in SUBSET LogName}

(* A query whose labels all have a value returns every live log of its     *)
(* time range that has them, and no other, whichever tables its filters    *)
(* leave out: a table that holds the deletion of a log is never left out   *)
(* where the table that holds the log is not.                              *)
QueryExact ==
    \A expected \in Expectations(LogValue \ {""}) : Exact(expected)
=============================================================================
