------------------------------ MODULE DurableKV ------------------------------
(***************************************************************************)
(* What SamKv promises to a caller that sees only Put, Delete, WriteBatch  *)
(* and Get: a map, and for every key the set of answers that a crash may   *)
(* leave behind.  Nothing here knows of MemTables, segments or SSTables;   *)
(* SamStore is shown to implement this module.                             *)
(***************************************************************************)
EXTENDS Integers

CONSTANTS Key, Value, Absent,
          Strict     \* TRUE: an acknowledged write is durable (SyncEveryWrite)

VARIABLES acks,      \* parity of the acknowledged writes: it tells a write
                     \* from a step the caller did not ask for
          kv,        \* kv[k]: what Get(k) answers
          maybe      \* maybe[k]: what Get(k) may answer after a crash now

vars == <<acks, kv, maybe>>

Answers == Value \cup {Absent}

Init == /\ acks = 0
        /\ kv = [k \in Key |-> Absent]
        /\ maybe = [k \in Key |-> {Absent}]

(* One step treats every key it touches alike, and leaves the others.      *)
Untouched(k) == kv'[k] = kv[k] /\ maybe'[k] = maybe[k]

(* An acknowledged write to k.  When it is durable on return no other      *)
(* answer is left; otherwise a crash may lose it, or stop its batch at an  *)
(* earlier record.                                                         *)
Written(k, durable) ==
    IF durable THEN maybe'[k] = {kv'[k]}
               ELSE maybe[k] \cup {kv'[k]} \subseteq maybe'[k]

Write == \E durable \in BOOLEAN :
            /\ acks' = 1 - acks
            /\ Strict => durable
            /\ \A k \in Key : Untouched(k) \/ Written(k, durable)

(* A write that returned an error.  Readers do not see it, but its bytes   *)
(* may have reached the file before the error did.                         *)
RefusedWrite ==
    /\ UNCHANGED acks
    /\ \A k \in Key : kv'[k] = kv[k] /\ maybe[k] \subseteq maybe'[k]

(* What readers see becomes durable.                                       *)
Sync ==
    /\ UNCHANGED acks
    /\ \A k \in Key : Untouched(k) \/ (kv'[k] = kv[k] /\ maybe'[k] = {kv[k]})

(* A crash, or a replay of the log: every key takes one of the answers it  *)
(* might have had, and that one is durable.                                *)
Recover ==
    /\ UNCHANGED acks
    /\ \A k \in Key : kv'[k] \in maybe[k] /\ maybe'[k] = {kv'[k]}

Next == /\ kv' \in [Key -> Answers]
        /\ maybe' \in [Key -> SUBSET Answers]
        /\ Write \/ RefusedWrite \/ Sync \/ Recover

Spec == Init /\ [][Next]_vars
=============================================================================
