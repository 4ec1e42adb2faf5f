-------------------------- MODULE SamStoreContract --------------------------
(***************************************************************************)
(* SamStore implements DurableKV.  The store has no state in which a       *)
(* caller's acknowledged write could be told from an internal step, so a   *)
(* history variable counts the writes, modulo 2.                           *)
(***************************************************************************)
EXTENDS SamStore, TLC

VARIABLE acks

ContractSpec ==
    /\ Init /\ acks = 0
    /\ [][\/ Writes /\ acks' = 1 - acks
          \/ Internal /\ UNCHANGED acks]_<<vars, acks>>

(* What Get answers, or would answer after a restart.                      *)
ShownAnswer(k) == Answer(IF Running THEN Lookup(k) ELSE Recovered(k))

Contract == INSTANCE DurableKV WITH
    Strict <- SyncPolicy = "SyncEveryWrite",
    kv     <- [k \in Key |-> ShownAnswer(k)],
    maybe  <- [k \in Key |-> {ShownAnswer(k)} \cup older[k]
                                \cup {Answer(e) : e \in doubt[k]}]

(* Freezing, flushing, publishing, pruning, compacting, closing and        *)
(* restarting never change what a reader is told; a crash leaves each key  *)
(* with its last acknowledged answer, or, under SyncInterval, one it had   *)
(* since its last flush, or the one of a write that failed.                *)
KeepsContract == Contract!Spec

Symmetry == Permutations(Key) \cup Permutations(Value)
=============================================================================
