------------------------------- MODULE Layers -------------------------------
(***************************************************************************)
(* The data SamKv moves around, abstracted to what the properties tell     *)
(* apart.  A MemTable, an SSTable and the records of a WAL segment are all *)
(* a layer: for every key, the newest entry the layer holds, or Absent.    *)
(* An entry is a value or a Tombstone.  Layers are stacked, and a key is   *)
(* resolved by the newest layer that holds an entry for it.                *)
(***************************************************************************)
EXTENDS Integers, Sequences, FiniteSetsExt

CONSTANTS Key,        \* the keys of the store
          Value,      \* the values Put may write
          Absent,     \* a layer that says nothing of a key; also "not found"
          Tombstone   \* the entry Delete writes

ASSUME LayersAssumption ==
    /\ Absent \notin Value \cup {Tombstone}
    /\ Tombstone \notin Value

Entry == Value \cup {Tombstone}
Layer == [Key -> Entry \cup {Absent}]

EmptyLayer == [k \in Key |-> Absent]

(* One record, {Key, Value, Deleted} in the code.                          *)
Record(k, e) == [EmptyLayer EXCEPT ![k] = e]

(* The indices of S whose layer holds an entry for k.                      *)
Holders(layers, S, k) == {i \in S : layers[i][k] # Absent}

(* The entry for k of the newest layer that has one: what a lookup finds   *)
(* when it walks the layers from the highest index down, and what applying *)
(* them from the lowest index up leaves behind.                            *)
Newest(layers, S, k) ==
    IF Holders(layers, S, k) = {}
    THEN Absent
    ELSE layers[Max(Holders(layers, S, k))][k]

(* The single layer that replaces a stack.                                 *)
Merge(layers, S) == [k \in Key |-> Newest(layers, S, k)]

(* Writes of "above" hide those of "below".                                *)
Over(above, below) == IF above # Absent THEN above ELSE below
Overlay(below, above) == [k \in Key |-> Over(above[k], below[k])]

(* What a reader is told: a tombstone reads as "not found".                *)
Answer(e) == IF e = Tombstone THEN Absent ELSE e
Answers == Value \cup {Absent}
=============================================================================
