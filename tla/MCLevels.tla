------------------------------ MODULE MCLevels ------------------------------
(* An instance of Repair for TLC: three ordered keys, the third a log, and *)
(* tables of which some span the key of another one.                       *)
EXTENDS Repair

CONSTANT v1

One(k, e) == [EmptyLayer EXCEPT ![k] = e]

MCBatches ==
    {One(1, Tombstone), One(2, v1),
     [One(1, v1) EXCEPT ![3] = v1]}
=============================================================================
