----------------------------- MODULE MCSamStore -----------------------------
(***************************************************************************)
(* Model checking of SamStore: keys are interchangeable, and so are values.*)
(***************************************************************************)
EXTENDS SamStore, TLC

Symmetry == Permutations(Key) \cup Permutations(Value)
=============================================================================
