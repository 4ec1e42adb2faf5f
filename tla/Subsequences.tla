---------------------------- MODULE Subsequences ----------------------------
(***************************************************************************)
(* The elements of a sequence that something is true of, in their order:   *)
(* what the code does with a loop over a slice or a list that skips some.  *)
(***************************************************************************)
EXTENDS Integers, FiniteSets, Sequences

(* The n-th smallest element of S, from 0.                                 *)
Nth(S, n) == CHOOSE k \in S : Cardinality({j \in S : j < k}) = n

(* The elements of s with an index in I.                                   *)
Pick(s, I) == [n \in 1..Cardinality(I) |-> s[Nth(I, n - 1)]]
=============================================================================
