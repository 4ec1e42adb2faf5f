------------------------------- MODULE Bytes -------------------------------
(***************************************************************************)
(* Strings of bytes, as sequences of numbers: their common prefixes        *)
(* (sstable_block.go) and Go's order of strings.                           *)
(***************************************************************************)
EXTENDS Integers, SequencesExt

\* The length of the longest common prefix.
SharedLen(a, b) ==
    Max({n \in 0 .. Min({Len(a), Len(b)}) : \A i \in 1 .. n : a[i] = b[i]})

Precedes(a, b) ==
    LET n == SharedLen(a, b)
    IN n < Len(b) /\ (n = Len(a) \/ (n < Len(a) /\ a[n + 1] < b[n + 1]))

\* The elements of a finite set in an order: what sort.Slice makes of them.
Listed(S, before(_, _)) ==
    [n \in 1 .. Cardinality(S) |->
        CHOOSE x \in S : Cardinality({y \in S : before(y, x)}) = n - 1]
=============================================================================
