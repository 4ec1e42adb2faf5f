---------------------------- MODULE BloomFilter ----------------------------
(***************************************************************************)
(* A Bloom filter (bloomfilter.go): bits in words, set at the places that  *)
(* two hashes of an item give, and the binary form in which a table keeps  *)
(* it.  Every method holds the lock of the filter throughout.              *)
(*                                                                         *)
(* Numbers are Wrap wide as uint64 is, words have WordBits bits.  Which    *)
(* hashes an item has is a choice of the initial state.  No memory holds   *)
(* a filter so large that the sum in a constructor wraps, which is what    *)
(* the assumption on MaxWords says; the size that a file claims may.       *)
(* `added' and `foreign' are not in the code.                              *)
(***************************************************************************)
EXTENDS Integers, FiniteSets, Sequences

CONSTANTS FilterItem,
          HashPair,     \* what bloomHashes may return: <<h1, h2>>
          Wrap,         \* 2^64
          WordBits,     \* 64
          MaxWords,     \* bound on the words of a filter
          MaxHashes     \* bound on k

Number == 0 .. Wrap - 1

ASSUME BloomFilterAssumption ==
    /\ Wrap \in Nat \ {0}
    /\ WordBits \in Nat \ {0}
    /\ MaxWords \in Nat \ {0}
    /\ MaxHashes \in Nat \ {0}
    /\ (MaxWords + 1) * WordBits <= Wrap
    /\ HashPair \subseteq Number \X (Number \ {0})

VARIABLES
    hashes,    \* [item -> <<h1, h2>>]
    filter,    \* m, k and the bits: a sequence of sets of offsets
    binary,    \* what a file holds: the fields of the header and the words
    added,     \* the items added to the filter
    foreign    \* the filter was read from bytes nobody marshalled

filterVars == <<hashes, filter, binary, added, foreign>>

NoBinary == [m |-> 0, k |-> 0, words |-> 0, bits |-> <<>>, of |-> {},
             altered |-> TRUE]

-----------------------------------------------------------------------------
\* (bitSize + 63) / 64, in uint64.
WordsFor(bitSize) == ((bitSize + WordBits - 1) % Wrap) \div WordBits

\* Both constructors: a whole number of words, all zero.
FilterInit ==
    /\ hashes \in [FilterItem -> HashPair]
    /\ \E bitSize \in 1 .. MaxWords * WordBits, k \in 1 .. MaxHashes :
          LET words == WordsFor(bitSize) IN
          filter = [m |-> words * WordBits, k |-> k,
                    bits |-> [w \in 1 .. words |-> {}]]
    /\ binary = NoBinary
    /\ added = {}
    /\ foreign = FALSE

\* bloomIndex: h1 + i*h2 + i*i wraps before it is taken modulo m.
Index(item, i) ==
    ((hashes[item][1] + i * hashes[item][2] + i * i) % Wrap) % filter.m

Places(item) == {Index(item, i) : i \in 0 .. filter.k - 1}

Word(index) == index \div WordBits + 1
Offset(index) == index % WordBits

MayContain(item) == \A p \in Places(item) : Offset(p) \in filter.bits[Word(p)]

Marked(item) == Places(item)

AddItem(item) ==
    /\ ~foreign
    /\ filter' = [filter EXCEPT !.bits =
                     [w \in DOMAIN filter.bits |->
                         filter.bits[w] \cup
                             {Offset(p) : p \in {q \in Marked(item) : Word(q) = w}}]]
    /\ added' = added \cup {item}
    /\ UNCHANGED <<hashes, binary, foreign>>

ResetFilter ==
    /\ filter' = [filter EXCEPT !.bits = [w \in DOMAIN filter.bits |-> {}]]
    /\ added' = {}
    /\ UNCHANGED <<hashes, binary, foreign>>

MarshalBinary ==
    /\ binary' = [m |-> filter.m, k |-> filter.k, words |-> Len(filter.bits),
                  bits |-> filter.bits, of |-> added, altered |-> foreign]
    /\ UNCHANGED <<hashes, filter, added, foreign>>

\* Other bytes: any header, and any number of words behind it.
AlterBinary ==
    /\ binary # NoBinary
    /\ ~binary.altered
    /\ \E m \in Number, k \in 0 .. MaxHashes, words, len \in 0 .. MaxWords :
          binary' = [m |-> m, k |-> k, words |-> words,
                     bits |-> [w \in 1 .. len |-> {}], of |-> {},
                     altered |-> TRUE]
    /\ UNCHANGED <<hashes, filter, added, foreign>>

BugNonzero(data) == data.m # 0 /\ data.k # 0
Nonzero(data) == data.m # 0 /\ data.k # 0 /\ data.words # 0

\* All the checks of UnmarshalBinary; otherwise the filter stays as it is.
UnmarshalBinary ==
    /\ binary # NoBinary
    /\ Nonzero(binary)
    /\ binary.words = WordsFor(binary.m)
    /\ binary.words = Len(binary.bits)
    /\ filter' = [m |-> binary.m, k |-> binary.k, bits |-> binary.bits]
    /\ added' = binary.of
    /\ foreign' = binary.altered
    /\ UNCHANGED <<hashes, binary>>

FilterNext ==
    \/ \E item \in FilterItem : AddItem(item)
    \/ ResetFilter
    \/ MarshalBinary
    \/ AlterBinary
    \/ UnmarshalBinary

FilterSpec == FilterInit /\ [][FilterNext]_filterVars

-----------------------------------------------------------------------------
(* No item that was added is denied, also by a filter that was read back,  *)
(* whatever the hashes: a lookup that trusts a denial loses no record.     *)
(* And no bytes make UnmarshalBinary accept a filter in which Contains     *)
(* would look outside of the words, even where the size in bits is so      *)
(* large that the number of words wraps around.                            *)
FilterSafe ==
    \A item \in FilterItem :
        /\ \A p \in Places(item) : Word(p) \in DOMAIN filter.bits
        /\ item \in added => MayContain(item)
=============================================================================
