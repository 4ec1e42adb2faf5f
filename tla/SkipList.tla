------------------------------ MODULE SkipList ------------------------------
(***************************************************************************)
(* The skip list behind a MemTable (skipList.go): every node has a forward *)
(* pointer per level of its random height, and every operation walks from  *)
(* the top level down.  One action is one method, which holds the lock of  *)
(* the list throughout.                                                    *)
(*                                                                         *)
(* A node is named by its key.  `entries' is not in the code: it is the    *)
(* ordered map the list is meant to be.                                    *)
(***************************************************************************)
EXTENDS Integers, SequencesExt

CONSTANTS SkipKey,    \* the keys, numbers in the order of compare
          SkipValue,
          MaxHeight   \* maxLevel

ASSUME SkipListAssumption ==
    /\ SkipKey \subseteq Nat \ {0}
    /\ MaxHeight \in Nat \ {0}

Top == 0
Nil  == -1

VARIABLES
    forward,   \* [node -> <<its successor on level 1, on level 2, ...>>]
    stored,    \* [node -> its value]
    topLevel,  \* s.level
    length,    \* s.length
    entries    \* the map

list == <<forward, stored, topLevel, length>>
skipVars == <<list, entries>>

SkipInit ==
    /\ forward = [n \in {Top} |-> [l \in 1 .. MaxHeight |-> Nil]]
    /\ stored = <<>>
    /\ topLevel = 1
    /\ length = 0
    /\ entries = <<>>

-----------------------------------------------------------------------------
BugBefore(node, key) == node <= key
Before(node, key) == node < key

OnLevel(level) == {n \in DOMAIN forward : level \in DOMAIN forward[n]}

\* Where a walk along the level ends that starts at the node and passes these.
Walk(node, level, passed) ==
    LET walk[n \in OnLevel(level)] ==
            IF forward[n][level] \in passed THEN walk[forward[n][level]] ELSE n
    IN walk[node]

\* Where the descent from the top leaves every level in use.
Descent(passed) ==
    LET down[l \in 1 .. topLevel] ==
            Walk(IF l = topLevel THEN Top ELSE down[l + 1], l, passed)
    IN down

\* The array `update': on every level the last node that comes before key.
Path(key) == Descent({n \in DOMAIN stored : Before(n, key)})

Landing(key) == forward[Path(key)[1]][1]

\* findNode, and the results of Get, LowerBound, First and Last.
FindNode(key) == IF Landing(key) = key THEN key ELSE Nil
Lookup(key)   == IF FindNode(key) = Nil THEN Nil ELSE stored[FindNode(key)]
LowerBound(key) == Landing(key)
FirstKey == forward[Top][1]
LastKey  == IF length = 0 THEN Nil ELSE Descent(DOMAIN stored)[1]

\* Entries, and what Range passes to its callback.
ListEntries ==
    LET from[n \in DOMAIN stored \cup {Nil}] ==
            IF n = Nil THEN <<>>
            ELSE <<<<n, stored[n]>>>> \o from[forward[n][1]]
    IN from[FirstKey]

-----------------------------------------------------------------------------
WithEntry(map, key, value) ==
    [k \in DOMAIN map \cup {key} |-> IF k = key THEN value ELSE map[k]]

Raised(height) == IF height > topLevel THEN height ELSE topLevel

\* insert of a key that is not there, with the height randomLevel draws.
Insert(key, value, height) ==
    LET path == Path(key)
        update(l) == IF l <= topLevel THEN path[l] ELSE Top
    IN /\ forward' = [n \in DOMAIN forward \cup {key} |->
                         IF n = key
                         THEN [l \in 1 .. height |-> forward[update(l)][l]]
                         ELSE [l \in DOMAIN forward[n] |->
                                  IF l <= height /\ update(l) = n THEN key
                                  ELSE forward[n][l]]]
       /\ stored' = WithEntry(stored, key, value)
       /\ topLevel' = Raised(height)
       /\ length' = length + 1

\* Set, and Add, which leaves the value of a key that is there.
SkipPut(key, value, replace) ==
    IF FindNode(key) = Nil
    THEN /\ \E height \in 1 .. MaxHeight : Insert(key, value, height)
         /\ entries' = WithEntry(entries, key, value)
    ELSE /\ stored' = IF replace THEN [stored EXCEPT ![key] = value] ELSE stored
         /\ entries' = IF replace THEN [entries EXCEPT ![key] = value] ELSE entries
         /\ UNCHANGED <<forward, topLevel, length>>

\* The loop that lowers s.level behind an unlinked node.
Lowered(head) == Max({1} \cup {l \in 1 .. topLevel : head[l] # Nil})

SkipDelete(key) ==
    /\ FindNode(key) # Nil
    /\ LET path == Path(key)
           linked == {l \in 1 .. topLevel : forward[path[l]][l] = key}
           unlinked == [n \in DOMAIN forward \ {key} |->
                           [l \in DOMAIN forward[n] |->
                               IF l \in linked /\ path[l] = n
                               THEN forward[key][l] ELSE forward[n][l]]]
       IN /\ forward' = unlinked
          /\ topLevel' = Lowered(unlinked[Top])
    /\ stored' = [n \in DOMAIN stored \ {key} |-> stored[n]]
    /\ length' = length - 1
    /\ entries' = [k \in DOMAIN entries \ {key} |-> entries[k]]

SkipClear ==
    /\ forward' = [n \in {Top} |-> [l \in 1 .. MaxHeight |-> Nil]]
    /\ stored' = <<>>
    /\ topLevel' = 1
    /\ length' = 0
    /\ entries' = <<>>

SkipNext ==
    \/ \E key \in SkipKey, value \in SkipValue, replace \in BOOLEAN :
          SkipPut(key, value, replace)
    \/ \E key \in SkipKey : SkipDelete(key)
    \/ SkipClear

SkipSpec == SkipInit /\ [][SkipNext]_skipVars
=============================================================================
