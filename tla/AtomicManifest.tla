--------------------------- MODULE AtomicManifest ---------------------------
(***************************************************************************)
(* What saveManifest and loadManifest promise the store: the Manifest is   *)
(* one cell.  A save that returns nil has replaced it; one that returns an *)
(* error has not, so that the caller may remove the files it had named;    *)
(* after a crash it is the old one or the new one.                         *)
(***************************************************************************)

CONSTANTS Manifest,   \* the contents a Manifest may have
          None        \* not in Manifest: no Manifest yet, no process

VARIABLES value,      \* what a start would load
          memory,     \* what the running process holds, a record of one
                      \* field, or None
          pending,    \* what it is saving
          done        \* the save is visible to a start

vars == <<value, memory, pending, done>>

Init ==
    /\ value \in Manifest \cup {None}
    /\ memory = None
    /\ pending = None
    /\ done = FALSE

Load ==
    /\ memory = None
    /\ pending = None
    /\ memory' = [manifest |-> value]
    /\ UNCHANGED <<value, pending, done>>

Save(m) ==
    /\ pending = None
    /\ pending' = m
    /\ UNCHANGED <<value, memory, done>>

Commit ==
    /\ pending # None
    /\ ~done
    /\ value' = pending
    /\ done' = TRUE
    /\ UNCHANGED <<memory, pending>>

Succeed ==
    /\ done
    /\ memory' = [manifest |-> value]
    /\ pending' = None
    /\ done' = FALSE
    /\ UNCHANGED value

Fail ==
    /\ pending # None
    /\ ~done
    /\ pending' = None
    /\ UNCHANGED <<value, memory, done>>

Crash ==
    /\ memory' = None
    /\ pending' = None
    /\ done' = FALSE
    /\ UNCHANGED value

Next ==
    \/ Load
    \/ \E m \in Manifest : Save(m)
    \/ Commit \/ Succeed \/ Fail \/ Crash

Spec == Init /\ [][Next]_vars
=============================================================================
