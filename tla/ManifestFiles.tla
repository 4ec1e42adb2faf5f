---------------------------- MODULE ManifestFiles ----------------------------
(***************************************************************************)
(* How pkg/store publishes a Manifest (manifest.go, manifest_files.go):    *)
(* every save writes a new MANIFEST-<generation> and then switches CURRENT *)
(* to it, by a rename, or, where a rename does not replace a file, over    *)
(* CURRENT.bak.  A directory of the old layout has a MANIFEST, or only its *)
(* MANIFEST.bak, and is migrated when it is opened.                        *)
(*                                                                         *)
(* One action is one operation on a file.  A temporary file and its rename *)
(* are one: before the rename nobody reads it.  Saves never overlap, they  *)
(* run under st.mu.  CURRENT and its backup are generation numbers, 0 when *)
(* there is no such file.                                                  *)
(***************************************************************************)
EXTENDS Integers, FiniteSetsExt

CONSTANTS Manifest,     \* the contents a Manifest may have
          None,         \* no such file
          MaxGeneration,\* bound on generation numbers
          Faults        \* the I/O failures that may happen

FaultKinds == {"write",    \* a temporary file or a directory sync fails
               "rename",   \* a rename fails after one onto CURRENT has
               "free",    \* the first one fails although CURRENT is missing
               "remove"}   \* removing a file fails

ASSUME ManifestFilesAssumption ==
    /\ None \notin Manifest
    /\ MaxGeneration \in Nat
    /\ Faults \subseteq FaultKinds

VARIABLES
    generations,   \* the contents of the MANIFEST-<n> files that exist
    current,       \* what CURRENT names
    backup,        \* what CURRENT.bak names
    legacy,        \* the contents of MANIFEST
    legacyBackup,  \* the contents of MANIFEST.bak
    memory,        \* st.manifest, in a record, or None if there is no store
    saving,        \* the Manifest being saved, or None
    savedAs,       \* its generation
    stage          \* the next operation of publishManifestGeneration

files == <<generations, current, backup, legacy, legacyBackup>>
vars  == <<files, memory, saving, savedAs, stage>>

-----------------------------------------------------------------------------
(* activeManifestPath and readCurrentManifestName.                         *)
BugBackupFirst == IF backup # 0 THEN backup ELSE current
Named == IF current # 0 THEN current ELSE backup

(* loadManifest; "damaged" if CURRENT names a generation that is gone.     *)
Damaged == [damaged |-> TRUE]
Loaded ==
    IF Named \in DOMAIN generations THEN generations[Named]
    ELSE IF Named # 0 THEN Damaged
    ELSE IF legacy # None THEN legacy
    ELSE legacyBackup

Init ==
    /\ generations = [g \in {} |-> None]
    /\ current = 0
    /\ backup = 0
    /\ legacy \in Manifest \cup {None}
    /\ legacyBackup \in Manifest \cup {None}
    /\ memory = None
    /\ saving = None
    /\ savedAs = 0
    /\ stage = "idle"

-----------------------------------------------------------------------------
(* publishManifestGeneration and publishCurrent, step by step.             *)

NextGeneration ==
    IF DOMAIN generations = {} THEN 1 ELSE Max(DOMAIN generations) + 1

Save(m) ==
    /\ memory # None
    /\ stage = "idle"
    /\ NextGeneration <= MaxGeneration
    /\ saving' = m
    /\ savedAs' = NextGeneration
    /\ stage' = "generation"
    /\ UNCHANGED <<files, memory>>

(* saveManifest returns an error.                                          *)
Abort ==
    /\ stage' = "idle"
    /\ saving' = None
    /\ savedAs' = 0

WriteGeneration ==
    /\ stage = "generation"
    /\ generations' = [g \in DOMAIN generations \cup {savedAs} |->
                          IF g = savedAs THEN saving ELSE generations[g]]
    /\ stage' = "switch"
    /\ UNCHANGED <<current, backup, legacy, legacyBackup, memory, saving, savedAs>>

(* Before the file exists, or the directory sync behind its rename, or the *)
(* temporary file for CURRENT.                                             *)
WriteFails ==
    /\ "write" \in Faults
    /\ stage \in {"generation", "switch"}
    /\ Abort
    /\ UNCHANGED <<files, memory>>

(* A rename onto a name that is taken replaces the file or fails,          *)
(* depending on the platform; onto a name that is free it should succeed.  *)
RenameMayFail(taken, fault) == taken # 0 \/ fault \in Faults

SwitchCurrent ==
    /\ stage = "switch"
    /\ current' = savedAs
    /\ stage' = "prune"
    /\ UNCHANGED <<generations, backup, legacy, legacyBackup, memory, saving,
                   savedAs>>

SwitchFails ==
    /\ stage = "switch"
    /\ RenameMayFail(current, "free")
    /\ stage' = "dropBackup"
    /\ UNCHANGED <<files, memory, saving, savedAs>>

(* The old backup goes.                                                    *)
DropBackup ==
    /\ stage = "dropBackup"
    /\ backup' \in IF "remove" \in Faults THEN {0, backup} ELSE {0}
    /\ stage' = "moveAside"
    /\ UNCHANGED <<generations, current, legacy, legacyBackup, memory, saving,
                   savedAs>>

(* CURRENT becomes the backup, if there is a CURRENT.                      *)
MoveAside ==
    /\ stage = "moveAside"
    /\ IF current = 0
       THEN UNCHANGED <<current, backup>>
       ELSE /\ backup' = current
            /\ current' = 0
    /\ stage' = "again"
    /\ UNCHANGED <<generations, legacy, legacyBackup, memory, saving, savedAs>>

MoveAsideFails ==
    /\ stage = "moveAside"
    /\ current # 0
    /\ RenameMayFail(backup, "rename")
    /\ Abort
    /\ UNCHANGED <<files, memory>>

SwitchAgain ==
    /\ stage = "again"
    /\ current' = savedAs
    /\ stage' = "dropAside"
    /\ UNCHANGED <<generations, backup, legacy, legacyBackup, memory, saving,
                   savedAs>>

SwitchAgainFails ==
    /\ stage = "again"
    /\ RenameMayFail(current, "rename")
    /\ stage' = "restore"
    /\ UNCHANGED <<files, memory, saving, savedAs>>

(* The backup becomes CURRENT again, if that succeeds; an error anyway.    *)
Restore ==
    /\ stage = "restore"
    /\ \/ /\ backup # 0
          /\ current' = backup
          /\ backup' = 0
       \/ /\ backup = 0 \/ RenameMayFail(current, "rename")
          /\ UNCHANGED <<current, backup>>
    /\ Abort
    /\ UNCHANGED <<generations, legacy, legacyBackup, memory>>

DropAside ==
    /\ stage = "dropAside"
    /\ backup' \in IF "remove" \in Faults THEN {0, backup} ELSE {0}
    /\ stage' = "prune"
    /\ UNCHANGED <<generations, current, legacy, legacyBackup, memory, saving,
                   savedAs>>

(* pruneManifestGenerations keeps the new generation and the one before.   *)
Pruned == {g \in DOMAIN generations : g < savedAs - 1}

(* saveManifest returns nil, and the store goes on with the new Manifest.  *)
Prune ==
    /\ stage = "prune"
    /\ \E kept \in SUBSET Pruned :
          /\ "remove" \notin Faults => kept = {}
          /\ generations' =
                [g \in (DOMAIN generations \ Pruned) \cup kept |-> generations[g]]
    /\ IF memory = None
       THEN /\ stage' = "migrated"
            /\ UNCHANGED <<memory, saving, savedAs>>
       ELSE /\ memory' = [manifest |-> saving]
            /\ Abort
    /\ UNCHANGED <<current, backup, legacy, legacyBackup>>

-----------------------------------------------------------------------------
(* loadManifest when the store opens.  A Manifest of the old layout is     *)
(* saved in the new one first.                                             *)
Open ==
    /\ memory = None
    /\ stage = "idle"
    /\ Loaded # Damaged
    /\ IF Named = 0 /\ Loaded # None
       THEN /\ NextGeneration <= MaxGeneration
            /\ saving' = Loaded
            /\ savedAs' = NextGeneration
            /\ stage' = "generation"
            /\ UNCHANGED memory
       ELSE /\ memory' = [manifest |-> Loaded]
            /\ UNCHANGED <<saving, savedAs, stage>>
    /\ UNCHANGED files

(* The files of the old layout go, MANIFEST first.                         *)
Migrated ==
    /\ stage = "migrated"
    /\ \/ /\ legacy' = None
          /\ legacyBackup' = None
       \/ /\ "remove" \in Faults
          /\ legacy' \in {legacy, None}
          /\ legacyBackup' \in {legacyBackup, None}
    /\ memory' = [manifest |-> saving]
    /\ Abort
    /\ UNCHANGED <<generations, current, backup>>

(* The process dies between two steps, also in the middle of Migrated.     *)
Crash ==
    /\ memory # None \/ stage # "idle"
    /\ memory' = None
    /\ Abort
    /\ \/ UNCHANGED legacy
       \/ stage = "migrated" /\ legacy' = None
    /\ UNCHANGED <<generations, current, backup, legacyBackup>>

-----------------------------------------------------------------------------
Publish ==
    \/ WriteGeneration \/ WriteFails
    \/ SwitchCurrent \/ SwitchFails
    \/ DropBackup \/ MoveAside \/ MoveAsideFails
    \/ SwitchAgain \/ SwitchAgainFails \/ Restore \/ DropAside
    \/ Prune

Next ==
    \/ \E m \in Manifest : Save(m)
    \/ Publish
    \/ Open \/ Migrated \/ Crash

Spec == Init /\ [][Next]_vars

-----------------------------------------------------------------------------
(* Properties.                                                             *)

Cell == INSTANCE AtomicManifest WITH
            value   <- Loaded,
            memory  <- memory,
            pending <- saving,
            done    <- stage \in {"dropAside", "prune", "migrated"}

(* The files implement one atomic cell: neither a crash between any two of *)
(* their operations nor a failing one loses or damages the Manifest, an    *)
(* error means that the old one is still in force, and nil that the new    *)
(* one is.  SamStore relies on it when it takes a save for one step.       *)
IsAtomic == Cell!Spec

=============================================================================
