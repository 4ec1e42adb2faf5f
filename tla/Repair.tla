------------------------------- MODULE Repair -------------------------------
(***************************************************************************)
(* RepairDirectory (pkg/store/repair.go) on a directory that Levels has    *)
(* left behind: table files go bad or get lost while the store is down,    *)
(* CURRENT may become unreadable, and a repair, which holds the directory  *)
(* lock, writes a new Manifest and moves what is damaged out of the way.   *)
(***************************************************************************)
EXTENDS Levels

CONSTANTS MaxDamage,  \* bound on the files that go bad
          MayGoBad    \* which files those are: tables, CURRENT

ASSUME RepairAssumption ==
    /\ MaxDamage \in Nat
    /\ MayGoBad \subseteq {"table", "CURRENT"}

VARIABLES
    damaged,     \* tables OpenSStable or Verify refuses, or that are gone
    unreadable,  \* loadManifest fails
    spoiled,     \* history: the keys the damaged files say something of
    losses       \* how many files have gone bad

damageVars == <<damaged, unreadable, spoiled, losses>>
repairVars == <<vars, damageVars>>

RepairInit ==
    /\ Init
    /\ damaged = {}
    /\ unreadable = FALSE
    /\ spoiled = {}
    /\ losses = 0

IdsOf(l) == {l[i].id : i \in DOMAIN l}

(* A file that the Manifest lists goes bad, or away.                       *)
Damage(t) ==
    /\ "table" \in MayGoBad
    /\ ~running
    /\ at = "idle"
    /\ t \in IdsOf(saved.list) \ damaged
    /\ losses < MaxDamage
    /\ losses' = losses + 1
    /\ damaged' = damaged \cup {t}
    /\ spoiled' = spoiled \cup KeysOf(files[t])
    /\ onDisk' \in {onDisk, onDisk \ {t}}
    /\ UNCHANGED <<files, saved, running, maxLevels, listVars, jobVars, expired,
                   kv, unreadable>>

(* CURRENT or what it points to goes bad: no answer is certain any more.   *)
LoseCurrent ==
    /\ "CURRENT" \in MayGoBad
    /\ ~running
    /\ at = "idle"
    /\ losses < MaxDamage
    /\ losses' = losses + 1
    /\ unreadable' = TRUE
    /\ spoiled' = Key
    /\ UNCHANGED <<vars, damaged>>

-----------------------------------------------------------------------------
(* RepairDirectory.                                                        *)

(* The tables a repair looks at: those of the Manifest with their levels,  *)
(* or without a Manifest every .sst file, by name and on level 0.          *)
ByName ==
    [n \in 1..Cardinality(onDisk) |-> [id |-> Nth(onDisk, n - 1), level |-> 0]]

BugCandidates == ByName
Candidates == IF unreadable THEN ByName ELSE saved.list

Healthy(entry) == entry.id \in onDisk \ damaged

(* The new Manifest is saved before any file is moved.                     *)
BugRepairedList == Candidates
RepairedList == Pick(Candidates, {i \in DOMAIN Candidates : Healthy(Candidates[i])})

NextAfter(l) == Max(IdsOf(l) \cup {0}) + 1

RepairManifest ==
    /\ ~running
    /\ at = "idle"
    /\ damaged # {} \/ unreadable
    /\ saved' = [list |-> RepairedList, next |-> NextAfter(RepairedList)]
    /\ todo' = IdsOf(Candidates) \cap damaged \cap onDisk
    /\ at' = "repair"
    /\ damaged' = damaged \cap onDisk
    /\ unreadable' = FALSE
    /\ UNCHANGED <<files, onDisk, running, maxLevels, listVars, job, failed,
                   expired, kv, spoiled, losses>>

(* quarantineSSTable: a rename into the directory corrupt.                 *)
Quarantine ==
    /\ at = "repair"
    /\ \E t \in todo :
          /\ todo' = todo \ {t}
          /\ onDisk' = onDisk \ {t}
          /\ files' = [files EXCEPT ![t] = EmptyLayer]
          /\ damaged' = damaged \ {t}
    /\ UNCHANGED <<saved, running, maxLevels, listVars, at, job, failed, expired,
                   kv, unreadable, spoiled, losses>>

(* The repair returns, with an error if it left something, or dies.        *)
EndRepair ==
    /\ at = "repair"
    /\ at' = "idle"
    /\ todo' = {}
    /\ UNCHANGED <<fileVars, running, maxLevels, listVars, job, failed, expired,
                   kv, damageVars>>

(* A start after damage that touches no table of the Manifest.             *)
OpenRepaired ==
    /\ ~unreadable
    /\ IdsOf(saved.list) \cap damaged = {}
    /\ Open
    /\ UNCHANGED damageVars

RepairNext ==
    \/ running /\ Next /\ UNCHANGED damageVars
    \/ \E t \in TableID : Damage(t)
    \/ LoseCurrent
    \/ RepairManifest \/ Quarantine \/ EndRepair \/ OpenRepaired

RepairSpec == RepairInit /\ [][RepairNext]_repairVars

-----------------------------------------------------------------------------
(* Properties.                                                             *)

(* A repair costs what the damaged tables held and nothing else: a key     *)
(* without a record in one of them still answers with its newest value,    *)
(* through later flushes, compactions and restarts.                        *)
OnlySpoiledKeysSuffer == AnswersHold(Key \ spoiled)

(* As soon as the new Manifest is saved, even if the repair dies before it *)
(* has moved the damaged files, a start finds every table it lists.        *)
RepairedOpens ==
    at = "repair" => ~unreadable /\ IdsOf(saved.list) \subseteq onDisk \ damaged

(* repair.go:25: "the Manifest is authoritative, an orphan that was never  *)
(* published is not added to the Store".  True of a Manifest that can be   *)
(* read; NoOldValue shows what happens without one.                        *)
OrphansStayOut ==
    [][saved' # saved /\ at' = "repair" /\ ~unreadable
          => IdsOf(saved'.list) \subseteq IdsOf(saved.list)]_repairVars
=============================================================================
