---------------------------- MODULE DurableCache ----------------------------
(***************************************************************************)
(* The files behind a pending cache: agent/local_cache.py (race results)   *)
(* and agent/telemetry_delivery.py (telemetry snapshots) keep theirs with  *)
(* the same code.  An operation, which holds the cache's lock, loads the   *)
(* whole list from the first file that can be read, restoring the primary  *)
(* from it if need be, and writes the whole list back: temporary file,     *)
(* copy of the primary to the backup, atomic rename of the temporary file  *)
(* to the primary.  The process may die between and within these writes,   *)
(* a write may fail, and a file may turn out damaged.                      *)
(*                                                                         *)
(* A file is absent, torn (not valid JSON) or readable; its list is the    *)
(* set of sessions that have an entry in it.                               *)
(***************************************************************************)
EXTENDS Naturals

CONSTANTS Sessions,     \* session_uid values
          MaxCrashes,   \* bound: deaths of the process
          MaxFaults     \* bound: damaged files and failed writes

ASSUME ConstantsAssumption ==
    /\ MaxCrashes \in Nat
    /\ MaxFaults \in Nat

VARIABLES file,       \* the three files
          pc,         \* next step of the operation that holds the lock
          op,         \* the operation
          entries,    \* the list it loaded
          target,     \* the list being written
          restoring,  \* ... to restore the primary
          crashes, faults,
          last,       \* history: list of the last completed operation
          safe        \* history: entries that were in two completed lists in a row

local == <<op, entries, target, restoring>>
vars  == <<file, pc, local, crashes, faults, last, safe>>

Files  == {"primary", "backup", "temp"}
Values == SUBSET Sessions
Absent == [state |-> "absent", list |-> {}]
Torn   == [state |-> "torn", list |-> {}]
Good(list) == [state |-> "good", list |-> list]
Contents == {Absent, Torn} \cup {Good(list) : list \in Values}
Kinds  == {"load", "save", "mark", "remove"}
Steps  == {"idle", "load", "quarantine", "loaded", "temp", "tempTorn",
           "backup", "backupTorn", "rename"}

TypeOK ==
    /\ file \in [Files -> Contents]
    /\ pc \in Steps
    /\ op \in [kind : Kinds, uid : Sessions]
    /\ entries \in Values
    /\ target \in Values
    /\ restoring \in BOOLEAN
    /\ crashes \in 0..MaxCrashes
    /\ faults \in 0..MaxFaults
    /\ last \in Values
    /\ safe \in Values

Init ==
    /\ file = [f \in Files |-> Absent]
    /\ pc = "idle"
    /\ op \in [kind : {"load"}, uid : Sessions]
    /\ entries = {}
    /\ target = {}
    /\ restoring = FALSE
    /\ crashes = 0
    /\ faults = 0
    /\ last = {}
    /\ safe = {}

-----------------------------------------------------------------------------
Readable(f) == file[f].state = "good"

\* The candidates in the order they are tried; "none" is an empty list.
Source == IF Readable("primary") THEN "primary"
          ELSE IF Readable("backup") THEN "backup"
          ELSE IF Readable("temp") THEN "temp" ELSE "none"

Loaded == IF Source = "none" THEN {} ELSE file[Source].list

Write(f, value) == file' = [file EXCEPT ![f] = value]

\* A write raises: a restore swallows it, an operation passes it to its caller.
Fail ==
    /\ faults < MaxFaults
    /\ faults' = faults + 1
    /\ pc' = IF restoring THEN "loaded" ELSE "idle"
    /\ restoring' = FALSE

-----------------------------------------------------------------------------
(* The operations: load_all, save and save_snapshot, the mark_* functions  *)
(* and attach_race_id, and remove.                                         *)

Start(kind, s) ==
    /\ pc = "idle"
    /\ pc' = "load"
    /\ op' = [kind |-> kind, uid |-> s]
    /\ safe' = IF kind = "remove" THEN safe \ {s} ELSE safe
    /\ UNCHANGED <<file, entries, target, restoring, crashes, faults, last>>

Load ==
    /\ pc = "load"
    /\ entries' = Loaded
    /\ pc' = IF Source \in {"backup", "temp"} THEN "quarantine" ELSE "loaded"
    /\ UNCHANGED <<file, op, target, restoring, crashes, faults, last, safe>>

\* A damaged primary is moved aside, or cannot be; then the restore writes.
Quarantine ==
    /\ pc = "quarantine"
    /\ \/ /\ Write("primary", Absent)
          /\ UNCHANGED faults
       \/ /\ file["primary"] # Absent
          /\ faults < MaxFaults
          /\ faults' = faults + 1
          /\ UNCHANGED file
    /\ target' = entries
    /\ restoring' = TRUE
    /\ pc' = "temp"
    /\ UNCHANGED <<op, entries, crashes, last, safe>>

\* What the operation does to the list; without its entry it ends at once.
Apply ==
    /\ pc = "loaded"
    /\ \/ /\ op.kind = "load" \/ (op.kind # "save" /\ op.uid \notin entries)
          /\ pc' = "idle"
          /\ UNCHANGED target
       \/ /\ \/ op.kind = "save" /\ target' = entries \cup {op.uid}
             \/ op.kind = "mark" /\ op.uid \in entries /\ target' = entries
             \/ op.kind = "remove" /\ op.uid \in entries /\ target' = entries \ {op.uid}
          /\ pc' = "temp"
    /\ UNCHANGED <<file, op, entries, restoring, crashes, faults, last, safe>>

-----------------------------------------------------------------------------
(* _write_entries_locked.                                                  *)

OpenTemp ==
    /\ pc = "temp"
    /\ Write("temp", Torn)
    /\ pc' = "tempTorn"
    /\ UNCHANGED <<local, crashes, faults, last, safe>>

\* Mutated form: the backup is left as it is.
CloseTempNoBackup ==
    /\ pc = "tempTorn"
    /\ Write("temp", Good(target))
    /\ pc' = "rename"
    /\ UNCHANGED <<local, crashes, faults, last, safe>>

CloseTemp ==
    /\ pc = "tempTorn"
    /\ Write("temp", Good(target))
    /\ pc' = IF ~restoring /\ file["primary"] # Absent THEN "backup" ELSE "rename"
    /\ UNCHANGED <<local, crashes, faults, last, safe>>

TempFails ==
    /\ pc \in {"temp", "tempTorn"}
    /\ Fail
    /\ UNCHANGED <<file, op, entries, target, crashes, last, safe>>

OpenBackup ==
    /\ pc = "backup"
    /\ Write("backup", Torn)
    /\ pc' = "backupTorn"
    /\ UNCHANGED <<local, crashes, faults, last, safe>>

CloseBackup ==
    /\ pc = "backupTorn"
    /\ Write("backup", file["primary"])
    /\ pc' = "rename"
    /\ UNCHANGED <<local, crashes, faults, last, safe>>

\* A failed copy is reported and otherwise ignored.
BackupFails ==
    /\ pc \in {"backup", "backupTorn"}
    /\ faults < MaxFaults
    /\ faults' = faults + 1
    /\ pc' = "rename"
    /\ UNCHANGED <<file, local, crashes, last, safe>>

\* Mutated form: the list is written into the primary, which it truncates first.
RenameInPlace ==
    /\ pc = "rename"
    /\ IF Readable("primary")
       THEN /\ Write("primary", Torn)
            /\ UNCHANGED <<pc, restoring, last, safe>>
       ELSE /\ Write("primary", file["temp"])
            /\ pc' = IF restoring THEN "loaded" ELSE "idle"
            /\ restoring' = FALSE
            /\ last' = target
            /\ safe' = safe \cup (last \cap target)
    /\ UNCHANGED <<op, entries, target, crashes, faults>>

Rename ==
    /\ pc = "rename"
    /\ file' = [file EXCEPT !["primary"] = file["temp"], !["temp"] = Absent]
    /\ pc' = IF restoring THEN "loaded" ELSE "idle"
    /\ restoring' = FALSE
    /\ IF restoring THEN UNCHANGED <<last, safe>>
       ELSE last' = target /\ safe' = safe \cup (last \cap target)
    /\ UNCHANGED <<op, entries, target, crashes, faults>>

RenameFails ==
    /\ pc = "rename"
    /\ Fail
    /\ UNCHANGED <<file, op, entries, target, crashes, last, safe>>

-----------------------------------------------------------------------------
Crash ==
    /\ crashes < MaxCrashes
    /\ crashes' = crashes + 1
    /\ pc # "idle"
    /\ pc' = "idle"
    /\ restoring' = FALSE
    /\ UNCHANGED <<file, op, entries, target, faults, last, safe>>

\* A file that was written completely is found damaged.
Damage(f) ==
    /\ faults < MaxFaults
    /\ faults' = faults + 1
    /\ Readable(f)
    /\ Write(f, Torn)
    /\ UNCHANGED <<pc, local, crashes, last, safe>>

Next ==
    \/ \E kind \in Kinds, s \in Sessions : Start(kind, s)
    \/ Load \/ Quarantine \/ Apply
    \/ OpenTemp \/ CloseTemp \/ TempFails
    \/ OpenBackup \/ CloseBackup \/ BackupFails
    \/ Rename \/ RenameFails
    \/ Crash
    \/ \E f \in Files : Damage(f)

Spec == Init /\ [][Next]_vars

-----------------------------------------------------------------------------
(* Properties.                                                             *)

\* What the cache holds: the list of the primary.
Committed == IF Readable("primary") THEN file["primary"].list ELSE {}

Cache == INSTANCE AtomicCache WITH contents <- Committed, damaged <- faults > 0

\* However often the process dies, the cache behaves as a set changed in single
\* steps, as long as no file is damaged and no write fails.
ImplementsAtomicCache == Cache!CacheSpec

\* An entry that two operations in a row have left in the cache, and that nobody
\* has asked to remove, outlives any number of deaths of the process, and one
\* damaged file or failed write together with one death of the process.
SafeEntriesSurvive ==
    pc = "idle" /\ (faults = 0 \/ (faults = 1 /\ crashes <= 1)) => safe \subseteq Loaded

\* The inductive invariant, in which only the first part speaks of a disk with
\* faults.  Without them: the primary is never torn;
PrimaryWhole == file["primary"].state # "torn"

\* until there is a primary there is no backup and none is being made, and the
\* temporary file holds what is left of a first save, so one entry at most;
FirstSave ==
    file["primary"] = Absent =>
        /\ file["backup"] = Absent
        /\ pc \notin {"backup", "backupTorn"}
        /\ Readable("temp") => \E s \in Sessions : file["temp"].list \subseteq {s}

\* a restore takes place only then, of that one entry;
RestoresFirstSave ==
    (pc = "quarantine" \/ restoring) =>
        /\ file["primary"] = Absent
        /\ \E s \in Sessions : entries \subseteq {s}
        /\ restoring => pc \in {"temp", "tempTorn", "rename"} /\ target = entries

\* an operation works on the list of the primary, and writes that list with at
\* most its own entry added or removed;
WritesOwnChange ==
    /\ pc = "loaded" => entries = Committed
    /\ pc \in {"temp", "tempTorn", "backup", "backupTorn", "rename"} /\ ~restoring =>
          /\ entries = Committed
          /\ target \in {entries, entries \cup {op.uid}, entries \ {op.uid}}

\* and what the rename installs is that list, whole.
RenamesTarget == pc \in {"backup", "backupTorn", "rename"} => file["temp"] = Good(target)

FaultFree == PrimaryWhole /\ FirstSave /\ RestoresFirstSave /\ WritesOwnChange /\ RenamesTarget

\* The files and the operation under way always fit together in this way.
CacheInv == TypeOK /\ (faults = 0 => FaultFree)
=============================================================================
