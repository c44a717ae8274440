---------------------------- MODULE DesktopProofs ----------------------------
(***************************************************************************)
(* Proofs about four components of the desktop program, which share        *)
(* nothing: the files behind the caches (DurableCache), the delivery panel *)
(* (RetryPanel), the launcher around the agent (LauncherRuntime) and the   *)
(* capture of laps (LapCapture).                                           *)
(*                                                                         *)
(* Files, for any number of sessions and of crashes: until the disk fails  *)
(* they implement the atomic cache.  Only Rename changes what the cache    *)
(* holds, so the argument is that whatever it installs differs from the    *)
(* list it replaces by the one entry of the operation (WritesOwnChange)    *)
(* or, when there is no primary yet, by the one entry of the first save    *)
(* (RestoresFirstSave).  What is safe survives a fault because a second    *)
(* file has it, or memory has until a file does (SafeInv).                 *)
(*                                                                         *)
(* Panel, for any number of passes and results: whatever the threads       *)
(* overwrite of each other's lines, once no pass runs the page is told     *)
(* what is still cached by the first poll that meets no change.  A line    *)
(* written over by an older reading is never called fresh, and a poll that *)
(* is fresh has read what is (PanelInv).                                   *)
(*                                                                         *)
(* Launcher, for any number of launches: while nobody starts or stops in   *)
(* the middle of a launch, one thread at a time has an agent, and every    *)
(* other agent is deaf for good (Orderly).                                 *)
(*                                                                         *)
(* Capture, for any laps and any number of cars and races: what the buffer *)
(* holds is exactly what was told, whichever packet told it (BufferTrue),  *)
(* so a snapshot is exact, and a practice session of it lists each lap     *)
(* once however its three requests fail (SyncTrue).                        *)
(***************************************************************************)
EXTENDS DurableCache, RetryPanel, LauncherRuntime, LapCapture, FiniteSetTheorems, WellFoundedInduction, TLAPS

-----------------------------------------------------------------------------
(* The files behind the caches.                                             *)

\* Every step keeps the types.
LEMMA TypeStep == TypeOK /\ [Next]_vars => TypeOK'
<1> SUFFICES ASSUME TypeOK, [Next]_vars PROVE TypeOK'
  OBVIOUS
<1> USE ConstantsAssumption DEF TypeOK, Readable, Files, Values, Kinds, Steps, Absent, Torn, Good, Contents,
        local
<1>1. ASSUME NEW kind \in Kinds, NEW s \in Sessions, Start(kind, s) PROVE TypeOK'
  BY <1>1 DEF Start
<1>2. ASSUME Load PROVE TypeOK'
  BY <1>2 DEF Load, Loaded, Source
<1>3. ASSUME Quarantine PROVE TypeOK'
  BY <1>3 DEF Quarantine, Write
<1>4. ASSUME Apply PROVE TypeOK'
  BY <1>4 DEF Apply
<1>5. ASSUME OpenTemp PROVE TypeOK'
  BY <1>5 DEF OpenTemp, Write
<1>6. ASSUME CloseTemp PROVE TypeOK'
  BY <1>6 DEF CloseTemp, Write
<1>7. ASSUME TempFails PROVE TypeOK'
  <2>1. faults' \in 0..MaxFaults
    BY <1>7 DEF TempFails, Fail, TypeOK
  <2> QED
    BY <1>7, <2>1 DEF TempFails, Fail, TypeOK, Steps
<1>8. ASSUME OpenBackup PROVE TypeOK'
  BY <1>8 DEF OpenBackup, Write
<1>9. ASSUME CloseBackup PROVE TypeOK'
  BY <1>9 DEF CloseBackup, Write
<1>10. ASSUME BackupFails PROVE TypeOK'
  BY <1>10 DEF BackupFails
<1>11. ASSUME Rename PROVE TypeOK'
  BY <1>11 DEF Rename
<1>12. ASSUME RenameFails PROVE TypeOK'
  <2>1. faults' \in 0..MaxFaults
    BY <1>12 DEF RenameFails, Fail, TypeOK
  <2> QED
    BY <1>12, <2>1 DEF RenameFails, Fail, TypeOK, Steps
<1>13. ASSUME Crash PROVE TypeOK'
  <2>1. crashes' \in 0..MaxCrashes
    BY <1>13 DEF Crash, TypeOK
  <2> QED
    BY <1>13, <2>1 DEF Crash, TypeOK, Steps
<1>14. ASSUME NEW f \in Files, Damage(f) PROVE TypeOK'
  BY <1>14 DEF Damage, Write
<1>15. CASE UNCHANGED vars
  BY <1>15 DEF vars
<1> QED
  BY <1>1, <1>2, <1>3, <1>4, <1>5, <1>6, <1>7, <1>8, <1>9, <1>10, <1>11, <1>12, <1>13, <1>14, <1>15 DEF Next

\* Without faults the primary is replaced by a list that was written whole.
LEMMA PrimaryWholeStep ==
  TypeOK /\ PrimaryWhole /\ RenamesTarget /\ faults = 0 /\ faults' = 0 /\ [Next]_vars => PrimaryWhole'
<1> SUFFICES ASSUME TypeOK, PrimaryWhole, RenamesTarget, faults = 0, faults' = 0, [Next]_vars PROVE PrimaryWhole'
  OBVIOUS
<1> USE ConstantsAssumption DEF PrimaryWhole, RenamesTarget, TypeOK, Readable, Files, Values, Kinds, Steps,
        Absent, Torn, Good, Contents, local
<1>1. ASSUME NEW kind \in Kinds, NEW s \in Sessions, Start(kind, s) PROVE PrimaryWhole'
  BY <1>1 DEF Start
<1>2. ASSUME Load PROVE PrimaryWhole'
  BY <1>2 DEF Load, Loaded, Source
<1>3. ASSUME Quarantine PROVE PrimaryWhole'
  BY <1>3 DEF Quarantine, Write
<1>4. ASSUME Apply PROVE PrimaryWhole'
  BY <1>4 DEF Apply
<1>5. ASSUME OpenTemp PROVE PrimaryWhole'
  BY <1>5 DEF OpenTemp, Write
<1>6. ASSUME CloseTemp PROVE PrimaryWhole'
  BY <1>6 DEF CloseTemp, Write
<1>7. ASSUME TempFails PROVE PrimaryWhole'
  BY <1>7 DEF TempFails, Fail
<1>8. ASSUME OpenBackup PROVE PrimaryWhole'
  BY <1>8 DEF OpenBackup, Write
<1>9. ASSUME CloseBackup PROVE PrimaryWhole'
  BY <1>9 DEF CloseBackup, Write
<1>10. ASSUME BackupFails PROVE PrimaryWhole'
  BY <1>10 DEF BackupFails
<1>11. ASSUME Rename PROVE PrimaryWhole'
  BY <1>11 DEF Rename
<1>12. ASSUME RenameFails PROVE PrimaryWhole'
  BY <1>12 DEF RenameFails, Fail
<1>13. ASSUME Crash PROVE PrimaryWhole'
  BY <1>13 DEF Crash
<1>14. ASSUME NEW f \in Files, Damage(f) PROVE PrimaryWhole'
  BY <1>14 DEF Damage, Write
<1>15. CASE UNCHANGED vars
  BY <1>15 DEF vars
<1> QED
  BY <1>1, <1>2, <1>3, <1>4, <1>5, <1>6, <1>7, <1>8, <1>9, <1>10, <1>11, <1>12, <1>13, <1>14, <1>15 DEF Next

\* Without a primary, only a first save has written anything.
LEMMA FirstSaveStep ==
  TypeOK /\ PrimaryWhole /\ FirstSave /\ RestoresFirstSave /\ WritesOwnChange /\ RenamesTarget /\ faults = 0
  /\ faults' = 0 /\ [Next]_vars => FirstSave'
<1> SUFFICES ASSUME TypeOK, PrimaryWhole, FirstSave, RestoresFirstSave, WritesOwnChange, RenamesTarget, faults = 0, faults' = 0, [Next]_vars PROVE FirstSave'
  OBVIOUS
<1> USE ConstantsAssumption DEF FirstSave, RestoresFirstSave, WritesOwnChange, RenamesTarget, PrimaryWhole,
        Committed, TypeOK, Readable, Files, Values, Kinds, Steps, Absent, Torn, Good, Contents, local
<1>1. ASSUME NEW kind \in Kinds, NEW s \in Sessions, Start(kind, s) PROVE FirstSave'
  BY <1>1 DEF Start
<1>2. ASSUME Load PROVE FirstSave'
  BY <1>2 DEF Load, Loaded, Source
<1>3. ASSUME Quarantine PROVE FirstSave'
  BY <1>3 DEF Quarantine, Write
<1>4. ASSUME Apply PROVE FirstSave'
  BY <1>4 DEF Apply
<1>5. ASSUME OpenTemp PROVE FirstSave'
  BY <1>5 DEF OpenTemp, Write
<1>6. ASSUME CloseTemp PROVE FirstSave'
  BY <1>6 DEF CloseTemp, Write
<1>7. ASSUME TempFails PROVE FirstSave'
  BY <1>7 DEF TempFails, Fail
<1>8. ASSUME OpenBackup PROVE FirstSave'
  BY <1>8 DEF OpenBackup, Write
<1>9. ASSUME CloseBackup PROVE FirstSave'
  BY <1>9 DEF CloseBackup, Write
<1>10. ASSUME BackupFails PROVE FirstSave'
  BY <1>10 DEF BackupFails
<1>11. ASSUME Rename PROVE FirstSave'
  BY <1>11 DEF Rename
<1>12. ASSUME RenameFails PROVE FirstSave'
  BY <1>12 DEF RenameFails, Fail
<1>13. ASSUME Crash PROVE FirstSave'
  BY <1>13 DEF Crash
<1>14. ASSUME NEW f \in Files, Damage(f) PROVE FirstSave'
  BY <1>14 DEF Damage, Write
<1>15. CASE UNCHANGED vars
  BY <1>15 DEF vars
<1> QED
  BY <1>1, <1>2, <1>3, <1>4, <1>5, <1>6, <1>7, <1>8, <1>9, <1>10, <1>11, <1>12, <1>13, <1>14, <1>15 DEF Next

\* Only the entry of a first save is ever restored.
LEMMA RestoresFirstSaveStep ==
  TypeOK /\ PrimaryWhole /\ FirstSave /\ RestoresFirstSave /\ faults = 0 /\ faults' = 0 /\ [Next]_vars => RestoresFirstSave'
<1> SUFFICES ASSUME TypeOK, PrimaryWhole, FirstSave, RestoresFirstSave, faults = 0, faults' = 0, [Next]_vars PROVE RestoresFirstSave'
  OBVIOUS
<1> USE ConstantsAssumption DEF FirstSave, RestoresFirstSave, PrimaryWhole, TypeOK, Readable, Files, Values,
        Kinds, Steps, Absent, Torn, Good, Contents, local
<1>1. ASSUME NEW kind \in Kinds, NEW s \in Sessions, Start(kind, s) PROVE RestoresFirstSave'
  BY <1>1 DEF Start
<1>2. ASSUME Load PROVE RestoresFirstSave'
  <2>1. CASE Source \in {"backup", "temp"}
    <3>1. file["primary"].state = "absent"
      <4>1. ~Readable("primary")
        BY <2>1 DEF Source
      <4>2. file["primary"] \in Contents
        BY DEF TypeOK, Files
      <4> QED
        BY <4>1, <4>2 DEF Readable, PrimaryWhole, Contents, Absent, Torn, Good
    <3>2. file["primary"] = Absent
      BY <3>1 DEF TypeOK, Contents, Files, Torn, Good, Absent
    <3>3. Source = "temp" /\ Readable("temp") /\ ~Readable("backup")
      BY <2>1, <3>2 DEF Source, Readable, FirstSave, Absent
    <3>4. \E s \in Sessions : file["temp"].list \subseteq {s}
      BY <3>2, <3>3 DEF FirstSave
    <3> QED
      BY <1>2, <3>2, <3>3, <3>4 DEF Load, Loaded, RestoresFirstSave
  <2>2. CASE Source \notin {"backup", "temp"}
    BY <1>2, <2>2 DEF Load, RestoresFirstSave
  <2> QED
    BY <2>1, <2>2
<1>3. ASSUME Quarantine PROVE RestoresFirstSave'
  BY <1>3 DEF Quarantine, Write
<1>4. ASSUME Apply PROVE RestoresFirstSave'
  BY <1>4 DEF Apply
<1>5. ASSUME OpenTemp PROVE RestoresFirstSave'
  BY <1>5 DEF OpenTemp, Write
<1>6. ASSUME CloseTemp PROVE RestoresFirstSave'
  BY <1>6 DEF CloseTemp, Write
<1>7. ASSUME TempFails PROVE RestoresFirstSave'
  BY <1>7 DEF TempFails, Fail
<1>8. ASSUME OpenBackup PROVE RestoresFirstSave'
  BY <1>8 DEF OpenBackup, Write
<1>9. ASSUME CloseBackup PROVE RestoresFirstSave'
  BY <1>9 DEF CloseBackup, Write
<1>10. ASSUME BackupFails PROVE RestoresFirstSave'
  BY <1>10 DEF BackupFails
<1>11. ASSUME Rename PROVE RestoresFirstSave'
  BY <1>11 DEF Rename
<1>12. ASSUME RenameFails PROVE RestoresFirstSave'
  BY <1>12 DEF RenameFails, Fail
<1>13. ASSUME Crash PROVE RestoresFirstSave'
  BY <1>13 DEF Crash
<1>14. ASSUME NEW f \in Files, Damage(f) PROVE RestoresFirstSave'
  BY <1>14 DEF Damage, Write
<1>15. CASE UNCHANGED vars
  BY <1>15 DEF vars
<1> QED
  BY <1>1, <1>2, <1>3, <1>4, <1>5, <1>6, <1>7, <1>8, <1>9, <1>10, <1>11, <1>12, <1>13, <1>14, <1>15 DEF Next

\* An operation writes the list of the primary with its own change.
LEMMA WritesOwnChangeStep ==
  TypeOK /\ PrimaryWhole /\ FirstSave /\ RestoresFirstSave /\ WritesOwnChange /\ RenamesTarget /\ faults = 0
  /\ faults' = 0 /\ [Next]_vars => WritesOwnChange'
<1> SUFFICES ASSUME TypeOK, PrimaryWhole, FirstSave, RestoresFirstSave, WritesOwnChange, RenamesTarget, faults = 0, faults' = 0, [Next]_vars PROVE WritesOwnChange'
  OBVIOUS
<1> USE ConstantsAssumption DEF FirstSave, RestoresFirstSave, WritesOwnChange, RenamesTarget, PrimaryWhole,
        Committed, TypeOK, Readable, Files, Values, Kinds, Steps, Absent, Torn, Good, Contents, local
<1>1. ASSUME NEW kind \in Kinds, NEW s \in Sessions, Start(kind, s) PROVE WritesOwnChange'
  BY <1>1 DEF Start
<1>2. ASSUME Load PROVE WritesOwnChange'
  BY <1>2 DEF Load, Loaded, Source
<1>3. ASSUME Quarantine PROVE WritesOwnChange'
  BY <1>3 DEF Quarantine, Write
<1>4. ASSUME Apply PROVE WritesOwnChange'
  BY <1>4 DEF Apply
<1>5. ASSUME OpenTemp PROVE WritesOwnChange'
  BY <1>5 DEF OpenTemp, Write
<1>6. ASSUME CloseTemp PROVE WritesOwnChange'
  BY <1>6 DEF CloseTemp, Write
<1>7. ASSUME TempFails PROVE WritesOwnChange'
  BY <1>7 DEF TempFails, Fail
<1>8. ASSUME OpenBackup PROVE WritesOwnChange'
  BY <1>8 DEF OpenBackup, Write
<1>9. ASSUME CloseBackup PROVE WritesOwnChange'
  BY <1>9 DEF CloseBackup, Write
<1>10. ASSUME BackupFails PROVE WritesOwnChange'
  BY <1>10 DEF BackupFails
<1>11. ASSUME Rename PROVE WritesOwnChange'
  BY <1>11 DEF Rename
<1>12. ASSUME RenameFails PROVE WritesOwnChange'
  BY <1>12 DEF RenameFails, Fail
<1>13. ASSUME Crash PROVE WritesOwnChange'
  BY <1>13 DEF Crash
<1>14. ASSUME NEW f \in Files, Damage(f) PROVE WritesOwnChange'
  BY <1>14 DEF Damage, Write
<1>15. CASE UNCHANGED vars
  BY <1>15 DEF vars
<1> QED
  BY <1>1, <1>2, <1>3, <1>4, <1>5, <1>6, <1>7, <1>8, <1>9, <1>10, <1>11, <1>12, <1>13, <1>14, <1>15 DEF Next

\* The temporary file is whole when it is renamed.
LEMMA RenamesTargetStep ==
  TypeOK /\ RenamesTarget /\ faults = 0 /\ faults' = 0 /\ [Next]_vars => RenamesTarget'
<1> SUFFICES ASSUME TypeOK, RenamesTarget, faults = 0, faults' = 0, [Next]_vars PROVE RenamesTarget'
  OBVIOUS
<1> USE ConstantsAssumption DEF RenamesTarget, TypeOK, Readable, Files, Values, Kinds, Steps, Absent, Torn,
        Good, Contents, local
<1>1. ASSUME NEW kind \in Kinds, NEW s \in Sessions, Start(kind, s) PROVE RenamesTarget'
  BY <1>1 DEF Start
<1>2. ASSUME Load PROVE RenamesTarget'
  BY <1>2 DEF Load, Loaded, Source
<1>3. ASSUME Quarantine PROVE RenamesTarget'
  BY <1>3 DEF Quarantine, Write
<1>4. ASSUME Apply PROVE RenamesTarget'
  BY <1>4 DEF Apply
<1>5. ASSUME OpenTemp PROVE RenamesTarget'
  BY <1>5 DEF OpenTemp, Write
<1>6. ASSUME CloseTemp PROVE RenamesTarget'
  BY <1>6 DEF CloseTemp, Write
<1>7. ASSUME TempFails PROVE RenamesTarget'
  BY <1>7 DEF TempFails, Fail
<1>8. ASSUME OpenBackup PROVE RenamesTarget'
  BY <1>8 DEF OpenBackup, Write
<1>9. ASSUME CloseBackup PROVE RenamesTarget'
  BY <1>9 DEF CloseBackup, Write
<1>10. ASSUME BackupFails PROVE RenamesTarget'
  BY <1>10 DEF BackupFails
<1>11. ASSUME Rename PROVE RenamesTarget'
  BY <1>11 DEF Rename
<1>12. ASSUME RenameFails PROVE RenamesTarget'
  BY <1>12 DEF RenameFails, Fail
<1>13. ASSUME Crash PROVE RenamesTarget'
  BY <1>13 DEF Crash
<1>14. ASSUME NEW f \in Files, Damage(f) PROVE RenamesTarget'
  BY <1>14 DEF Damage, Write
<1>15. CASE UNCHANGED vars
  BY <1>15 DEF vars
<1> QED
  BY <1>1, <1>2, <1>3, <1>4, <1>5, <1>6, <1>7, <1>8, <1>9, <1>10, <1>11, <1>12, <1>13, <1>14, <1>15 DEF Next

\* The invariant holds at the start ...
LEMMA InvInit == Init => CacheInv
<1> SUFFICES ASSUME Init PROVE CacheInv
  OBVIOUS
<1>1. TypeOK
  <2>1. file \in [Files -> Contents]
    BY DEF Init, Files, Contents
  <2>2. op \in [kind : Kinds, uid : Sessions]
    BY DEF Init, Kinds
  <2>3. pc \in Steps /\ entries \in Values /\ target \in Values /\ restoring \in BOOLEAN
        /\ last \in Values /\ safe \in Values
    BY DEF Init, Steps, Values
  <2>4. crashes \in 0..MaxCrashes /\ faults \in 0..MaxFaults
    BY ConstantsAssumption DEF Init
  <2> QED
    BY <2>1, <2>2, <2>3, <2>4 DEF TypeOK
<1>2. PrimaryWhole /\ FirstSave
  BY DEF Init, PrimaryWhole, FirstSave, Readable, Files, Absent
<1>3. RestoresFirstSave /\ WritesOwnChange /\ RenamesTarget
  BY DEF Init, RestoresFirstSave, WritesOwnChange, RenamesTarget
<1> QED
  BY <1>1, <1>2, <1>3 DEF CacheInv, FaultFree

\* ... no step takes a fault back ...
LEMMA FaultsGrow == TypeOK /\ [Next]_vars /\ faults' = 0 => faults = 0
  BY DEF TypeOK, Next, vars, local, Start, Load, Quarantine, Apply, OpenTemp, CloseTemp, TempFails, OpenBackup,
     CloseBackup, BackupFails, Rename, RenameFails, Crash, Damage, Fail

\* ... and so every step keeps the invariant.
LEMMA InvStep == CacheInv /\ [Next]_vars => CacheInv'
<1> SUFFICES ASSUME CacheInv, [Next]_vars PROVE CacheInv'
  OBVIOUS
<1>1. TypeOK'
  BY TypeStep DEF CacheInv
<1>2. ASSUME faults' = 0 PROVE FaultFree'
  <2>1. faults = 0 /\ TypeOK /\ FaultFree
    BY <1>2, FaultsGrow DEF CacheInv, FaultFree
  <2> QED
    BY <1>2, <2>1, PrimaryWholeStep, FirstSaveStep, RestoresFirstSaveStep, WritesOwnChangeStep, RenamesTargetStep
    DEF FaultFree
<1> QED
  BY <1>1, <1>2 DEF CacheInv, FaultFree

\* The invariant of the files and the operation under way, with any number of
\* sessions, deaths of the process and faults of the disk.
THEOREM CacheInvariant == Spec => []CacheInv
  BY InvInit, InvStep, PTL DEF Spec

-----------------------------------------------------------------------------
\* On a disk without faults only Rename changes what the cache holds.
LEMMA OnlyRenameCommits ==
  ASSUME CacheInv, faults = 0, faults' = 0, [Next]_vars, ~Rename
  PROVE  UNCHANGED Committed
<1> USE DEF CacheInv, FaultFree, TypeOK, FirstSave, RestoresFirstSave, PrimaryWhole, Committed, Readable, Files, Values, Absent, Torn, Good, Contents, local
<1>1. ASSUME NEW kind \in Kinds, NEW s \in Sessions, Start(kind, s) PROVE UNCHANGED Committed
  BY <1>1 DEF Start
<1>2. ASSUME Load PROVE UNCHANGED Committed
  BY <1>2 DEF Load
<1>3. ASSUME Quarantine PROVE UNCHANGED Committed
  BY <1>3 DEF Quarantine, Write
<1>4. ASSUME Apply PROVE UNCHANGED Committed
  BY <1>4 DEF Apply
<1>5. ASSUME OpenTemp PROVE UNCHANGED Committed
  BY <1>5 DEF OpenTemp, Write
<1>6. ASSUME CloseTemp PROVE UNCHANGED Committed
  BY <1>6 DEF CloseTemp, Write
<1>7. ASSUME TempFails PROVE UNCHANGED Committed
  BY <1>7 DEF TempFails, Fail
<1>8. ASSUME OpenBackup PROVE UNCHANGED Committed
  BY <1>8 DEF OpenBackup, Write
<1>9. ASSUME CloseBackup PROVE UNCHANGED Committed
  BY <1>9 DEF CloseBackup, Write
<1>10. ASSUME BackupFails PROVE UNCHANGED Committed
  BY <1>10 DEF BackupFails
<1>11. ASSUME RenameFails PROVE UNCHANGED Committed
  BY <1>11 DEF RenameFails, Fail
<1>12. ASSUME Crash PROVE UNCHANGED Committed
  BY <1>12 DEF Crash
<1>13. ASSUME NEW f \in Files, Damage(f) PROVE UNCHANGED Committed
  BY <1>13 DEF Damage, Write
<1>14. CASE UNCHANGED vars
  BY <1>14 DEF vars
<1> QED
  BY <1>1, <1>2, <1>3, <1>4, <1>5, <1>6, <1>7, <1>8, <1>9, <1>10, <1>11, <1>12, <1>13, <1>14 DEF Next

\* What a rename commits differs from what it replaces by one entry.
LEMMA RenameMoves ==
  ASSUME CacheInv, faults = 0, Rename
  PROVE  \E s \in Sessions : \/ Committed' = Committed \cup {s}
                             \/ Committed' = Committed \ {s}
                             \/ UNCHANGED Committed
<1>1. Committed' = target
  BY DEF Rename, CacheInv, FaultFree, TypeOK, RenamesTarget, Committed, Readable, Good, Files
<1>2. op.uid \in Sessions
  BY DEF CacheInv, TypeOK
<1>3. CASE restoring
  <2>1. Committed = {}
    BY <1>3 DEF CacheInv, FaultFree, RestoresFirstSave, Committed, Readable, Absent
  <2>2. PICK s \in Sessions : target \subseteq {s}
    BY <1>3 DEF CacheInv, FaultFree, RestoresFirstSave
  <2>3. target = {} \/ target = {s}
    BY <2>2
  <2> QED
    BY <1>1, <2>1, <2>3
<1>4. CASE ~restoring
  BY <1>1, <1>2, <1>4 DEF Rename, CacheInv, FaultFree, WritesOwnChange
<1> QED
  BY <1>3, <1>4

\* Until the disk fails the three files behave, through any number of deaths of
\* the process, as a set that changes by one entry at a time.
THEOREM CacheIsAtomic == Spec => ImplementsAtomicCache
<1>1. Init => Cache!CacheInit
  BY DEF Init, Cache!CacheInit, Committed, Readable, Absent, Files
<1>2. CacheInv /\ CacheInv' /\ [Next]_vars => [Cache!CacheNext]_(Cache!cacheVars)
  <2> SUFFICES ASSUME CacheInv, CacheInv', [Next]_vars PROVE [Cache!CacheNext]_(Cache!cacheVars)
    OBVIOUS
  <2>1. faults \in Nat /\ faults' \in Nat
    BY ConstantsAssumption DEF CacheInv, TypeOK
  <2>2. CASE faults' # 0
    <3>1. (faults > 0)' = TRUE
      BY <2>1, <2>2
    <3>2. Committed' \in SUBSET Sessions
      BY DEF CacheInv, TypeOK, Committed, Contents, Values, Absent, Torn, Good, Files, Readable
    <3> QED
      BY <3>1, <3>2 DEF Cache!CacheNext, Cache!DiskFails
  <2>3. CASE faults' = 0
    <3>1. faults = 0
      BY <2>3, FaultsGrow DEF CacheInv
    <3>2. (faults > 0) = FALSE /\ (faults > 0)' = FALSE
      BY <2>3, <3>1
    <3>3. CASE Rename
      BY <2>3, <3>1, <3>2, <3>3, RenameMoves DEF Cache!CacheNext, Cache!Put, Cache!Drop, Cache!cacheVars
    <3>4. CASE ~Rename
      BY <2>3, <3>1, <3>2, <3>4, OnlyRenameCommits DEF Cache!cacheVars
    <3> QED
      BY <3>3, <3>4
  <2> QED
    BY <2>2, <2>3
<1> QED
  BY <1>1, <1>2, CacheInvariant, PTL DEF Spec, ImplementsAtomicCache, Cache!CacheSpec

-----------------------------------------------------------------------------
(* Entries that are safe.                                                   *)

\* The steps at which the temporary file holds the list that is to be installed.
Installing == {"backup", "backupTorn", "rename"}
Holds(f)   == Readable(f) /\ safe \subseteq file[f].list

\* Nobody removes what is safe.
RemovesUnsafe == op.kind = "remove" /\ pc # "idle" => op.uid \notin safe

\* On a disk without faults the primary holds what is safe.  So does the backup, from
\* the second completed write on, but when a process died while copying it: then the
\* temporary file does, until it is written again.
SafeTwice ==
    /\ safe \subseteq Committed /\ last \subseteq Committed
    /\ pc = "rename" /\ ~restoring /\ file["primary"] # Absent => file["backup"] = file["primary"]
    /\ Readable("backup") => Holds("backup")
    /\ ~Readable("backup") =>
          \/ safe = {}
          \/ crashes = 0 /\ pc \in {"backup", "backupTorn"}
          \/ crashes = 1 /\ (Holds("temp") \/ pc \notin {"idle", "load", "loaded"})
          \/ crashes > 1

\* The operation at work has what is safe in memory, and the files have it whenever
\* the operation may be over.
SafeAtWork ==
    /\ pc \in {"idle", "load", "loaded"} => safe \subseteq Loaded
    /\ pc = "quarantine" => ~Readable("primary")
    /\ pc \in {"quarantine", "loaded"} \/ restoring => safe \subseteq entries
    /\ pc \in {"temp", "tempTorn"} \cup Installing => safe \subseteq target
    /\ restoring => target = entries /\ pc \in {"temp", "tempTorn", "rename"}

\* The list to be installed was written whole; or the one fault has hit it, and what is
\* replaced, or its copy, has what is safe.
SafeInstall ==
    /\ pc \in {"backup", "backupTorn"} =>
          \/ file["temp"] = Good(target)
          \/ faults = 1 /\ file["temp"] = Torn /\ Holds("primary") /\ last \subseteq file["primary"].list
    /\ pc = "rename" =>
          \/ file["temp"] = Good(target)
          \/ /\ faults = 1 /\ file["temp"] = Torn
             /\ \/ safe = {} /\ last \cap target = {}
                \/ Holds("primary") /\ Holds("backup") /\ last \cap target \subseteq file["backup"].list

\* After the one fault, a process that dies leaves what is safe in a file.
SafeOnDisk ==
    /\ Readable("primary") => Holds("primary")
    /\ ~Readable("primary") /\ Readable("backup") => Holds("backup")
    /\ ~Readable("primary") /\ ~Readable("backup") /\ pc \notin Installing => safe = {}
    /\ ~Readable("primary") /\ pc \in Installing => safe = {} \/ file["temp"] = Good(target)

Survivable == faults = 0 \/ (faults = 1 /\ crashes <= 1)
SafeInv == /\ RemovesUnsafe
           /\ faults = 0 => SafeTwice
           /\ Survivable => SafeAtWork /\ SafeInstall
           /\ faults = 1 /\ crashes = 0 => SafeOnDisk

\* An entry that is to be removed is not safe.
LEMMA RemovesUnsafeStep == TypeOK /\ RemovesUnsafe /\ [Next]_vars => RemovesUnsafe'
<1> SUFFICES ASSUME TypeOK, RemovesUnsafe, [Next]_vars PROVE RemovesUnsafe'
  OBVIOUS
<1> USE ConstantsAssumption DEF TypeOK, Readable, Committed, Loaded, Source, Files, Values, Kinds, Steps,
        Absent, Torn, Good, Contents, local, RemovesUnsafe
<1>1. ASSUME NEW kind \in Kinds, NEW s \in Sessions, Start(kind, s) PROVE RemovesUnsafe'
  BY <1>1 DEF Start
<1>2. ASSUME Load PROVE RemovesUnsafe'
  BY <1>2 DEF Load, Loaded, Source
<1>3. ASSUME Quarantine PROVE RemovesUnsafe'
  BY <1>3 DEF Quarantine, Write
<1>4. ASSUME Apply PROVE RemovesUnsafe'
  BY <1>4 DEF Apply
<1>5. ASSUME OpenTemp PROVE RemovesUnsafe'
  BY <1>5 DEF OpenTemp, Write
<1>6. ASSUME CloseTemp PROVE RemovesUnsafe'
  BY <1>6 DEF CloseTemp, Write
<1>7. ASSUME TempFails PROVE RemovesUnsafe'
  BY <1>7 DEF TempFails, Fail
<1>8. ASSUME OpenBackup PROVE RemovesUnsafe'
  BY <1>8 DEF OpenBackup, Write
<1>9. ASSUME CloseBackup PROVE RemovesUnsafe'
  BY <1>9 DEF CloseBackup, Write
<1>10. ASSUME BackupFails PROVE RemovesUnsafe'
  BY <1>10 DEF BackupFails
<1>11. ASSUME Rename PROVE RemovesUnsafe'
  BY <1>11 DEF Rename
<1>12. ASSUME RenameFails PROVE RemovesUnsafe'
  BY <1>12 DEF RenameFails, Fail
<1>13. ASSUME Crash PROVE RemovesUnsafe'
  BY <1>13 DEF Crash
<1>14. ASSUME NEW f \in Files, Damage(f) PROVE RemovesUnsafe'
  BY <1>14 DEF Damage, Write
<1>15. ASSUME UNCHANGED vars PROVE RemovesUnsafe'
  BY <1>15 DEF vars
<1> QED
  BY <1>1, <1>2, <1>3, <1>4, <1>5, <1>6, <1>7, <1>8, <1>9, <1>10, <1>11, <1>12, <1>13, <1>14, <1>15 DEF Next

\* Without faults every write keeps what is safe in two files.
LEMMA SafeTwiceStep ==
  TypeOK /\ FaultFree /\ RemovesUnsafe /\ SafeTwice /\ SafeAtWork /\ faults = 0 /\ faults' = 0 /\
  [Next]_vars => SafeTwice'
<1> SUFFICES ASSUME TypeOK, FaultFree, RemovesUnsafe, SafeTwice, SafeAtWork, faults = 0, faults' = 0,
        [Next]_vars PROVE SafeTwice'
  OBVIOUS
<1> USE ConstantsAssumption DEF TypeOK, Readable, Committed, Loaded, Source, Files, Values, Kinds, Steps,
        Absent, Torn, Good, Contents, local, FaultFree, PrimaryWhole, FirstSave, RestoresFirstSave,
        WritesOwnChange, RenamesTarget, SafeTwice, SafeAtWork, RemovesUnsafe, Holds
<1>1. ASSUME NEW kind \in Kinds, NEW s \in Sessions, Start(kind, s) PROVE SafeTwice'
  BY <1>1 DEF Start
<1>2. ASSUME Load PROVE SafeTwice'
  BY <1>2 DEF Load, Loaded, Source
<1>3. ASSUME Quarantine PROVE SafeTwice'
  BY <1>3 DEF Quarantine, Write
<1>4. ASSUME Apply PROVE SafeTwice'
  BY <1>4 DEF Apply
<1>5. ASSUME OpenTemp PROVE SafeTwice'
  BY <1>5 DEF OpenTemp, Write
<1>6. ASSUME CloseTemp PROVE SafeTwice'
  BY <1>6 DEF CloseTemp, Write
<1>7. ASSUME TempFails PROVE SafeTwice'
  BY <1>7 DEF TempFails, Fail
<1>8. ASSUME OpenBackup PROVE SafeTwice'
  BY <1>8 DEF OpenBackup, Write
<1>9. ASSUME CloseBackup PROVE SafeTwice'
  BY <1>9 DEF CloseBackup, Write
<1>10. ASSUME BackupFails PROVE SafeTwice'
  BY <1>10 DEF BackupFails
<1>11. ASSUME Rename PROVE SafeTwice'
  <2>1. /\ file["temp"] = Good(target) /\ file' = [file EXCEPT !["primary"] = Good(target), !["temp"] = Absent]
        /\ safe \subseteq target /\ pc = "rename" /\ pc' # "rename"
    <3>1. pc = "rename"
      BY <1>11 DEF Rename
    <3>2. file["temp"] = Good(target) /\ safe \subseteq target
      BY <3>1 DEF Installing
    <3> QED BY <1>11, <3>1, <3>2 DEF Rename
  <2>2. Committed' = target /\ file'["backup"] = file["backup"]
    BY <2>1
  <2>3. CASE restoring
    <3>1. safe = {} /\ last = {} /\ safe' = safe /\ last' = last
      BY <1>11, <2>3 DEF Rename
    <3> QED BY <2>1, <2>2, <3>1
  <2>4. CASE ~restoring
    <3>1. last' = target /\ safe' = safe \cup (last \cap target)
      BY <1>11, <2>4 DEF Rename
    <3>2. CASE file["primary"] = Absent
      <4>1. safe' = {}
        BY <3>1, <3>2
      <4> QED BY <2>1, <2>2, <3>1, <4>1
    <3>3. CASE file["primary"] # Absent
      <4>1. file["backup"] = file["primary"] /\ Readable("primary") /\ safe' \subseteq file["primary"].list
        BY <2>1, <2>4, <3>1, <3>3
      <4> QED BY <2>1, <2>2, <3>1, <4>1
    <3> QED BY <3>2, <3>3
  <2> QED BY <2>3, <2>4
<1>12. ASSUME RenameFails PROVE SafeTwice'
  BY <1>12 DEF RenameFails, Fail
<1>13. ASSUME Crash PROVE SafeTwice'
  <2>1. /\ UNCHANGED <<file, safe, last>> /\ pc' = "idle" /\ crashes' = crashes + 1 /\ crashes \in Nat
        /\ pc \in {"backup", "backupTorn"} => Holds("temp")
    BY <1>13 DEF Crash, Installing
  <2>2. Holds("temp")' = Holds("temp") /\ Holds("backup")' = Holds("backup") /\ Readable("backup")' = Readable("backup")
    BY <2>1
  <2>3. ~Readable("backup") => safe = {} \/ Holds("temp") \/ crashes' > 1
    BY <2>1
  <2> QED BY <2>1, <2>2, <2>3
<1>14. ASSUME NEW f \in Files, Damage(f) PROVE SafeTwice'
  BY <1>14 DEF Damage, Write
<1>15. ASSUME UNCHANGED vars PROVE SafeTwice'
  BY <1>15 DEF vars
<1> QED
  BY <1>1, <1>2, <1>3, <1>4, <1>5, <1>6, <1>7, <1>8, <1>9, <1>10, <1>11, <1>12, <1>13, <1>14, <1>15 DEF Next

\* What is safe stays in memory while an operation is at work, and in a file when it is over.
LEMMA SafeAtWorkStep ==
  TypeOK /\ (faults = 0 => FaultFree) /\ SafeInv /\ Survivable' /\ [Next]_vars => SafeAtWork'
<1> SUFFICES ASSUME TypeOK, (faults = 0 => FaultFree), SafeInv, Survivable', [Next]_vars PROVE SafeAtWork'
  OBVIOUS
<1> USE ConstantsAssumption DEF TypeOK, Readable, Committed, Loaded, Source, Files, Values, Kinds, Steps,
        Absent, Torn, Good, Contents, local, SafeInv, FaultFree, PrimaryWhole, FirstSave, RestoresFirstSave,
        WritesOwnChange, RenamesTarget, SafeTwice, SafeAtWork, SafeInstall, SafeOnDisk, RemovesUnsafe, Holds,
        Installing, Survivable
<1>1. ASSUME NEW kind \in Kinds, NEW s \in Sessions, Start(kind, s) PROVE SafeAtWork'
  BY <1>1 DEF Start
<1>2. ASSUME Load PROVE SafeAtWork'
  BY <1>2 DEF Load, Loaded, Source
<1>3. ASSUME Quarantine PROVE SafeAtWork'
  BY <1>3 DEF Quarantine, Write
<1>4. ASSUME Apply PROVE SafeAtWork'
  BY <1>4 DEF Apply
<1>5. ASSUME OpenTemp PROVE SafeAtWork'
  BY <1>5 DEF OpenTemp, Write
<1>6. ASSUME CloseTemp PROVE SafeAtWork'
  BY <1>6 DEF CloseTemp, Write
<1>7. ASSUME TempFails PROVE SafeAtWork'
  BY <1>7 DEF TempFails, Fail
<1>8. ASSUME OpenBackup PROVE SafeAtWork'
  BY <1>8 DEF OpenBackup, Write
<1>9. ASSUME CloseBackup PROVE SafeAtWork'
  BY <1>9 DEF CloseBackup, Write
<1>10. ASSUME BackupFails PROVE SafeAtWork'
  BY <1>10 DEF BackupFails
<1>11. ASSUME Rename PROVE SafeAtWork'
  BY <1>11 DEF Rename
<1>12. ASSUME RenameFails PROVE SafeAtWork'
  BY <1>12 DEF RenameFails, Fail
<1>13. ASSUME Crash PROVE SafeAtWork'
  BY <1>13 DEF Crash
<1>14. ASSUME NEW f \in Files, Damage(f) PROVE SafeAtWork'
  BY <1>14 DEF Damage, Write
<1>15. ASSUME UNCHANGED vars PROVE SafeAtWork'
  BY <1>15 DEF vars
<1> QED
  BY <1>1, <1>2, <1>3, <1>4, <1>5, <1>6, <1>7, <1>8, <1>9, <1>10, <1>11, <1>12, <1>13, <1>14, <1>15 DEF Next

\* What is installed has what is safe, or what it replaces has a copy.
LEMMA SafeInstallStep ==
  TypeOK /\ (faults = 0 => FaultFree) /\ SafeInv /\ Survivable' /\ [Next]_vars => SafeInstall'
<1> SUFFICES ASSUME TypeOK, (faults = 0 => FaultFree), SafeInv, Survivable', [Next]_vars PROVE SafeInstall'
  OBVIOUS
<1> USE ConstantsAssumption DEF TypeOK, Readable, Committed, Loaded, Source, Files, Values, Kinds, Steps,
        Absent, Torn, Good, Contents, local, SafeInv, FaultFree, PrimaryWhole, FirstSave, RestoresFirstSave,
        WritesOwnChange, RenamesTarget, SafeTwice, SafeAtWork, SafeInstall, SafeOnDisk, RemovesUnsafe, Holds,
        Installing, Survivable
<1>1. ASSUME NEW kind \in Kinds, NEW s \in Sessions, Start(kind, s) PROVE SafeInstall'
  BY <1>1 DEF Start
<1>2. ASSUME Load PROVE SafeInstall'
  BY <1>2 DEF Load, Loaded, Source
<1>3. ASSUME Quarantine PROVE SafeInstall'
  BY <1>3 DEF Quarantine, Write
<1>4. ASSUME Apply PROVE SafeInstall'
  BY <1>4 DEF Apply
<1>5. ASSUME OpenTemp PROVE SafeInstall'
  BY <1>5 DEF OpenTemp, Write
<1>6. ASSUME CloseTemp PROVE SafeInstall'
  BY <1>6 DEF CloseTemp, Write
<1>7. ASSUME TempFails PROVE SafeInstall'
  BY <1>7 DEF TempFails, Fail
<1>8. ASSUME OpenBackup PROVE SafeInstall'
  BY <1>8 DEF OpenBackup, Write
<1>9. ASSUME CloseBackup PROVE SafeInstall'
  BY <1>9 DEF CloseBackup, Write
<1>10. ASSUME BackupFails PROVE SafeInstall'
  BY <1>10 DEF BackupFails
<1>11. ASSUME Rename PROVE SafeInstall'
  BY <1>11 DEF Rename
<1>12. ASSUME RenameFails PROVE SafeInstall'
  BY <1>12 DEF RenameFails, Fail
<1>13. ASSUME Crash PROVE SafeInstall'
  BY <1>13 DEF Crash
<1>14. ASSUME NEW f \in Files, Damage(f) PROVE SafeInstall'
  BY <1>14 DEF Damage, Write
<1>15. ASSUME UNCHANGED vars PROVE SafeInstall'
  BY <1>15 DEF vars
<1> QED
  BY <1>1, <1>2, <1>3, <1>4, <1>5, <1>6, <1>7, <1>8, <1>9, <1>10, <1>11, <1>12, <1>13, <1>14, <1>15 DEF Next

\* After one fault there is a file at every step that has what is safe.
LEMMA SafeOnDiskStep ==
  TypeOK /\ (faults = 0 => FaultFree) /\ SafeInv /\ faults' = 1 /\ crashes' = 0 /\ [Next]_vars => SafeOnDisk'
<1> SUFFICES ASSUME TypeOK, (faults = 0 => FaultFree), SafeInv, faults' = 1, crashes' = 0, [Next]_vars PROVE
        SafeOnDisk'
  OBVIOUS
<1> USE ConstantsAssumption DEF TypeOK, Readable, Committed, Loaded, Source, Files, Values, Kinds, Steps,
        Absent, Torn, Good, Contents, local, SafeInv, FaultFree, PrimaryWhole, FirstSave, RestoresFirstSave,
        WritesOwnChange, RenamesTarget, SafeTwice, SafeAtWork, SafeInstall, SafeOnDisk, RemovesUnsafe, Holds,
        Installing, Survivable
<1>1. ASSUME NEW kind \in Kinds, NEW s \in Sessions, Start(kind, s) PROVE SafeOnDisk'
  BY <1>1 DEF Start
<1>2. ASSUME Load PROVE SafeOnDisk'
  BY <1>2 DEF Load, Loaded, Source
<1>3. ASSUME Quarantine PROVE SafeOnDisk'
  <2>1. /\ pc = "quarantine" /\ pc' = "temp" /\ UNCHANGED <<safe, crashes>>
        /\ file' = [file EXCEPT !["primary"] = Absent] \/ (file' = file /\ faults = 0)
    BY <1>3 DEF Quarantine, Write
  <2>4. pc \notin Installing /\ ~Readable("primary")
    <3>1. faults \in {0, 1} /\ crashes = 0
      BY <1>3 DEF Quarantine
    <3>2. SafeAtWork /\ pc = "quarantine"
      BY <2>1, <3>1
    <3> QED BY <3>2
  <2>2. CASE faults = 0
    <3>1. file["primary"] = Absent /\ safe = {}
      BY <2>1, <2>2
    <3> QED BY <2>1, <3>1
  <2>3. CASE faults # 0
    <3>1. SafeOnDisk /\ file' = [file EXCEPT !["primary"] = Absent]
      BY <2>1, <2>3, <1>3 DEF Quarantine
    <3>2. Readable("backup") => Holds("backup")
      BY <2>1, <2>4, <3>1
    <3>3. ~Readable("backup") => safe = {}
      BY <2>1, <2>4, <3>1
    <3>4. ~Readable("primary")' /\ file'["backup"] = file["backup"]
      BY <3>1
    <3> QED BY <2>1, <3>2, <3>3, <3>4
  <2> QED BY <2>2, <2>3
<1>4. ASSUME Apply PROVE SafeOnDisk'
  BY <1>4 DEF Apply
<1>5. ASSUME OpenTemp PROVE SafeOnDisk'
  BY <1>5 DEF OpenTemp, Write
<1>6. ASSUME CloseTemp PROVE SafeOnDisk'
  BY <1>6 DEF CloseTemp, Write
<1>7. ASSUME TempFails PROVE SafeOnDisk'
  BY <1>7 DEF TempFails, Fail
<1>8. ASSUME OpenBackup PROVE SafeOnDisk'
  BY <1>8 DEF OpenBackup, Write
<1>9. ASSUME CloseBackup PROVE SafeOnDisk'
  BY <1>9 DEF CloseBackup, Write
<1>10. ASSUME BackupFails PROVE SafeOnDisk'
  BY <1>10 DEF BackupFails
<1>11. ASSUME Rename PROVE SafeOnDisk'
  BY <1>11 DEF Rename
<1>12. ASSUME RenameFails PROVE SafeOnDisk'
  BY <1>12 DEF RenameFails, Fail
<1>13. ASSUME Crash PROVE SafeOnDisk'
  BY <1>13 DEF Crash
<1>14. ASSUME NEW f \in Files, Damage(f) PROVE SafeOnDisk'
  BY <1>14 DEF Damage, Write
<1>15. ASSUME UNCHANGED vars PROVE SafeOnDisk'
  BY <1>15 DEF vars
<1> QED
  BY <1>1, <1>2, <1>3, <1>4, <1>5, <1>6, <1>7, <1>8, <1>9, <1>10, <1>11, <1>12, <1>13, <1>14, <1>15 DEF Next

\* Nothing is safe to begin with.
LEMMA SafeInit == Init => SafeInv
BY ConstantsAssumption
   DEF Init, SafeInv, RemovesUnsafe, SafeTwice, SafeAtWork, SafeInstall, SafeOnDisk, Readable, Files, Absent, Installing

\* Every step keeps what is safe.
LEMMA SafeStep == CacheInv /\ SafeInv /\ [Next]_vars => SafeInv'
<1> SUFFICES ASSUME CacheInv, SafeInv, [Next]_vars PROVE SafeInv'
  OBVIOUS
<1>1. TypeOK /\ (faults = 0 => FaultFree) /\ TypeOK'
  BY TypeStep DEF CacheInv
<1>2. RemovesUnsafe'
  BY <1>1, RemovesUnsafeStep DEF SafeInv
<1>3. faults' = 0 => SafeTwice'
  <2> SUFFICES ASSUME faults' = 0 PROVE SafeTwice'
    OBVIOUS
  <2>1. faults = 0
    BY <1>1, FaultsGrow
  <2> QED BY <1>1, <2>1, SafeTwiceStep DEF SafeInv, Survivable
<1>4. Survivable' => SafeAtWork' /\ SafeInstall'
  BY <1>1, SafeAtWorkStep, SafeInstallStep
<1>5. faults' = 1 /\ crashes' = 0 => SafeOnDisk'
  BY <1>1, SafeOnDiskStep
<1> QED BY <1>2, <1>3, <1>4, <1>5 DEF SafeInv

\* Where every safe entry is, at each step of an operation and whatever fails.
THEOREM SafeInvariant == Spec => []SafeInv
BY CacheInvariant, SafeInit, SafeStep, PTL DEF Spec

\* What two operations have left in the cache outlives deaths of the process, and one
\* fault together with one death, for any number of sessions (agent/local_cache.py).
THEOREM EntriesSurvive == Spec => []SafeEntriesSurvive
<1>1. SafeInv => SafeEntriesSurvive
  BY DEF SafeInv, Survivable, SafeAtWork, SafeEntriesSurvive
<1> QED BY <1>1, SafeInvariant, PTL

-----------------------------------------------------------------------------
(* The delivery panel. *)

\* A line has the type of a line.
LEMMA LineType ==
  ASSUME NEW line \in PanelLines, NEW retrying \in BOOLEAN, NEW c \in CacheCounts
  PROVE  LineFor(line, retrying, c) \in [state : {"ready", "pending", "retrying", "error", "auth_failed"},
                                         count : Nat, ready : Nat]
<1>1. c.results \in Nat /\ c.waiting \in Nat /\ c.ready \in Nat /\ c.waiting + c.ready \in Nat
  BY PanelAssumption DEF CacheCounts
<1> QED
  BY <1>1 DEF LineFor, PanelLines

\* The panel begins with the lines of what is cached.
LEMMA PanelBegins == PanelInit => PanelInv
<1> SUFFICES ASSUME PanelInit PROVE PanelInv
  OBVIOUS
<1> USE PanelAssumption DEF PanelInit
<1>1. cached \in CacheCounts /\ cached.results <= results /\ cached.waiting + cached.ready <= MaxResults
      /\ results \in 0..MaxResults
  BY DEF CacheCounts
<1>2. panel \in [PanelLines -> [state : {"ready", "pending", "retrying", "error", "auth_failed"},
                                count : Nat, ready : Nat]]
  BY <1>1, LineType DEF LinesOf
<1>3. PanelTypeOK
  BY <1>1, <1>2 DEF PanelTypeOK, Idle, Threads
<1> QED
  BY <1>1, <1>3 DEF PanelInv, Idle, Threads

\* A refresh begins by reading; the page's own reading is what is.
LEMMA Looking ==
  ASSUME PanelInv, NEW t \in Threads, Look(t)
  PROVE  PanelInv'
<1> DEFINE reading == [flag |-> retryFlag, caches |-> cached]
<1> USE DEF Look
<1>1. reading \in Readings
  BY DEF PanelInv, PanelTypeOK, Readings
<1>2. refresh' = [refresh EXCEPT ![t] = [refresh[t] EXCEPT !.seen = {reading}]]
  OBVIOUS
<1>3. [refresh[t] EXCEPT !.seen = {reading}] \in [lines : SUBSET PanelLines, seen : SUBSET Readings]
  BY <1>1 DEF PanelInv, PanelTypeOK
<1>4. PanelTypeOK'
  BY <1>2, <1>3 DEF PanelInv, PanelTypeOK
<1>5. CASE t = Page
  <2>1. refresh'[Page].lines = PanelLines /\ refresh'[Page].seen = {reading}
    BY <1>2, <1>5 DEF PanelInv, PanelTypeOK, Idle, Threads
  <2> QED
    BY <1>4, <2>1 DEF PanelInv
<1>6. CASE t # Page
  <2>1. refresh'[Page] = refresh[Page] /\ clean' = clean
    BY <1>2, <1>6 DEF PanelInv, PanelTypeOK, Threads
  <2> QED
    BY <1>4, <2>1 DEF PanelInv
<1> QED
  BY <1>5, <1>6

\* A refresh ends by writing what it has read; only the page's is called fresh.
LEMMA Showing ==
  ASSUME PanelInv, NEW t \in Threads, Show(t)
  PROVE  PanelInv'
<1> USE DEF Show
<1>1. PICK read \in refresh[t].seen :
          panel' = [line \in PanelLines |->
                      IF line \in refresh[t].lines THEN LineFor(line, read.flag, read.caches) ELSE panel[line]]
  OBVIOUS
<1>2. read \in Readings /\ read.flag \in BOOLEAN /\ read.caches \in CacheCounts
  BY DEF PanelInv, PanelTypeOK, Readings
<1>3. \A line \in PanelLines : LineFor(line, read.flag, read.caches) \in
          [state : {"ready", "pending", "retrying", "error", "auth_failed"}, count : Nat, ready : Nat]
  BY <1>2, LineType
<1>4. panel' \in [PanelLines -> [state : {"ready", "pending", "retrying", "error", "auth_failed"},
                                 count : Nat, ready : Nat]]
  BY <1>1, <1>3 DEF PanelInv, PanelTypeOK
<1>5. Idle \in [lines : SUBSET PanelLines, seen : SUBSET Readings]
  BY DEF Idle
<1>6. refresh' \in [Threads -> [lines : SUBSET PanelLines, seen : SUBSET Readings]]
  BY <1>5 DEF PanelInv, PanelTypeOK
<1>7. fresh' \in BOOLEAN
  BY DEF PanelInv, PanelTypeOK
<1>8. PanelTypeOK'
  BY <1>4, <1>6, <1>7 DEF PanelInv, PanelTypeOK
<1>9. refresh'[Page] \in {Idle, refresh[Page]}
  BY DEF PanelInv, PanelTypeOK, Threads
<1>10. ASSUME fresh' PROVE panel' = LinesOf(retryFlag, cached)
  <2>1. t = Page /\ clean
    BY <1>10
  <2>2. read = [flag |-> retryFlag, caches |-> cached] /\ refresh[Page].lines = PanelLines
    BY <2>1 DEF PanelInv, Idle
  <2> QED
    BY <1>1, <2>1, <2>2 DEF LinesOf
<1>11. refresh'[Page].seen \subseteq refresh[Page].seen
  BY <1>9 DEF Idle
<1>12. (refresh'[Page] = Idle \/ refresh'[Page].lines = PanelLines)
       /\ (clean' => refresh'[Page].seen \subseteq {[flag |-> retryFlag, caches |-> cached]})
  BY <1>9, <1>11 DEF PanelInv
<1> QED
  BY <1>8, <1>10, <1>12 DEF PanelInv

\* A step that changes the flag or the caches makes no claim of freshness, nor does one
\* that begins an attempt.
LEMMA Changing ==
  ASSUME PanelInv, fresh' = FALSE, clean' = FALSE \/ UNCHANGED <<clean, retryFlag, cached>>,
         retryFlag' \in BOOLEAN, cached' \in CacheCounts, results' \in 0..MaxResults,
         cached'.results <= results', cached'.waiting + cached'.ready <= MaxResults,
         passAt' \in [Passes -> {"idle", "asked", "busy", "closing"}],
         retryFlag' => \E p \in Passes : passAt'[p] = "busy",
         panel' \in [PanelLines -> [state : {"ready", "pending", "retrying", "error", "auth_failed"},
                                    count : Nat, ready : Nat]],
         NEW t \in Threads, NEW lines \in SUBSET PanelLines, t = Page => lines = PanelLines,
         UNCHANGED refresh \/ ThenRefresh(t, lines)
  PROVE  PanelInv'
<1>1. [lines |-> lines, seen |-> {}] \in [lines : SUBSET PanelLines, seen : SUBSET Readings]
  OBVIOUS
<1>2. refresh' \in [Threads -> [lines : SUBSET PanelLines, seen : SUBSET Readings]]
  BY <1>1 DEF ThenRefresh, PanelInv, PanelTypeOK
<1>3. clean' \in BOOLEAN
  BY DEF PanelInv, PanelTypeOK
<1>4. PanelTypeOK'
  BY <1>2, <1>3 DEF PanelTypeOK
<1>5. refresh'[Page] = refresh[Page] \/ refresh'[Page] = [lines |-> PanelLines, seen |-> {}]
  BY DEF ThenRefresh, PanelInv, PanelTypeOK, Threads
<1>6. refresh'[Page] = Idle \/ refresh'[Page].lines = PanelLines
  BY <1>5 DEF PanelInv
<1>7. ASSUME clean' PROVE refresh'[Page].seen \subseteq {[flag |-> retryFlag', caches |-> cached']}
  <2>1. clean /\ retryFlag' = retryFlag /\ cached' = cached
    BY <1>7
  <2>2. refresh[Page].seen \subseteq {[flag |-> retryFlag, caches |-> cached]}
    BY <2>1 DEF PanelInv
  <2> QED
    BY <1>5, <2>1, <2>2
<1> QED
  BY <1>4, <1>6, <1>7 DEF PanelInv

\* Every step preserves the invariant.
LEMMA PanelStep == PanelInv /\ [PanelNext]_panelVars => PanelInv'
<1> SUFFICES ASSUME PanelInv, [PanelNext]_panelVars PROVE PanelInv'
  OBVIOUS
<1>0. /\ retryFlag \in BOOLEAN /\ cached \in CacheCounts /\ results \in 0..MaxResults
      /\ passAt \in [Passes -> {"idle", "asked", "busy", "closing"}]
      /\ cached.results <= results /\ cached.waiting + cached.ready <= MaxResults
      /\ panel \in [PanelLines -> [state : {"ready", "pending", "retrying", "error", "auth_failed"},
                                   count : Nat, ready : Nat]]
      /\ retryFlag => \E p \in Passes : passAt[p] = "busy"
  BY DEF PanelInv, PanelTypeOK
<1>1. CASE UNCHANGED panelVars
  <2>1. LinesOf(retryFlag, cached)' = LinesOf(retryFlag, cached)
    BY <1>1 DEF panelVars
  <2> QED
    BY <1>1, <2>1 DEF panelVars, PanelInv, PanelTypeOK
<1>2. CASE PollStatus
  <2>1. PanelTypeOK'
    BY <1>2 DEF PollStatus, ThenRefresh, PanelInv, PanelTypeOK
  <2>2. refresh'[Page] = [lines |-> PanelLines, seen |-> {}]
    BY <1>2 DEF PollStatus, ThenRefresh, PanelInv, PanelTypeOK, Threads
  <2> QED
    BY <1>2, <2>1, <2>2 DEF PollStatus, PanelInv
<1>3. ASSUME NEW t \in Threads, Look(t) PROVE PanelInv'
  BY <1>3, Looking
<1>4. ASSUME NEW t \in Threads, Show(t) PROVE PanelInv'
  BY <1>4, Showing
<1>5. ASSUME NEW t \in Threads, DeliverResult(t) PROVE PanelInv'
  <2> USE DEF DeliverResult
  <2>1. t # Page /\ {"upload"} \in SUBSET PanelLines
    BY <1>5, PanelAssumption DEF PanelLines
  <2>2. PICK bound \in 0..1 :
          /\ bound <= cached.waiting
          /\ cached' = [results |-> cached.results - 1, waiting |-> cached.waiting - bound,
                        ready |-> cached.ready + bound]
    BY <1>5
  <2>3. cached' \in CacheCounts /\ cached'.results <= results
        /\ cached'.waiting + cached'.ready <= MaxResults
    BY <1>0, <1>5, <2>2, PanelAssumption DEF CacheCounts
  <2> QED
    BY <1>0, <1>5, <2>1, <2>3, Changing DEF Changed
<1>6. ASSUME NEW t \in Threads, DeliverTelemetry(t) PROVE PanelInv'
  <2> USE DEF DeliverTelemetry
  <2>1. t # Page /\ {"telemetry"} \in SUBSET PanelLines
    BY <1>6, PanelAssumption DEF PanelLines
  <2>2. cached' \in CacheCounts /\ cached'.results <= results
        /\ cached'.waiting + cached'.ready <= MaxResults
    BY <1>0, <1>6, PanelAssumption DEF CacheCounts
  <2> QED
    BY <1>0, <1>6, <2>1, <2>2, Changing DEF Changed
<1>7. ASSUME NEW t \in Threads, NEW line \in PanelLines, NEW state \in {"error", "auth_failed"},
             Attempt(t, line, state)
      PROVE  PanelInv'
  <2> USE DEF Attempt
  <2>1. t # Page /\ {line} \in SUBSET PanelLines
    BY <1>7, PanelAssumption
  <2>2. panel' \in [PanelLines -> [state : {"ready", "pending", "retrying", "error", "auth_failed"},
                                   count : Nat, ready : Nat]]
    BY <1>0, <1>7
  <2>3. UNCHANGED refresh \/ ThenRefresh(t, {line})
    BY <1>7
  <2> QED
    BY <1>0, <1>7, <2>1, <2>2, <2>3, Changing
<1>8. ASSUME NEW p \in Passes, AskForPass(p) PROVE PanelInv'
  <2> USE DEF AskForPass
  <2>1. PanelTypeOK'
    BY <1>8 DEF PanelInv, PanelTypeOK
  <2> QED
    BY <1>8, <2>1 DEF PanelInv, LinesOf
<1>9. ASSUME NEW p \in Passes, BeginPass(p) PROVE PanelInv'
  <2> USE DEF BeginPass
  <2>1. p \in Threads /\ p # Page
    BY PanelAssumption DEF Threads
  <2>2. passAt' \in [Passes -> {"idle", "asked", "busy", "closing"}] /\ passAt'[p] = "busy"
    BY <1>0, <1>9
  <2> QED
    BY <1>0, <1>9, <2>1, <2>2, Changing DEF Changed
<1>10. ASSUME NEW p \in Passes, EndPassing(p) PROVE PanelInv'
  <2> USE DEF EndPassing
  <2>1. p \in Threads /\ p # Page
    BY PanelAssumption DEF Threads
  <2>2. passAt' \in [Passes -> {"idle", "asked", "busy", "closing"}]
    BY <1>0, <1>10
  <2> QED
    BY <1>0, <1>10, <2>1, <2>2, Changing DEF Changed
<1>11. ASSUME NEW p \in Passes, PassIsOver(p) PROVE PanelInv'
  <2> USE DEF PassIsOver
  <2>1. PanelTypeOK'
    BY <1>11 DEF PanelInv, PanelTypeOK
  <2>2. \A q \in Passes : passAt[q] = "busy" => passAt'[q] = "busy"
    BY <1>0, <1>11
  <2> QED
    BY <1>11, <2>1, <2>2 DEF PanelInv, LinesOf
<1>12. ASSUME NEW telemetry \in BOOLEAN, CacheResult(telemetry) PROVE PanelInv'
  <2> USE DEF CacheResult
  <2>1. Agent \in Threads /\ Agent # Page /\ {"upload"} \in SUBSET PanelLines
    BY PanelAssumption DEF Threads, PanelLines
  <2>2. results' \in 0..MaxResults
    BY <1>0, <1>12, PanelAssumption
  <2>3. PICK n \in 0..1 :
          /\ cached' = [results |-> cached.results + 1, waiting |-> cached.waiting + n, ready |-> cached.ready]
          /\ cached.waiting + n + cached.ready <= MaxResults
    <3>1. CASE telemetry /\ cached.waiting + cached.ready < MaxResults
      <4>1. cached' = [results |-> cached.results + 1, waiting |-> cached.waiting + 1, ready |-> cached.ready]
        BY <1>0, <1>12, <3>1 DEF CacheCounts
      <4>2. cached.waiting + 1 + cached.ready <= MaxResults
        BY <1>0, <3>1, PanelAssumption DEF CacheCounts
      <4> QED
        BY <4>1, <4>2
    <3>2. CASE ~(telemetry /\ cached.waiting + cached.ready < MaxResults)
      <4>1. cached' = [results |-> cached.results + 1, waiting |-> cached.waiting, ready |-> cached.ready]
        BY <1>0, <1>12, <3>2 DEF CacheCounts
      <4>2. cached.waiting = cached.waiting + 0 /\ cached.waiting + 0 + cached.ready <= MaxResults
        BY <1>0, PanelAssumption DEF CacheCounts
      <4> QED
        BY <4>1, <4>2
    <3> QED
      BY <3>1, <3>2
  <2>4. cached' \in CacheCounts /\ cached'.results <= results'
        /\ cached'.waiting + cached'.ready <= MaxResults
    BY <1>0, <1>12, <2>3, PanelAssumption DEF CacheCounts
  <2> QED
    BY <1>0, <1>12, <2>1, <2>2, <2>4, Changing DEF Changed
<1> QED
  BY <1>1, <1>2, <1>3, <1>4, <1>5, <1>6, <1>7, <1>8, <1>9, <1>10, <1>11, <1>12 DEF PanelNext

\* For any number of passes, the page's reading is true while nothing has changed.
THEOREM PanelInvariant == PanelSpec => []PanelInv
  BY PanelBegins, PanelStep, PTL DEF PanelSpec

\* For any number of passes and results, the first undisturbed poll after the passes
\* tells the page what is still cached, and the flag is down.
THEOREM PanelIsTrue == PanelSpec => []PanelSound
<1>1. PanelInv => PanelSound
  <2> SUFFICES ASSUME PanelInv, \A p \in Passes : passAt[p] \in {"idle", "asked"}
               PROVE  ~retryFlag /\ (fresh => panel = LinesOf(FALSE, cached))
    BY DEF PanelInv, PanelSound, PanelTrue
  <2>1. retryFlag = FALSE
    BY DEF PanelInv, PanelTypeOK
  <2> QED
    BY <2>1 DEF PanelInv
<1> QED
  BY <1>1, PanelInvariant, PTL

-----------------------------------------------------------------------------
(* The launcher. *)

\* An agent that takes no packets any more, and none later, and holds no connection.
Dead(k) == /\ ~Up(k) /\ listener[k] # "binding"
           /\ listener[k] = "listening" => k \in halted
AllDead == \A k \in Launches : Dead(k)

\* A launch nobody has hurried.
Orderly ==
    /\ \A j, k \in Launches : Alive(j) /\ Alive(k) => j = k
    /\ \A k \in Launches : k # instance => Dead(k)
    /\ \A k \in Launches : /\ thread[k] \in {"none", "boot", "retry", "create"} => instance # k
                           /\ thread[k] = "connect" => instance = k
                           /\ thread[k] \in Booting \cup {"none"} =>
                                 listener[k] = "none" /\ ~Up(k) /\ k \notin halted
                           /\ thread[k] \in Booting => running /\ shown # "listening"
                           /\ thread[k] \in {"boot", "retry", "create"} => AllDead
                           /\ thread[k] = "loop" /\ running =>
                                 instance = k /\ k \notin halted /\ listener[k] \in {"binding", "listening"}
                           /\ thread[k] = "leaving" /\ running => AllDead /\ shown # "listening"
                           /\ listener[k] = "binding" => thread[k] = "loop" /\ running
    /\ running => call = "none" /\ \E k \in Launches : Alive(k)
    /\ ~running /\ call # "stopping" => AllDead
    /\ phase = "starting" => \E k \in Launches : thread[k] \in Booting \/ listener[k] = "binding"
    /\ phase = "stopping" => call # "none"
    /\ shown = "listening" => (running /\ instance # NoLaunch) \/ call # "none"

\* The inductive invariant; a hurried launch promises nothing.
LauncherInv == LauncherTypeOK /\ (~hurried => Orderly)

\* Every step keeps the types.
LEMMA LauncherTypeStep == LauncherTypeOK /\ [LauncherNext]_launcherVars => LauncherTypeOK'
<1> SUFFICES ASSUME LauncherTypeOK, [LauncherNext]_launcherVars PROVE LauncherTypeOK'
  OBVIOUS
<1> USE DEF LauncherTypeOK, Phases, Booting
<1>1. ASSUME NEW k \in Launches, Launch(k) PROVE LauncherTypeOK'
  BY <1>1 DEF Launch, BeginRetry, FinishRetry, CreateAgent, Connect, ConnectAgain, LaunchFails, LeaveLoop, EndLaunch, Advance, control, sockets, Shutdown
<1>2. ASSUME NEW k \in Launches, Sockets(k) PROVE LauncherTypeOK'
  BY <1>2 DEF Sockets, Bind, BindFails, CloseListener, PacketFails, Recover, DialRejected, Listening, control, sockets
<1>3. ASSUME NEW k \in Launches, StartAgent(k) PROVE LauncherTypeOK'
  BY <1>3 DEF StartAgent, Advance, sockets
<1>4. CASE StopAgent \/ StopRuntime \/ ForgetAgent \/ StopReturns
  BY <1>4 DEF StopAgent, StopRuntime, ForgetAgent, StopReturns, Shutdown, sockets
<1>5. CASE UNCHANGED launcherVars
  BY <1>5 DEF launcherVars, control, sockets
<1> QED BY <1>1, <1>2, <1>3, <1>4, <1>5 DEF LauncherNext

\* The first state is orderly.
LEMMA LauncherBegins == LauncherInit => LauncherInv
BY NoLaunchAssumption DEF LauncherInit, LauncherInv, LauncherTypeOK, Phases, Orderly, AllDead, Dead, Alive, Up, Booting

\* A step that hurries nobody keeps the order.
LEMMA OrderlyStep ==
  ASSUME LauncherTypeOK, Orderly, ~hurried, ~hurried', LauncherNext
  PROVE  Orderly'
<1> USE NoLaunchAssumption DEF Orderly, LauncherTypeOK, AllDead, Dead, Alive, Up, Booting, Advance, control, sockets, Shutdown, Listening, Reported
<1>1. ASSUME NEW k \in Launches, StartAgent(k) PROVE Orderly'
  BY <1>1 DEF StartAgent
<1>2. ASSUME NEW k \in Launches, BeginRetry(k) PROVE Orderly'
  BY <1>2 DEF BeginRetry
<1>3. ASSUME NEW k \in Launches, FinishRetry(k) PROVE Orderly'
  BY <1>3 DEF FinishRetry
<1>4. ASSUME NEW k \in Launches, CreateAgent(k) PROVE Orderly'
  BY <1>4 DEF CreateAgent
<1>5. ASSUME NEW k \in Launches, Connect(k) PROVE Orderly'
  BY <1>5 DEF Connect
<1>6. ASSUME NEW k \in Launches, ConnectAgain(k) PROVE Orderly'
  BY <1>6 DEF ConnectAgain
<1>7. ASSUME NEW k \in Launches, LaunchFails(k) PROVE Orderly'
  BY <1>7 DEF LaunchFails
<1>8. ASSUME NEW k \in Launches, LeaveLoop(k) PROVE Orderly'
  BY <1>8 DEF LeaveLoop
<1>9. ASSUME NEW k \in Launches, EndLaunch(k) PROVE Orderly'
  BY <1>9 DEF EndLaunch
<1>10. ASSUME NEW k \in Launches, Bind(k) PROVE Orderly'
  BY <1>10 DEF Bind
<1>11. ASSUME NEW k \in Launches, BindFails(k) PROVE Orderly'
  BY <1>11 DEF BindFails
<1>12. ASSUME NEW k \in Launches, CloseListener(k) PROVE Orderly'
  BY <1>12 DEF CloseListener
<1>13. ASSUME NEW k \in Launches, PacketFails(k) PROVE Orderly'
  BY <1>13 DEF PacketFails
<1>14. ASSUME NEW k \in Launches, Recover(k) PROVE Orderly'
  BY <1>14 DEF Recover
<1>15. ASSUME NEW k \in Launches, DialRejected(k) PROVE Orderly'
  BY <1>15 DEF DialRejected
<1>16. CASE StopAgent
  BY <1>16 DEF StopAgent
<1>17. CASE StopRuntime
  BY <1>17 DEF StopRuntime
<1>18. CASE ForgetAgent
  BY <1>18 DEF ForgetAgent
<1>19. CASE StopReturns
  BY <1>19 DEF StopReturns
<1> HIDE DEF Orderly, LauncherTypeOK, AllDead, Dead, Alive, Up, Booting, Advance, control, sockets, Shutdown, Listening, Reported
<1>20. ASSUME NEW k \in Launches, Launch(k) PROVE Orderly'
  BY <1>2, <1>3, <1>4, <1>5, <1>6, <1>7, <1>8, <1>9, <1>20 DEF Launch
<1>21. ASSUME NEW k \in Launches, Sockets(k) PROVE Orderly'
  BY <1>10, <1>11, <1>12, <1>13, <1>14, <1>15, <1>21 DEF Sockets
<1> QED BY <1>1, <1>16, <1>17, <1>18, <1>19, <1>20, <1>21 DEF LauncherNext

\* Once hurried, always hurried.
LEMMA HurriedStays == LauncherTypeOK /\ [LauncherNext]_launcherVars /\ hurried => hurried'
<1> SUFFICES ASSUME LauncherTypeOK, [LauncherNext]_launcherVars, hurried PROVE hurried'
  OBVIOUS
<1> USE DEF LauncherTypeOK, control, sockets, Advance, Shutdown, Listening
<1>1. ASSUME NEW k \in Launches, Launch(k) PROVE hurried'
  BY <1>1 DEF Launch, BeginRetry, FinishRetry, CreateAgent, Connect, ConnectAgain, LaunchFails, LeaveLoop, EndLaunch
<1>2. ASSUME NEW k \in Launches, Sockets(k) PROVE hurried'
  BY <1>2 DEF Sockets, Bind, BindFails, CloseListener, PacketFails, Recover, DialRejected
<1>3. ASSUME NEW k \in Launches, StartAgent(k) PROVE hurried'
  BY <1>3 DEF StartAgent
<1>4. CASE StopAgent \/ StopRuntime \/ ForgetAgent \/ StopReturns
  BY <1>4 DEF StopAgent, StopRuntime, ForgetAgent, StopReturns
<1>5. CASE UNCHANGED launcherVars
  BY <1>5 DEF launcherVars
<1> QED BY <1>1, <1>2, <1>3, <1>4, <1>5 DEF LauncherNext

\* Every step keeps the invariant.
LEMMA LauncherStep == LauncherInv /\ [LauncherNext]_launcherVars => LauncherInv'
<1> SUFFICES ASSUME LauncherInv, [LauncherNext]_launcherVars PROVE LauncherInv'
  OBVIOUS
<1>1. LauncherTypeOK /\ LauncherTypeOK'
  BY LauncherTypeStep DEF LauncherInv
<1>2. ASSUME ~hurried' PROVE Orderly'
  <2>1. ~hurried /\ Orderly
    BY <1>1, <1>2, HurriedStays DEF LauncherInv
  <2>2. CASE LauncherNext
    BY <1>1, <1>2, <2>1, <2>2, OrderlyStep
  <2>3. CASE UNCHANGED launcherVars
    BY <2>1, <2>3 DEF launcherVars, control, sockets, Orderly, AllDead, Dead, Alive, Up
  <2> QED BY <2>2, <2>3
<1> QED BY <1>1, <1>2 DEF LauncherInv

\* The inductive invariant of the launcher (agent/launcher.py).
THEOREM LauncherInvariant == LauncherSpec => []LauncherInv
BY LauncherBegins, LauncherStep, PTL DEF LauncherSpec

\* For any number of launches: if nobody stopped or started the agent in the middle of a launch, then whenever
\* nothing is under way the status is true in both directions, and only the agent the launcher holds is at work.
THEOREM LauncherTellsTheTruth == LauncherSpec => []LauncherSound
<1>1. LauncherInv => LauncherSound
  <2> SUFFICES ASSUME LauncherInv, ~hurried, Settled PROVE LauncherTrue
    BY DEF LauncherInv, LauncherSound, LauncherTrue
  <2>1. LauncherTypeOK /\ Orderly
    BY DEF LauncherInv
  <2>2. \A k \in Launches : Works(k) => k = instance
    BY <2>1 DEF Orderly, Dead, Works, Settled, LauncherTypeOK
  <2>3. Reported <=> (instance # NoLaunch /\ listener[instance] = "listening")
    BY <2>1, NoLaunchAssumption DEF Orderly, AllDead, Dead, Reported, Settled, LauncherTypeOK, Alive, Booting, Up
  <2>4. shown = "listening" => Reported
    BY <2>1, NoLaunchAssumption DEF Orderly, Reported, Settled, LauncherTypeOK, Alive, Booting
  <2> QED BY <2>2, <2>3, <2>4 DEF LauncherTrue
<1> QED BY <1>1, LauncherInvariant, PTL

-----------------------------------------------------------------------------
(* The capture of laps. *)

\* How long a lap took.
Ms(k) == LapMs[k[1]][k[2]]

\* What the buffer holds is true, and is all that was told.
BufferTrue ==
    /\ \A k \in LapKeys : <<k, "lap">> \in told <=> k \in DOMAIN lapTimes
    /\ \A k \in DOMAIN lapTimes : lapTimes[k] = Ms(k)
    /\ \A k \in LapKeys : <<k, "history">> \in told <=>
          k[1] \in DOMAIN histories /\ k[2] \in DOMAIN histories[k[1]] /\ histories[k[1]][k[2]].ms # 0

\* Times of histories are those of the laps.
TrueHistories(hist) ==
    /\ DOMAIN hist \subseteq CaptureCars
    /\ \A v \in DOMAIN hist : \A l \in DOMAIN hist[v] :
          l \in LapsOf(v) /\ hist[v][l].ms \in {0, LapMs[v][l]}

\* So is what a snapshot has kept of it.
SnapshotTrue ==
    /\ TrueHistories(snapshot.histories)
    /\ DOMAIN snapshot.laps \subseteq CaptureCars \X Nat
    /\ SnapshotExact
    /\ known.told \subseteq LapKeys \X {"lap", "history"}

\* The session under way is the last, and of the car of the snapshot.
SyncTrue ==
    /\ DOMAIN sessions = 1..Mine /\ Mine \in Nat
    /\ syncAt # "none" => CarsOf(snapshot) # {}
    /\ syncAt \in {"laps", "end"} =>
          /\ Mine > 0 /\ sessions[Mine].car = SelectVehicle(snapshot) /\ BuildLaps(snapshot) # {}
    /\ syncAt = "laps" => ~sessions[Mine].ended
    /\ syncAt = "end" => sessions[Mine].laps # {}

\* The inductive invariant.
CaptureInv ==
    /\ CaptureTypeOK /\ TrueHistories(histories) /\ BufferTrue /\ SnapshotTrue /\ SyncTrue /\ PracticeExact
    /\ \A i \in DOMAIN sessions : IsFiniteSet(sessions[i].laps)

\* A lap's key is a car and one of its laps, which took some time.
LEMMA LapKey ==
  /\ \A k \in LapKeys : /\ k = <<k[1], k[2]>> /\ k[1] \in CaptureCars /\ k[2] \in LapsOf(k[1])
                        /\ k[2] \in Nat /\ k[2] # 0 /\ Ms(k) \in Nat \ {0}
  /\ \A v \in CaptureCars : \A l \in LapsOf(v) : <<v, l>> \in LapKeys /\ LapMs[v][l] \in Nat \ {0}
BY CaptureAssumption DEF LapKeys, LapsOf, Ms

\* Before the first race there is nothing.
LEMMA CaptureBegins == CaptureInit => CaptureInv
<1> SUFFICES ASSUME CaptureInit PROVE CaptureInv
  OBVIOUS
<1> USE DEF CaptureInit
<1>1. CaptureTypeOK
  <2>1. \A v \in CaptureCars : latestLap[v] \in 0..LapCount[v] + 1
    BY CaptureAssumption
  <2>2. DOMAIN lapTimes = {} /\ DOMAIN histories = {} /\ captured \in 0..MaxRaces
    BY CaptureAssumption
  <2> QED BY <2>1, <2>2 DEF CaptureTypeOK
<1>2. TrueHistories(histories) /\ BufferTrue
  BY DEF TrueHistories, BufferTrue
<1>3. SnapshotTrue
  BY DEF SnapshotTrue, NoRace, TrueHistories, SnapshotExact
<1>4. DOMAIN sessions = {} /\ Mine = 0
  BY FS_EmptySet DEF Mine
<1>5. SyncTrue /\ PracticeExact
  BY <1>4 DEF SyncTrue, PracticeExact
<1> QED BY <1>1, <1>2, <1>3, <1>4, <1>5 DEF CaptureInv

-----------------------------------------------------------------------------
(* The buffer. *)

\* Lap data tells the time of the lap before, a lap of that car.
LEMMA HearingLap ==
  ASSUME CaptureInv, NEW v \in CaptureCars, NEW ms, UpdateLap(v, ms)
  PROVE  CaptureTypeOK' /\ BufferTrue'
<1>1. PICK lap \in (latestLap[v]..latestLap[v] + 1) \cap (1..LapCount[v] + 1) :
          /\ ms \in {0} \cup {LapMs[v][l] : l \in {lap - 1} \cap LapsOf(v)}
          /\ latestLap' = [latestLap EXCEPT ![v] = lap]
          /\ lapTimes' = TimeOfLast(v, lap, ms)
          /\ told' = IF ms = 0 THEN told ELSE told \cup {<<<<v, lap - 1>>, "lap">>}
  BY DEF UpdateLap
<1>2. UNCHANGED <<capturing, placed, taken, histories, snapshot, syncAt, sessions, captured, known>>
  BY DEF UpdateLap
<1>3. LapCount[v] \in Nat /\ lap \in 1..LapCount[v] + 1 /\ lap \in Nat
  BY CaptureAssumption
<1>4. CASE ms = 0
  <2>1. UNCHANGED <<lapTimes, told>>
    BY <1>1, <1>4 DEF TimeOfLast
  <2> QED BY <1>1, <1>2, <1>3, <2>1 DEF CaptureInv, CaptureTypeOK, BufferTrue
<1>5. CASE ms # 0
  <2> DEFINE key == <<v, lap - 1>>
  <2>1. ms \in Nat /\ key \in LapKeys /\ ms = Ms(key) /\ lap # 1
    <3>1. PICK l \in {lap - 1} \cap LapsOf(v) : ms = LapMs[v][l]
      BY <1>1, <1>5
    <3>2. l = lap - 1 /\ <<v, l>> \in LapKeys /\ l # 0
      BY <3>1, LapKey
    <3> QED BY <1>3, <3>1, <3>2, LapKey DEF Ms
  <2>2. lapTimes' = [k \in DOMAIN lapTimes \cup {key} |-> IF k = key THEN ms ELSE lapTimes[k]]
    BY <1>1, <1>5, <2>1 DEF TimeOfLast
  <2>3. told' = told \cup {<<key, "lap">>}
    BY <1>1, <1>5
  <2> HIDE DEF key
  <2>4. BufferTrue'
    BY <1>2, <2>1, <2>2, <2>3 DEF CaptureInv, BufferTrue
  <2>5. CaptureTypeOK'
    BY <1>1, <1>2, <1>3, <2>1, <2>2, <2>3 DEF CaptureInv, CaptureTypeOK
  <2> QED BY <2>4, <2>5
<1> QED BY <1>4, <1>5

\* A car's history before a packet, and after one.
Past(v) == IF v \in DOMAIN histories THEN histories[v] ELSE <<>>

Now(v, n, gaps) == MergeHistory(Past(v), HistoryOf(v, n, gaps))

\* The history of a car after a packet: what is known of it stays, what is new is true.
\* A lap has a time when it had one or the packet tells it.
TimesMerged(v, n, gaps) ==
    \A l \in DOMAIN Now(v, n, gaps) :
        Now(v, n, gaps)[l].ms # 0 <=> ((l \in DOMAIN Past(v) /\ Past(v)[l].ms # 0) \/ l \in (1..n) \ gaps)

\* A session-history packet adds laps of its car and their own times only.
LEMMA MergedHistory ==
  ASSUME CaptureInv, NEW v \in CaptureCars, NEW n \in LapsOf(v),
         NEW gaps \in {{}, {n}}
  PROVE  /\ DOMAIN Now(v, n, gaps) = DOMAIN Past(v) \cup 1..n /\ 1..n \subseteq LapsOf(v)
         /\ \A l \in DOMAIN Now(v, n, gaps) :
               l \in LapsOf(v) /\ Now(v, n, gaps)[l].ms \in {0, LapMs[v][l]}
         /\ TimesMerged(v, n, gaps)
<1> DEFINE old == Past(v)
           new == HistoryOf(v, n, gaps)
           now == MergeHistory(old, new)
<1>0. \A l \in DOMAIN old : l \in LapsOf(v) /\ old[l].ms \in {0, LapMs[v][l]}
  <2>1. CASE v \in DOMAIN histories
    BY <2>1 DEF Past, CaptureInv, TrueHistories
  <2>2. CASE v \notin DOMAIN histories
    BY <2>2 DEF Past
  <2> QED BY <2>1, <2>2
<1>1. DOMAIN new = 1..n /\ \A l \in 1..n : new[l].ms = IF l \in gaps THEN 0 ELSE LapMs[v][l]
  BY DEF HistoryOf
<1>2. 1..n \subseteq LapsOf(v)
  BY CaptureAssumption DEF LapsOf
<1>3. DOMAIN now = DOMAIN old \cup DOMAIN new
  BY DEF MergeHistory
<1>4. ASSUME NEW l \in DOMAIN now
      PROVE  now[l].ms = IF l \notin 1..n THEN old[l].ms
                         ELSE IF new[l].ms = 0 /\ l \in DOMAIN old THEN old[l].ms ELSE new[l].ms
  <2>1. CASE l \notin 1..n
    BY <1>1, <1>3, <1>4, <2>1 DEF MergeHistory
  <2>2. CASE l \in 1..n
    <3>1. new[l] = [ms |-> IF l \in gaps THEN 0 ELSE LapMs[v][l], valid |-> <<v, l>> \notin Spoilt]
      BY <2>2 DEF HistoryOf
    <3>2. now[l] = IF new[l].ms = 0 /\ l \in DOMAIN old THEN [new[l] EXCEPT !.ms = old[l].ms] ELSE new[l]
      BY <1>1, <1>3, <2>2 DEF MergeHistory
    <3> QED BY <2>2, <3>1, <3>2
  <2> QED BY <2>1, <2>2
<1>5. \A l \in LapsOf(v) : LapMs[v][l] \in Nat \ {0}
  BY LapKey
<1> HIDE DEF old, new, now
<1>6. ASSUME NEW l \in DOMAIN now
      PROVE  /\ l \in LapsOf(v) /\ now[l].ms \in {0, LapMs[v][l]}
             /\ now[l].ms # 0 <=> (l \in DOMAIN old /\ old[l].ms # 0) \/ l \in (1..n) \ gaps
  BY <1>0, <1>1, <1>2, <1>3, <1>4, <1>5, <1>6
<1>7. now = Now(v, n, gaps) /\ old = Past(v)
  BY DEF old, new, now, Now
<1>8. TimesMerged(v, n, gaps)
  BY <1>6, <1>7 DEF TimesMerged
<1> QED BY <1>1, <1>2, <1>3, <1>6, <1>7, <1>8

\* A history tells the times of its laps, all but that of the lap under way.
LEMMA HearingHistory ==
  ASSUME CaptureInv, NEW v \in CaptureCars, NEW n \in LapsOf(v), NEW gaps \in {{}, {n}}, UpdateHistory(v, n, gaps)
  PROVE  CaptureTypeOK' /\ BufferTrue' /\ TrueHistories(histories)'
<1> DEFINE old == Past(v)
           now == Now(v, n, gaps)
<1> USE DEF Past, Now
<1>1. /\ histories' = [c \in DOMAIN histories \cup {v} |-> IF c = v THEN now ELSE histories[c]]
      /\ told' = told \cup {<<<<v, l>>, "history">> : l \in (1..n) \ gaps}
      /\ UNCHANGED <<capturing, latestLap, placed, taken, lapTimes, snapshot, syncAt, sessions, captured, known>>
  BY DEF UpdateHistory
<1>3. \A l \in DOMAIN old : v \in DOMAIN histories /\ old[l] = histories[v][l]
  OBVIOUS
<1>4. v \in DOMAIN histories => DOMAIN old = DOMAIN histories[v]
  OBVIOUS
<1> HIDE DEF Past, Now
<1>5. /\ DOMAIN now = DOMAIN old \cup 1..n /\ 1..n \subseteq LapsOf(v)
      /\ \A l \in DOMAIN now : /\ l \in LapsOf(v) /\ now[l].ms \in {0, LapMs[v][l]}
                               /\ now[l].ms # 0 <=> (l \in DOMAIN old /\ old[l].ms # 0) \/ l \in (1..n) \ gaps
  <2>1. DOMAIN now = DOMAIN old \cup 1..n
    BY MergedHistory
  <2>2. 1..n \subseteq LapsOf(v)
    BY MergedHistory
  <2>3. \A l \in DOMAIN now : l \in LapsOf(v) /\ now[l].ms \in {0, LapMs[v][l]}
    BY MergedHistory
  <2>4. ASSUME NEW l \in DOMAIN now
        PROVE  now[l].ms # 0 <=> ((l \in DOMAIN old /\ old[l].ms # 0) \/ l \in (1..n) \ gaps)
    <3> HIDE DEF old, now
    <3>1. TimesMerged(v, n, gaps)
      BY MergedHistory
    <3>2. now = Now(v, n, gaps) /\ old = Past(v)
      BY DEF now, old
    <3> QED BY <3>1, <3>2 DEF TimesMerged
  <2> QED BY <2>1, <2>2, <2>3, <2>4
<1> HIDE DEF old, now
<1>6. TrueHistories(histories')
  BY <1>1, <1>5 DEF CaptureInv, TrueHistories
<1>7. \A l \in 1..n : <<v, l>> \in LapKeys /\ LapMs[v][l] \in Nat
  BY <1>5, LapKey
<1>8. ASSUME NEW k \in LapKeys
      PROVE  <<k, "history">> \in told' <=>
                k[1] \in DOMAIN histories' /\ k[2] \in DOMAIN histories'[k[1]] /\ histories'[k[1]][k[2]].ms # 0
  <2>1. <<k, "history">> \in told <=>
           k[1] \in DOMAIN histories /\ k[2] \in DOMAIN histories[k[1]] /\ histories[k[1]][k[2]].ms # 0
    BY DEF CaptureInv, BufferTrue
  <2>2. <<k, "history">> \in told' <=> <<k, "history">> \in told \/ (k[1] = v /\ k[2] \in (1..n) \ gaps)
    BY <1>1, LapKey
  <2>3. CASE k[1] = v
    <3>1. histories'[k[1]] = now /\ k[1] \in DOMAIN histories'
      BY <1>1, <2>3
    <3>2. <<k, "history">> \in told <=> k[2] \in DOMAIN old /\ old[k[2]].ms # 0
      BY <1>3, <1>4, <2>1, <2>3
    <3> QED BY <1>5, <2>2, <2>3, <3>1, <3>2
  <2>4. CASE k[1] # v
    BY <1>1, <2>1, <2>2, <2>4
  <2> QED BY <2>3, <2>4
<1>9. \A k \in LapKeys : <<k, "lap">> \in told' <=> <<k, "lap">> \in told
  BY <1>1
<1>10. BufferTrue'
  BY <1>1, <1>8, <1>9 DEF CaptureInv, BufferTrue
<1>11. CaptureTypeOK'
  <2>1. told' \subseteq LapKeys \X {"lap", "history"}
    BY <1>1, <1>7 DEF CaptureInv, CaptureTypeOK
  <2>2. DOMAIN histories' \subseteq CaptureCars
    BY <1>6 DEF TrueHistories
  <2>3. \A c \in DOMAIN histories' : \A l \in DOMAIN histories'[c] : l \in LapsOf(c) /\ histories'[c][l].ms \in Nat
    <3> SUFFICES ASSUME NEW c \in DOMAIN histories', NEW l \in DOMAIN histories'[c]
                 PROVE  l \in LapsOf(c) /\ histories'[c][l].ms \in Nat
      OBVIOUS
    <3>1. c \in CaptureCars /\ l \in LapsOf(c) /\ histories'[c][l].ms \in {0, LapMs[c][l]}
      BY <1>6 DEF TrueHistories
    <3>2. LapMs[c][l] \in Nat
      BY <3>1, LapKey
    <3> QED BY <3>1, <3>2
  <2> QED BY <1>1, <2>1, <2>2, <2>3 DEF CaptureInv, CaptureTypeOK
<1> QED BY <1>6, <1>10, <1>11


-----------------------------------------------------------------------------
(* The rest of the buffer's actions, and the end of a race. *)

\* While a race runs the snapshot and the sessions stay.
LEMMA OnlyTheBuffer ==
  ASSUME CaptureInv, UNCHANGED <<snapshot, syncAt, sessions, known>>,
         CaptureTypeOK', TrueHistories(histories)', BufferTrue'
  PROVE  CaptureInv'
<1>1. SnapshotTrue'
  BY DEF CaptureInv, SnapshotTrue, TrueHistories, SnapshotExact
<1>2. SyncTrue'
  BY DEF CaptureInv, SyncTrue, Mine
<1>3. PracticeExact' /\ \A i \in DOMAIN sessions' : IsFiniteSet(sessions'[i].laps)
  BY DEF CaptureInv, PracticeExact
<1> QED BY <1>1, <1>2, <1>3 DEF CaptureInv

\* An empty buffer has been told nothing.
LEMMA Cleared ==
  ASSUME CaptureInv, ClearBuffer
  PROVE  /\ TrueHistories(histories)' /\ BufferTrue'
         /\ capturing' \in BOOLEAN /\ syncAt' \in {"none", "create", "laps", "end"} /\ captured' \in 0..MaxRaces => CaptureTypeOK'
<1>1. TrueHistories(histories)' /\ BufferTrue'
  BY DEF ClearBuffer, TrueHistories, BufferTrue
<1>2. \A v \in CaptureCars : latestLap'[v] \in 0..LapCount[v] + 1
  BY CaptureAssumption DEF ClearBuffer
<1>3. DOMAIN latestLap' = CaptureCars /\ DOMAIN lapTimes' = {} /\ DOMAIN histories' = {}
  BY DEF ClearBuffer
<1>4. placed' = {} /\ taken' = {} /\ told' = {}
  BY DEF ClearBuffer
<1> QED BY <1>1, <1>2, <1>3, <1>4 DEF CaptureTypeOK

\* Beginning and dropping a race, positions and samples.
LEMMA BufferSteps ==
  ASSUME CaptureInv,
         \/ StartCollecting \/ SampleCars \/ DropRace
         \/ \E v \in CaptureCars : UpdateMotion(v)
  PROVE  CaptureInv'
<1>1. CASE StartCollecting
  <2>1. captured' \in 0..MaxRaces /\ capturing' \in BOOLEAN /\ syncAt' \in {"none", "create", "laps", "end"}
    BY <1>1, CaptureAssumption DEF StartCollecting, CaptureInv, CaptureTypeOK
  <2> QED BY <1>1, <2>1, Cleared, OnlyTheBuffer DEF StartCollecting
<1>2. CASE DropRace
  <2>1. captured' \in 0..MaxRaces /\ capturing' \in BOOLEAN /\ syncAt' \in {"none", "create", "laps", "end"}
    BY <1>2 DEF DropRace, CaptureInv, CaptureTypeOK
  <2> QED BY <1>2, <2>1, Cleared, OnlyTheBuffer DEF DropRace
<1>3. CASE SampleCars
  <2>1. TrueHistories(histories)' /\ BufferTrue'
    BY <1>3 DEF SampleCars, CaptureInv, TrueHistories, BufferTrue
  <2>2. taken' \subseteq CaptureCars \X Nat
    BY <1>3, CaptureAssumption DEF SampleCars, CaptureInv, CaptureTypeOK
  <2>3. CaptureTypeOK'
    BY <1>3, <2>2 DEF SampleCars, CaptureInv, CaptureTypeOK
  <2> QED BY <1>3, <2>1, <2>3, OnlyTheBuffer DEF SampleCars
<1>4. ASSUME NEW v \in CaptureCars, UpdateMotion(v) PROVE CaptureInv'
  <2>1. TrueHistories(histories)' /\ BufferTrue'
    BY <1>4 DEF UpdateMotion, CaptureInv, TrueHistories, BufferTrue
  <2>2. CaptureTypeOK'
    BY <1>4 DEF UpdateMotion, CaptureInv, CaptureTypeOK
  <2> QED BY <1>4, <2>1, <2>2, OnlyTheBuffer DEF UpdateMotion
<1> QED BY <1>1, <1>2, <1>3, <1>4

\* Lap data and histories.
LEMMA HearingSteps ==
  ASSUME CaptureInv, NEW v \in CaptureCars,
         \/ \E ms \in {0} \cup {LapMs[v][l] : l \in LapsOf(v)} : UpdateLap(v, ms)
         \/ \E n \in LapsOf(v) : \E gaps \in {{}, {n}} : UpdateHistory(v, n, gaps)
  PROVE  CaptureInv'
<1>1. ASSUME NEW ms, UpdateLap(v, ms) PROVE CaptureInv'
  <2>1. CaptureTypeOK' /\ BufferTrue'
    BY <1>1, HearingLap
  <2>2. UNCHANGED <<histories, snapshot, syncAt, sessions, known>>
    BY <1>1 DEF UpdateLap
  <2>3. TrueHistories(histories)'
    BY <2>2 DEF CaptureInv, TrueHistories
  <2> QED BY <2>1, <2>2, <2>3, OnlyTheBuffer
<1>2. ASSUME NEW n \in LapsOf(v), NEW gaps \in {{}, {n}}, UpdateHistory(v, n, gaps) PROVE CaptureInv'
  <2>1. CaptureTypeOK' /\ BufferTrue' /\ TrueHistories(histories)'
    BY <1>2, HearingHistory
  <2>2. UNCHANGED <<snapshot, syncAt, sessions, known>>
    BY <1>2 DEF UpdateHistory
  <2> QED BY <2>1, <2>2, OnlyTheBuffer
<1> QED BY <1>1, <1>2

\* A lap gets its time when any packet told it.
LEMMA FinalTimes ==
  ASSUME CaptureInv, NEW k \in taken
  PROVE  FinalTime(k) = IF \E source \in {"lap", "history"} : <<k, source>> \in told THEN LapMs[k[1]][k[2]] ELSE 0
<1>1. k = <<k[1], k[2]>> /\ k[1] \in CaptureCars
  BY DEF CaptureInv, CaptureTypeOK
<1>2. CASE k \in LapKeys
  <2>1. <<k, "lap">> \in told <=> k \in DOMAIN lapTimes
    BY <1>2 DEF CaptureInv, BufferTrue
  <2>2. <<k, "history">> \in told <=>
          k[1] \in DOMAIN histories /\ k[2] \in DOMAIN histories[k[1]] /\ histories[k[1]][k[2]].ms # 0
    BY <1>2 DEF CaptureInv, BufferTrue
  <2>3. CASE k \in DOMAIN lapTimes
    BY <2>1, <2>3 DEF FinalTime, CaptureInv, BufferTrue, Ms
  <2>4. CASE k \notin DOMAIN lapTimes /\ k[1] \in DOMAIN histories /\ k[2] \in DOMAIN histories[k[1]]
    <3>1. histories[k[1]][k[2]].ms \in {0, LapMs[k[1]][k[2]]}
      BY <2>4 DEF CaptureInv, TrueHistories
    <3>2. FinalTime(k) = histories[k[1]][k[2]].ms
      BY <2>4 DEF FinalTime, HistoryTime
    <3> QED BY <2>1, <2>2, <2>4, <3>1, <3>2
  <2>5. CASE k \notin DOMAIN lapTimes /\ ~(k[1] \in DOMAIN histories /\ k[2] \in DOMAIN histories[k[1]])
    BY <2>1, <2>2, <2>5 DEF FinalTime, HistoryTime
  <2> QED BY <2>3, <2>4, <2>5
<1>3. CASE k \notin LapKeys
  <2>1. k \notin DOMAIN lapTimes /\ \A source \in {"lap", "history"} : <<k, source>> \notin told
    BY <1>3 DEF CaptureInv, CaptureTypeOK
  <2>2. ~(k[1] \in DOMAIN histories /\ k[2] \in DOMAIN histories[k[1]])
    BY <1>1, <1>3, LapKey DEF CaptureInv, TrueHistories
  <2> QED BY <2>1, <2>2 DEF FinalTime, HistoryTime
<1> QED BY <1>2, <1>3

\* The snapshot has every lap that was sampled, with its time.
LEMMA RaceEnds == CaptureInv /\ FinishRace => CaptureInv'
<1> SUFFICES ASSUME CaptureInv, FinishRace PROVE CaptureInv'
  OBVIOUS
<1>1. TrueHistories(histories)' /\ BufferTrue' /\ CaptureTypeOK'
  <2>1. captured' \in 0..MaxRaces /\ capturing' \in BOOLEAN /\ syncAt' \in {"none", "create", "laps", "end"}
    BY DEF FinishRace, CaptureInv, CaptureTypeOK
  <2> QED BY <2>1, Cleared DEF FinishRace
<1>2. /\ snapshot' = [laps |-> [k \in taken |-> FinalTime(k)], histories |-> histories]
      /\ known' = [taken |-> taken, told |-> told]
      /\ sessions' = sessions
  BY DEF FinishRace, Finalized
<1>3. SnapshotTrue'
  <2>1. TrueHistories(snapshot'.histories)
    BY <1>2 DEF CaptureInv, TrueHistories
  <2>2. DOMAIN snapshot'.laps = taken /\ taken \subseteq CaptureCars \X Nat
    BY <1>2 DEF CaptureInv, CaptureTypeOK
  <2>3. known'.told = told /\ known'.taken = taken /\ told \subseteq LapKeys \X {"lap", "history"}
    BY <1>2 DEF CaptureInv, CaptureTypeOK
  <2>4. SnapshotExact'
    <3>1. \A k \in taken : snapshot'.laps[k] = FinalTime(k)
      BY <1>2
    <3>2. \A k \in taken : snapshot'.laps[k] = IF \E source \in {"lap", "history"} : <<k, source>> \in told
                                              THEN LapMs[k[1]][k[2]] ELSE 0
      BY <3>1, FinalTimes
    <3> QED BY <2>2, <2>3, <3>2 DEF SnapshotExact
  <2> QED BY <2>1, <2>2, <2>3, <2>4 DEF SnapshotTrue, TrueHistories
<1>4. SyncTrue'
  <2>1. syncAt' = "none" \/ (syncAt' = "create" /\ HasData(snapshot'))
    BY DEF FinishRace
  <2>2. HasData(snapshot') => CarsOf(snapshot') # {}
    BY DEF HasData, CarsOf
  <2> QED BY <1>2, <2>1, <2>2 DEF CaptureInv, SyncTrue, Mine
<1>5. PracticeExact' /\ \A i \in DOMAIN sessions' : IsFiniteSet(sessions'[i].laps)
  BY <1>2 DEF CaptureInv, PracticeExact
<1> QED BY <1>1, <1>3, <1>4, <1>5 DEF CaptureInv

-----------------------------------------------------------------------------
(* The laps of a session. *)

\* A set of naturals that is not empty has a least element.
LEMMA Least ==
  ASSUME NEW S \in SUBSET Nat, S # {}
  PROVE  \E x \in S : \A y \in S : x <= y
<1>1. PICK x \in S : \A y \in S : <<y, x>> \notin OpToRel(<, Nat)
  BY WFMin, NatLessThanWellFounded
<1>2. ASSUME NEW y \in S, ~(x <= y) PROVE FALSE
  <2>1. <<y, x>> \in OpToRel(<, Nat)
    BY <1>2 DEF OpToRel
  <2> QED BY <1>1, <2>1
<1> QED BY <1>2

\* The car of a session is one of those that have data.
LEMMA Selected ==
  ASSUME SnapshotTrue, CarsOf(snapshot) # {}
  PROVE  SelectVehicle(snapshot) \in CaptureCars
<1>1. CarsOf(snapshot) \in SUBSET Nat /\ CarsOf(snapshot) \subseteq CaptureCars
  BY CaptureAssumption DEF CarsOf, SnapshotTrue, TrueHistories
<1>2. PICK x \in CarsOf(snapshot) : \A y \in CarsOf(snapshot) : x <= y
  BY <1>1, Least
<1>3. \E v \in CarsOf(snapshot) : (0 \in CarsOf(snapshot) => v = 0) /\ \A c \in CarsOf(snapshot) : v <= c
  BY <1>1, <1>2
<1> QED BY <1>1, <1>3 DEF SelectVehicle

\* A car drives finitely many laps.
LEMMA LapsFinite == \A v \in CaptureCars : IsFiniteSet(LapsOf(v))
<1> SUFFICES ASSUME NEW v \in CaptureCars PROVE IsFiniteSet(LapsOf(v))
  OBVIOUS
<1>1. LapCount[v] \in Int
  BY CaptureAssumption
<1> QED BY <1>1, FS_Interval DEF LapsOf

\* Every lap that is sent is one of the car's laps, once and as long as it took.
LEMMA LapsBuilt ==
  ASSUME SnapshotTrue, CarsOf(snapshot) # {}
  PROVE  /\ \A r \in BuildLaps(snapshot) :
               /\ r.lap \in LapsOf(SelectVehicle(snapshot))
               /\ r.ms = LapMs[SelectVehicle(snapshot)][r.lap]
               /\ r.ms \in Nat \ {0}
         /\ \A r, q \in BuildLaps(snapshot) : r.lap = q.lap => r = q
         /\ IsFiniteSet(BuildLaps(snapshot))
<1> DEFINE v      == SelectVehicle(snapshot)
           past   == IF v \in DOMAIN snapshot.histories THEN snapshot.histories[v] ELSE <<>>
           own(l) == IF <<v, l>> \in DOMAIN snapshot.laps THEN snapshot.laps[<<v, l>>] ELSE 0
           ms(l)  == IF l \in DOMAIN past /\ past[l].ms > 0 THEN past[l].ms ELSE own(l)
           row(l) == [lap |-> l, ms |-> ms(l), valid |-> l \in DOMAIN past => past[l].valid]
           some   == {n \in LapsOf(v) : ms(n) > 0}
<1>1. v \in CaptureCars
  BY Selected
<1>2. BuildLaps(snapshot) = {row(l) : l \in some}
  BY DEF BuildLaps
<1>3. \A l \in LapsOf(v) : ms(l) \in {0, LapMs[v][l]} /\ LapMs[v][l] \in Nat \ {0}
  <2> SUFFICES ASSUME NEW l \in LapsOf(v) PROVE ms(l) \in {0, LapMs[v][l]} /\ LapMs[v][l] \in Nat \ {0}
    OBVIOUS
  <2>1. LapMs[v][l] \in Nat \ {0} /\ <<v, l>> \in LapKeys
    BY <1>1, LapKey
  <2>2. l \in DOMAIN past => past[l].ms \in {0, LapMs[v][l]}
    BY DEF SnapshotTrue, TrueHistories
  <2>3. <<v, l>> \in DOMAIN snapshot.laps => snapshot.laps[<<v, l>>] \in {0, LapMs[<<v, l>>[1]][<<v, l>>[2]]}
    BY DEF SnapshotTrue, SnapshotExact
  <2>4. own(l) \in {0, LapMs[v][l]}
    BY <2>3
  <2> HIDE DEF past, own
  <2> QED BY <2>1, <2>2, <2>4
<1>4. \A l \in some : l \in LapsOf(v) /\ ms(l) = LapMs[v][l] /\ ms(l) \in Nat \ {0}
  <2> HIDE DEF ms
  <2> QED BY <1>3
<1>5. \A l \in some : row(l).lap = l /\ row(l).ms = ms(l)
  OBVIOUS
<1>6. IsFiniteSet(BuildLaps(snapshot))
  <2>1. IsFiniteSet(LapsOf(v))
    BY <1>1, LapsFinite
  <2>2. IsFiniteSet(some)
    BY <2>1, FS_Subset
  <2> HIDE DEF row, some
  <2>4. [l \in some |-> row(l)] \in Surjection(some, BuildLaps(snapshot))
    BY <1>2 DEF Surjection
  <2> QED BY <2>2, <2>4, FS_Surjection
<1> HIDE DEF v, row, some, ms
<1>7. ASSUME NEW r \in BuildLaps(snapshot)
      PROVE  /\ r.lap \in some /\ r = row(r.lap)
             /\ r.lap \in LapsOf(v) /\ r.ms = LapMs[v][r.lap] /\ r.ms \in Nat \ {0}
  BY <1>2, <1>4, <1>5
<1> QED BY <1>6, <1>7 DEF v

-----------------------------------------------------------------------------
(* The three requests. *)

\* The number of sessions is the last one's.
LEMMA OneMoreSession ==
  ASSUME NEW n \in Nat
  PROVE  IsFiniteSet(1..n) /\ Cardinality(1..n) = n
BY FS_Interval

\* While the practice session is written the buffer and the snapshot stay.
LEMMA OnlyTheSession ==
  ASSUME CaptureInv, UNCHANGED <<capturing, racing, snapshot, captured, known>>,
         syncAt' \in {"none", "create", "laps", "end"},
         SyncTrue', PracticeExact', \A i \in DOMAIN sessions' : IsFiniteSet(sessions'[i].laps)
  PROVE  CaptureInv'
<1>1. UNCHANGED <<latestLap, placed, taken, lapTimes, histories, told>>
  BY DEF racing
<1>2. CaptureTypeOK'
  BY <1>1 DEF CaptureInv, CaptureTypeOK
<1>3. TrueHistories(histories)' /\ BufferTrue' /\ SnapshotTrue'
  BY <1>1 DEF CaptureInv, TrueHistories, BufferTrue, SnapshotTrue, SnapshotExact
<1> QED BY <1>2, <1>3 DEF CaptureInv

\* A new session is the last, and has no laps yet.
LEMMA Creating ==
  ASSUME CaptureInv, NEW done \in BOOLEAN, NEW answered \in BOOLEAN, CreateSession(done, answered)
  PROVE  CaptureInv'
<1> DEFINE car == SelectVehicle(snapshot)
           new == [laps |-> {}, total |-> 0, best |-> 0, ended |-> FALSE, car |-> car]
<1>1. UNCHANGED <<capturing, racing, snapshot, captured, known>>
  BY DEF CreateSession
<1>2. DOMAIN sessions = 1..Mine /\ Mine \in Nat /\ CarsOf(snapshot) # {} /\ SnapshotTrue
  BY DEF CaptureInv, SyncTrue, CreateSession
<1>3. IsFiniteSet({}) /\ Cardinality({}) = 0
  BY FS_EmptySet
<1>4. CASE done /\ BuildLaps(snapshot) # {}
  <2>1. sessions' = [i \in DOMAIN sessions \cup {Mine + 1} |-> IF i \in DOMAIN sessions THEN sessions[i] ELSE new]
    BY <1>4 DEF CreateSession, Mine
  <2> HIDE DEF new
  <2>2. DOMAIN sessions' = 1..Mine + 1
    BY <1>2, <2>1
  <2>3. Mine' = Mine + 1
    BY <1>2, <2>2, OneMoreSession DEF Mine
  <2>4. sessions'[Mine + 1] = new /\ \A i \in 1..Mine : sessions'[i] = sessions[i]
    BY <1>2, <2>1
  <2>5. syncAt' \in {"none", "laps"}
    BY <1>4 DEF CreateSession
  <2>6. new.laps = {} /\ ~new.ended /\ new.car = car /\ new.total = 0
    BY DEF new
  <2>7. SyncTrue'
    BY <1>1, <1>2, <1>4, <2>2, <2>3, <2>4, <2>5, <2>6 DEF SyncTrue
  <2>8. PracticeExact' /\ \A i \in DOMAIN sessions' : IsFiniteSet(sessions'[i].laps)
    <3> SUFFICES ASSUME NEW i \in 1..Mine + 1
                 PROVE  /\ IsFiniteSet(sessions'[i].laps)
                        /\ \A r \in sessions'[i].laps : r.ms = LapMs[sessions'[i].car][r.lap]
                        /\ \A r, q \in sessions'[i].laps : r.lap = q.lap => r = q
                        /\ sessions'[i].total = Cardinality(sessions'[i].laps)
                        /\ \A r \in sessions'[i].laps : r.valid => 0 < sessions'[i].best /\ sessions'[i].best <= r.ms
                        /\ sessions'[i].ended => sessions'[i].laps # {}
      BY <2>2 DEF PracticeExact
    <3>1. CASE i \in 1..Mine
      BY <1>2, <2>4, <3>1 DEF CaptureInv, PracticeExact
    <3>2. CASE i = Mine + 1
      BY <1>3, <2>4, <2>6, <3>2
    <3> QED BY <1>2, <3>1, <3>2
  <2> QED BY <1>1, <2>5, <2>7, <2>8, OnlyTheSession
<1>5. CASE ~(done /\ BuildLaps(snapshot) # {})
  <2>1. sessions' = sessions /\ syncAt' = "none"
    BY <1>5 DEF CreateSession
  <2>2. SyncTrue' /\ PracticeExact' /\ \A i \in DOMAIN sessions' : IsFiniteSet(sessions'[i].laps)
    BY <1>1, <2>1 DEF CaptureInv, SyncTrue, PracticeExact, Mine
  <2> QED BY <1>1, <2>1, <2>2, OnlyTheSession
<1> QED BY <1>4, <1>5

\* What is not written stays as it was, and the best of the valid laps is one of them.
LEMMA Adding ==
  ASSUME CaptureInv, NEW done \in BOOLEAN, NEW answered \in BOOLEAN, AddLaps(done, answered)
  PROVE  CaptureInv'
<1> DEFINE laps  == BuildLaps(snapshot)
           valid == {r.ms : r \in {x \in laps : x.valid}}
           best  == IF valid = {} THEN 0 ELSE MinOf(valid)
<1>1. UNCHANGED <<capturing, racing, snapshot, captured, known>> /\ syncAt' \in {"none", "end"}
  BY DEF AddLaps
<1>2. /\ DOMAIN sessions = 1..Mine /\ Mine \in Nat /\ CarsOf(snapshot) # {} /\ SnapshotTrue
      /\ Mine > 0 /\ sessions[Mine].car = SelectVehicle(snapshot) /\ laps # {} /\ ~sessions[Mine].ended
  BY DEF CaptureInv, SyncTrue, AddLaps
<1>3. CASE ~done
  <2>1. sessions' = sessions /\ syncAt' = "none"
    BY <1>3 DEF AddLaps
  <2>2. SyncTrue' /\ PracticeExact' /\ \A i \in DOMAIN sessions' : IsFiniteSet(sessions'[i].laps)
    BY <1>1, <2>1 DEF CaptureInv, SyncTrue, PracticeExact, Mine
  <2> QED BY <1>1, <2>1, <2>2, OnlyTheSession
<1>4. CASE done
  <2>1. /\ \A r \in laps : r.ms = LapMs[sessions[Mine].car][r.lap] /\ r.ms \in Nat \ {0}
        /\ \A r, q \in laps : r.lap = q.lap => r = q
        /\ IsFiniteSet(laps)
    BY <1>2, LapsBuilt
  <2>2. \A r \in laps : r.valid => 0 < best /\ best <= r.ms
    <3>1. valid \in SUBSET Nat /\ 0 \notin valid
      BY <2>1
    <3>2. valid # {} => MinOf(valid) \in valid /\ \A y \in valid : MinOf(valid) <= y
      BY <3>1, Least DEF MinOf
    <3>3. \A r \in laps : r.valid => r.ms \in valid
      OBVIOUS
    <3> SUFFICES ASSUME NEW r \in laps, r.valid PROVE 0 < best /\ best <= r.ms
      OBVIOUS
    <3>4. r.ms \in valid /\ valid # {}
      BY <3>3
    <3>5. best = MinOf(valid)
      BY <3>4
    <3> HIDE DEF laps, valid, best
    <3>6. best \in valid /\ best <= r.ms
      BY <3>2, <3>4, <3>5
    <3> QED BY <3>1, <3>6
  <2>3. sessions' = [sessions EXCEPT ![Mine].laps = laps, ![Mine].total = Cardinality(laps), ![Mine].best = best]
    BY <1>4 DEF AddLaps
  <2> HIDE DEF laps, best
  <2>4. DOMAIN sessions' = 1..Mine /\ Mine' = Mine
    BY <1>2, <2>3 DEF Mine
  <2>5. \A i \in 1..Mine : i # Mine => sessions'[i] = sessions[i]
    BY <1>2, <2>3
  <2>6. /\ sessions'[Mine].laps = laps /\ sessions'[Mine].total = Cardinality(laps) /\ sessions'[Mine].best = best
        /\ sessions'[Mine].car = sessions[Mine].car /\ sessions'[Mine].ended = sessions[Mine].ended
    BY <1>2, <2>3 DEF CaptureInv, CaptureTypeOK
  <2>7. SyncTrue'
    BY <1>1, <1>2, <2>4, <2>6 DEF SyncTrue, laps
  <2>8. PracticeExact' /\ \A i \in DOMAIN sessions' : IsFiniteSet(sessions'[i].laps)
    <3> SUFFICES ASSUME NEW i \in 1..Mine
                 PROVE  /\ IsFiniteSet(sessions'[i].laps)
                        /\ \A r \in sessions'[i].laps : r.ms = LapMs[sessions'[i].car][r.lap]
                        /\ \A r, q \in sessions'[i].laps : r.lap = q.lap => r = q
                        /\ sessions'[i].total = Cardinality(sessions'[i].laps)
                        /\ \A r \in sessions'[i].laps : r.valid => 0 < sessions'[i].best /\ sessions'[i].best <= r.ms
                        /\ sessions'[i].ended => sessions'[i].laps # {}
      BY <2>4 DEF PracticeExact
    <3>1. CASE i # Mine
      BY <1>2, <2>5, <3>1 DEF CaptureInv, PracticeExact
    <3>2. CASE i = Mine
      BY <1>2, <2>1, <2>2, <2>6, <3>2
    <3> QED BY <3>1, <3>2
  <2> QED BY <1>1, <2>7, <2>8, OnlyTheSession
<1> QED BY <1>3, <1>4

\* A session that is ended has laps.
LEMMA Ending ==
  ASSUME CaptureInv, NEW done \in BOOLEAN, EndSession(done)
  PROVE  CaptureInv'
<1>1. UNCHANGED <<capturing, racing, snapshot, captured, known>> /\ syncAt' = "none"
  BY DEF EndSession
<1>2. DOMAIN sessions = 1..Mine /\ Mine \in Nat /\ Mine > 0 /\ sessions[Mine].laps # {}
  BY DEF CaptureInv, SyncTrue, EndSession
<1>3. CASE ~done
  <2>1. sessions' = sessions
    BY <1>3 DEF EndSession
  <2>2. SyncTrue' /\ PracticeExact' /\ \A i \in DOMAIN sessions' : IsFiniteSet(sessions'[i].laps)
    BY <1>1, <2>1 DEF CaptureInv, SyncTrue, PracticeExact, Mine
  <2> QED BY <1>1, <2>2, OnlyTheSession
<1>4. CASE done
  <2>1. sessions' = [sessions EXCEPT ![Mine].ended = TRUE]
    BY <1>4 DEF EndSession
  <2>2. DOMAIN sessions' = 1..Mine /\ Mine' = Mine
    BY <1>2, <2>1 DEF Mine
  <2>3. \A i \in 1..Mine : /\ sessions'[i].laps = sessions[i].laps /\ sessions'[i].total = sessions[i].total
                           /\ sessions'[i].best = sessions[i].best /\ sessions'[i].car = sessions[i].car
                           /\ sessions'[i].ended => i = Mine \/ sessions[i].ended
    BY <1>2, <2>1
  <2>4. SyncTrue'
    BY <1>1, <1>2, <2>2 DEF SyncTrue
  <2>5. PracticeExact' /\ \A i \in DOMAIN sessions' : IsFiniteSet(sessions'[i].laps)
    BY <1>2, <2>2, <2>3 DEF CaptureInv, PracticeExact
  <2> QED BY <1>1, <2>4, <2>5, OnlyTheSession
<1> QED BY <1>3, <1>4

\* Every step keeps the invariant.
LEMMA CaptureStep == CaptureInv /\ [CaptureNext]_captureVars => CaptureInv'
<1> SUFFICES ASSUME CaptureInv, [CaptureNext]_captureVars PROVE CaptureInv'
  OBVIOUS
<1>1. CASE StartCollecting \/ SampleCars \/ DropRace \/ \E v \in CaptureCars : UpdateMotion(v)
  BY <1>1, BufferSteps
<1>2. CASE FinishRace
  BY <1>2, RaceEnds
<1>3. ASSUME NEW v \in CaptureCars,
             \/ \E ms \in {0} \cup {LapMs[v][l] : l \in LapsOf(v)} : UpdateLap(v, ms)
             \/ \E n \in LapsOf(v) : \E gaps \in {{}, {n}} : UpdateHistory(v, n, gaps)
      PROVE  CaptureInv'
  BY <1>3, HearingSteps
<1>4. ASSUME NEW done \in BOOLEAN, NEW answered \in BOOLEAN, CreateSession(done, answered) \/ AddLaps(done, answered)
      PROVE  CaptureInv'
  BY <1>4, Creating, Adding
<1>5. ASSUME NEW done \in BOOLEAN, EndSession(done) PROVE CaptureInv'
  BY <1>5, Ending
<1>6. CASE UNCHANGED captureVars
  <2>1. UNCHANGED <<capturing, racing, snapshot, syncAt, sessions, captured, known>>
    BY <1>6 DEF captureVars
  <2>2. UNCHANGED <<latestLap, placed, taken, lapTimes, histories, told>>
    BY <2>1 DEF racing
  <2>3. CaptureTypeOK' /\ TrueHistories(histories)' /\ BufferTrue'
    BY <2>1, <2>2 DEF CaptureInv, CaptureTypeOK, TrueHistories, BufferTrue
  <2> QED BY <2>1, <2>3, OnlyTheBuffer
<1> QED BY <1>1, <1>2, <1>3, <1>4, <1>5, <1>6 DEF CaptureNext

\* The inductive invariant of a capture (agent/telemetry_buffer.py and agent/personal_session_sync.py).
THEOREM CaptureInvariant == CaptureSpec => []CaptureInv
BY CaptureBegins, CaptureStep, PTL DEF CaptureSpec

\* In whatever order lap data and histories come, the snapshot has what was told and no other time, and a
\* practice session lists laps of one car, each once and as long as it took, whichever requests fail.
THEOREM CapturesAreSound == CaptureSpec => []CaptureSound
<1>1. CaptureInv => CaptureSound
  BY DEF CaptureInv, CaptureSound, SnapshotTrue
<1> QED BY <1>1, CaptureInvariant, PTL
==============================================================================
