---------------------------- MODULE StreamProofs ----------------------------
(***************************************************************************)
(* Proofs about the two streams that reach the backend while a session     *)
(* runs, which share nothing: telemetry (TelemetryIngest) and the live     *)
(* messages (LiveHub).                                                     *)
(*                                                                         *)
(* Telemetry, for any number of requests, vehicles and laps: what is       *)
(* stored is the union of what was accepted, unless an update wrote over a *)
(* row changed since it was loaded, and no commit takes away a lap or its  *)
(* time.                                                                   *)
(*                                                                         *)
(* Live messages, for any number of agents, of their connections, of pages *)
(* and of theirs: what pages see was received and is on disk; over one     *)
(* connection the status goes back only if two broadcasts ran at once, for *)
(* while none did the one under way is of the newest message (CastAlone);  *)
(* a broadcast passes nobody whom it owes its message but for one for each *)
(* connection that left from a place it had passed (SkipsCounted); and who *)
(* awaits the accept has found room when no more than atOnce awaited it    *)
(* (RoomKept).                                                             *)
(***************************************************************************)
EXTENDS TelemetryIngest, LiveHub, SequenceTheorems, FiniteSetTheorems, WellFoundedInduction, TLAPS

-----------------------------------------------------------------------------
(* TelemetryIngest.                                                        *)

\* The largest of two numbers, and a largest member of a set.
LEMMA LargestOfTwo ==
  ASSUME NEW a \in Nat, NEW b \in Nat PROVE Max({a, b}) = IF a >= b THEN a ELSE b
  BY DEF Max

\* A largest element is the maximum.
LEMMA Largest ==
  ASSUME NEW S \in SUBSET Nat, NEW a \in S, \A b \in S : b =< a PROVE Max(S) = a
<1>1. \A x \in S : (\A y \in S : x >= y) <=> x = a
  OBVIOUS
<1> QED
  BY <1>1 DEF Max

\* What a row covers it still covers after a merge, and with it what was merged into it.
LEMMA MergeCovers ==
  ASSUME NEW old \in HistoryLap \cup {NoRow}, NEW new \in HistoryLap \cup {NoRow}
  PROVE  /\ Covers(old, MergeLap(old, new)) /\ Covers(new, MergeLap(old, new))
         /\ MergeLap(old, new) \in HistoryLap \cup {NoRow}
         /\ MergeLap(old, new) # NoRow =>
               /\ \E x \in {old, new} : x # NoRow /\ MergeLap(old, new).time = x.time
               /\ \E x \in {old, new} : x # NoRow /\ MergeLap(old, new).sector = x.sector
<1>1. CASE new = NoRow \/ old = NoRow
  <2>1. \A x : Covers(x, x) /\ Covers(NoRow, x)
    BY DEF Covers
  <2>2. CASE new = NoRow
    <3>1. MergeLap(old, new) = old
      BY <2>2 DEF MergeLap
    <3>2. Covers(old, old) /\ Covers(new, old)
      BY <2>1, <2>2
    <3> QED
      BY <2>2, <3>1, <3>2
  <2>3. CASE new # NoRow /\ old = NoRow
    <3>1. MergeLap(old, new) = new
      BY <2>3 DEF MergeLap
    <3> QED
      BY <2>1, <2>3, <3>1
  <2> QED
    BY <1>1, <2>2, <2>3
<1>2. CASE new # NoRow /\ old # NoRow
  <2>1. /\ old \in HistoryLap /\ new \in HistoryLap
        /\ MergeLap(old, new) = [time |-> First(new.time, old.time), sector |-> First(new.sector, old.sector)]
    BY <1>2 DEF MergeLap
  <2>2. /\ old.time \in Nat /\ new.time \in Nat /\ old.sector \in Nat /\ new.sector \in Nat
    BY <2>1 DEF HistoryLap
  <2>3. First(new.time, old.time) \in Nat /\ First(new.sector, old.sector) \in Nat
    BY <2>2 DEF First
  <2>4. /\ MergeLap(old, new) \in HistoryLap
        /\ MergeLap(old, new).time = First(new.time, old.time)
        /\ MergeLap(old, new).sector = First(new.sector, old.sector)
    BY <2>1, <2>3 DEF HistoryLap
  <2>5. MergeLap(old, new) # NoRow
    BY <2>4, IngestAssumption
  <2> QED
    BY <1>2, <2>2, <2>4, <2>5 DEF Covers, First
<1> QED
  BY <1>1, <1>2

\* What covers a row that covers another covers that one.
LEMMA CoversTransitive ==
  ASSUME NEW a, NEW b, NEW c, Covers(a, b), Covers(b, c) PROVE Covers(a, c)
  BY DEF Covers

\* Nothing is stored or accepted at the beginning.
LEMMA IngestBegin == IngestInit => IngestInv
<1> SUFFICES ASSUME IngestInit PROVE IngestInv
  OBVIOUS
<1> USE DEF IngestInit, NoLaps, NoHist
<1>1. \A r \in Requests : body[r] \in LapMsg \cup HistoryMsg /\ TimesTrue(body[r])
  BY IngestAssumption
<1>2. body \in [Requests -> LapMsg \cup HistoryMsg]
  BY <1>1, IngestAssumption
<1>3. IngestTypeOK
  BY <1>2 DEF IngestTypeOK, Answers
<1>4. \A r \in Requests : StageFits(r)
  BY <1>1 DEF StageFits
<1>5. \A r \in Requests, v \in Vehicles : Loaded(r, v)
  BY DEF Loaded
<1>6. \A k : Taken(k) = {}
  BY DEF Taken
<1>7. \A v \in Vehicles, l \in Laps : StoredLap(v, l)
  BY <1>6 DEF StoredLap, LapsTaken
<1>8. \A v \in Vehicles : StoredHistory(v)
  BY <1>6 DEF StoredHistory
<1> QED
  BY <1>3, <1>4, <1>5, <1>7, <1>8 DEF IngestInv

-----------------------------------------------------------------------------
\* A step that takes nothing away from what is stored and accepted.
StoresMore ==
    /\ body' = body /\ clobbered \subseteq clobbered'
    /\ \A k \in {"lap", "history"} : Taken(k) \subseteq Taken(k)'
    /\ \A v \in Vehicles, l \in Laps : lapRows[v][l] # NoRow =>
          /\ lapRows'[v][l] # NoRow
          /\ lapRows[v][l].time # 0 => lapRows'[v][l].time # 0
          /\ "lap" \notin clobbered' => lapRows[v][l].samples =< lapRows'[v][l].samples
    /\ \A v \in Vehicles : histories[v] # NoRow =>
          /\ histories'[v] # NoRow
          /\ "history" \notin clobbered' =>
                \A l \in Laps : Covers(histories[v].laps[l], histories'[v].laps[l])

\* Such a step keeps what is accepted, and what was within what is stored.
LEMMA MoreIsKept ==
  ASSUME IngestInv, IngestTypeOK', StoresMore, NEW v \in Vehicles, NEW l \in Laps
  PROVE  /\ LapsTaken(v, l) \subseteq LapsTaken(v, l)'
         /\ HistoryTaken(v, l) \subseteq HistoryTaken(v, l)'
         /\ \A x : Comes(x, v, l) => Comes(x, v, l)'
         /\ \A x : x.samples \in Nat /\ Kept(x, v, l) => Kept(x, v, l)'
         /\ \A x : histories[v] # NoRow /\ InHistory(x, v, l) => InHistory(x, v, l)'
<1>1. LapsTaken(v, l) \subseteq LapsTaken(v, l)'
  BY DEF StoresMore, LapsTaken
<1>2. \A r : VehiclesOf(r)' = VehiclesOf(r)
  BY DEF StoresMore, VehiclesOf
<1>3. HistoryTaken(v, l) \subseteq HistoryTaken(v, l)'
  BY <1>2 DEF StoresMore, HistoryTaken
<1>4. \A x : Comes(x, v, l) => Comes(x, v, l)'
  BY <1>3 DEF StoresMore, Comes
<1>5. lapRows[v][l] # NoRow => lapRows[v][l].samples \in Nat
  BY DEF IngestInv, IngestTypeOK, LapRow
<1>6. lapRows'[v][l] # NoRow => lapRows'[v][l].samples \in Nat
  BY DEF IngestTypeOK, LapRow
<1>7. \A x : x.samples \in Nat /\ Kept(x, v, l) => Kept(x, v, l)'
  BY <1>5, <1>6 DEF StoresMore, Kept
<1>8. \A x : histories[v] # NoRow /\ InHistory(x, v, l) => InHistory(x, v, l)'
  BY DEF StoresMore, InHistory, Covers
<1> QED
  BY <1>1, <1>3, <1>4, <1>7, <1>8

\* Such a step of one handler, which may load what is stored, keeps the invariant if what
\* it has stored fits.
LEMMA StepKeeps ==
  ASSUME IngestInv, IngestTypeOK', StoresMore, NEW r \in Requests, StageFits(r)',
         \A e \in Requests \ {r} : at'[e] = at[e] /\ time'[e] = time[e] /\ answer'[e] = answer[e],
         \A e \in Requests, v \in Vehicles : /\ loadedLaps'[e][v] \in {loadedLaps[e][v], lapRows[v]}
                                             /\ loadedHist'[e][v] \in {loadedHist[e][v], histories[v]},
         \A v \in Vehicles, l \in Laps : StoredLap(v, l)',
         \A v \in Vehicles : StoredHistory(v)'
  PROVE  IngestInv'
<1>1. ASSUME NEW e \in Requests PROVE StageFits(e)'
  <2>1. CASE e = r
    BY <2>1
  <2>2. CASE e # r
    BY <2>2 DEF IngestInv, StageFits, StoresMore, TimesTrue
  <2> QED
    BY <2>1, <2>2
<1>2. ASSUME NEW e \in Requests, NEW v \in Vehicles PROVE Loaded(e, v)'
  <2>1. ASSUME NEW l \in Laps, loadedLaps'[e][v][l] # NoRow PROVE Kept(loadedLaps[e][v][l], v, l)'
    <3>1. PICK x : x = loadedLaps'[e][v][l]
      OBVIOUS
    <3>2. x.samples \in Nat
      BY <2>1, <3>1 DEF IngestTypeOK, LapRow
    <3>3. CASE loadedLaps'[e][v] = loadedLaps[e][v]
      <4>1. Kept(x, v, l)
        BY <2>1, <3>1, <3>3 DEF IngestInv, Loaded, Kept
      <4>2. Kept(x, v, l)'
        BY <3>2, <4>1, MoreIsKept
      <4> QED
        BY <3>1, <4>2 DEF Kept
    <3>4. CASE loadedLaps'[e][v] = lapRows[v]
      BY <2>1, <3>4 DEF StoresMore, Kept
    <3> QED
      BY <3>3, <3>4
  <2>2. ASSUME loadedHist'[e][v] # NoRow
        PROVE  /\ histories'[v] # NoRow
               /\ \A l \in Laps : /\ InHistory(loadedHist[e][v].laps[l], v, l)'
                                  /\ Comes(loadedHist[e][v].laps[l], v, l)'
    <3>1. PICK h : h = loadedHist'[e][v]
      OBVIOUS
    <3>2. histories[v] # NoRow /\ \A l \in Laps : InHistory(h.laps[l], v, l) /\ Comes(h.laps[l], v, l)
      BY <2>2, <3>1 DEF IngestInv, Loaded, StoredHistory, InHistory, Covers, Comes
    <3>3. histories'[v] # NoRow
      BY <3>2 DEF StoresMore
    <3>4. ASSUME NEW l \in Laps PROVE InHistory(h.laps[l], v, l)' /\ Comes(h.laps[l], v, l)'
      BY <3>2, <3>4, MoreIsKept
    <3> QED
      BY <3>1, <3>3, <3>4 DEF InHistory, Comes
  <2> QED
    BY <2>1, <2>2 DEF Loaded
<1> QED
  BY <1>1, <1>2 DEF IngestInv

\* A handler that answers is added to those that were accepted, or not.
LEMMA Answering ==
  ASSUME IngestInv, IngestTypeOK', NEW r \in Requests, at[r] # "done", body' = body,
         \A e \in Requests \ {r} : answer'[e] = answer[e]
  PROVE  \A k : Taken(k)' = Taken(k) \cup
            {e \in {r} : answer'[r] \in {"ok", "updated", "duplicate"} /\ body[r].kind = k}
<1>1. answer[r] = "none"
  BY DEF IngestInv, StageFits
<1> QED
  BY <1>1 DEF Taken

\* A step that stores nothing and accepts nothing keeps the invariant.
LEMMA QuietStep ==
  ASSUME IngestInv, IngestTypeOK', NEW r \in Requests, at[r] # "done", StageFits(r)',
         UNCHANGED <<lapRows, histories, body, clobbered>>, answer'[r] \in {"none", "skipped", "error"},
         \A e \in Requests \ {r} : at'[e] = at[e] /\ time'[e] = time[e] /\ answer'[e] = answer[e],
         \A e \in Requests, v \in Vehicles : /\ loadedLaps'[e][v] \in {loadedLaps[e][v], lapRows[v]}
                                             /\ loadedHist'[e][v] \in {loadedHist[e][v], histories[v]}
  PROVE  IngestInv'
<1>1. \A k : Taken(k)' = Taken(k)
  BY Answering
<1>2. \A x : Covers(x, x)
  BY DEF Covers
<1>3. \A v \in Vehicles, l \in Laps : lapRows[v][l] # NoRow => lapRows[v][l].samples \in Nat
  BY DEF IngestInv, IngestTypeOK, LapRow
<1>4. StoresMore
  BY <1>1, <1>2, <1>3 DEF StoresMore
<1>5. /\ \A v \in Vehicles, l \in Laps : /\ LapsTaken(v, l)' = LapsTaken(v, l)
                                         /\ HistoryTaken(v, l)' = HistoryTaken(v, l)
      /\ \A e : VehiclesOf(e)' = VehiclesOf(e)
  BY <1>1 DEF LapsTaken, HistoryTaken, VehiclesOf
<1>6. \A v \in Vehicles, l \in Laps : StoredLap(v, l)'
  BY <1>5 DEF IngestInv, StoredLap, Kept
<1>7. \A v \in Vehicles : StoredHistory(v)'
  BY <1>1, <1>5 DEF IngestInv, StoredHistory, Comes, InHistory
<1> QED
  BY <1>4, <1>6, <1>7, StepKeeps

\* What an EXCEPT on one request changes.
LEMMA Moved ==
  ASSUME IngestTypeOK, NEW r \in Requests, NEW from, NEW to, Step(r, from, to)
  PROVE  /\ at[r] = from /\ at'[r] = to /\ \A e \in Requests \ {r} : at'[e] = at[e]
         /\ to \in {"new", "lap", "save", "row", "backfill", "done"} =>
               at' \in [Requests -> {"new", "lap", "save", "row", "backfill", "done"}]
  BY DEF Step, IngestTypeOK

\* A reply is an answer of one request, the others keep theirs.
LEMMA Replied ==
  ASSUME IngestTypeOK, NEW r \in Requests, NEW a \in Answers, Reply(r, a)
  PROVE  /\ answer' \in [Requests -> Answers] /\ answer'[r] = a
         /\ \A e \in Requests \ {r} : answer'[e] = answer[e]
  BY DEF Reply, IngestTypeOK

\* The body of a request is what its kind says, and its times are the game's.
LEMMA BodyFits ==
  ASSUME IngestInv, NEW r \in Requests
  PROVE  /\ body[r].kind = "lap" => body[r] \in LapMsg /\ body[r].time \in {0, LapTime[body[r].vehicle][body[r].lap]}
         /\ body[r].kind = "history" => /\ body[r] \in HistoryMsg
                                        /\ VehiclesOf(r) \subseteq Vehicles
                                        /\ \A v \in VehiclesOf(r) : body[r].rows[v] \in History
<1>1. body[r] \in LapMsg \cup HistoryMsg /\ TimesTrue(body[r])
  BY DEF IngestInv, IngestTypeOK, StageFits
<1>2. CASE body[r].kind = "lap"
  <2>1. body[r] \in LapMsg
    BY <1>1, <1>2 DEF HistoryMsg
  <2> QED
    BY <1>1, <1>2, <2>1 DEF TimesTrue
<1>3. CASE body[r].kind = "history"
  <2>1. body[r] \in HistoryMsg
    BY <1>1, <1>3 DEF LapMsg
  <2>2. body[r].rows \in [Vehicles -> History \cup {NoRow}]
    BY <2>1 DEF HistoryMsg
  <2> QED
    BY <1>3, <2>1, <2>2 DEF VehiclesOf
<1> QED
  BY <1>1, <1>2, <1>3 DEF LapMsg, HistoryMsg

\* A time found in what is accepted is the game's.
LEMMA ComesTrue ==
  ASSUME IngestInv, NEW v \in Vehicles, NEW l \in Laps, NEW x, x # NoRow, Comes(x, v, l)
  PROVE  x.time \in {0, LapTime[v][l]}
<1>1. PICK r \in HistoryTaken(v, l) : body[r].rows[v].laps[l].time = x.time
  BY DEF Comes
<1>2. r \in Requests /\ body[r].kind = "history" /\ v \in VehiclesOf(r) /\ body[r].rows[v].laps[l] # NoRow
  BY DEF HistoryTaken, Taken
<1>3. TimesTrue(body[r])
  BY <1>2 DEF IngestInv, StageFits
<1> QED
  BY <1>1, <1>2, <1>3 DEF TimesTrue, VehiclesOf

-----------------------------------------------------------------------------
\* Reading, turning away and starting over.
LEMMA Reading ==
  ASSUME IngestInv, NEW r \in Requests,
         \/ Skip(r) \/ ReadHistory(r) \/ ReadLap(r) \/ InsertLapFails(r) \/ BeginHistory(r)
         \/ ReadRow(r) \/ ReadLaps(r) \/ RetryHistory(r) \/ HistoryFails(r)
  PROVE  IngestInv'
<1> USE DEF Put, stored, memory
<1>1. IngestTypeOK /\ StageFits(r) /\ r \in Requests
  BY DEF IngestInv
<1>2. body[r].kind = "lap" => body[r] \in LapMsg
  BY BodyFits
<1>3. body[r].kind = "history" => VehiclesOf(r) \subseteq Vehicles
  BY BodyFits
<1>4. CASE Skip(r) \/ HistoryFails(r)
  <2>1. /\ at[r] \in {"new", "row"} /\ at'[r] = "done" /\ answer'[r] \in {"skipped", "error"}
        /\ at' \in [Requests -> {"new", "lap", "save", "row", "backfill", "done"}]
        /\ answer' \in [Requests -> Answers]
        /\ \A e \in Requests \ {r} : at'[e] = at[e] /\ answer'[e] = answer[e]
    BY <1>1, <1>4, Moved, Replied DEF Skip, HistoryFails, Answers
  <2>2. UNCHANGED <<lapRows, histories, body, todo, time, loadedLaps, loadedHist, retried, clobbered>>
    BY <1>4 DEF Skip, HistoryFails
  <2>3. IngestTypeOK'
    BY <1>1, <2>1, <2>2 DEF IngestTypeOK
  <2>4. StageFits(r)'
    BY <1>1, <2>1, <2>2 DEF StageFits, TimesTrue
  <2> QED
    BY <2>1, <2>2, <2>3, <2>4, QuietStep
<1>5. CASE ReadHistory(r)
  <2> DEFINE found == EffectiveTime(body[r].time, histories[body[r].vehicle], body[r].lap)
  <2>1. /\ body[r].kind = "lap" /\ Step(r, "new", "lap") /\ time' = [time EXCEPT ![r] = found]
        /\ UNCHANGED <<lapRows, histories, body, todo, loadedLaps, loadedHist, retried, answer, clobbered>>
    BY <1>5 DEF ReadHistory
  <2>2. body[r].vehicle \in Vehicles /\ body[r].lap \in Laps /\ body[r].time \in Nat
    BY <1>2, <2>1 DEF LapMsg
  <2>3. found \in {0, LapTime[body[r].vehicle][body[r].lap]} /\ (body[r].time # 0 => found # 0)
    <3>1. CASE found = body[r].time
      BY <2>1, <3>1, BodyFits
    <3>2. CASE found # body[r].time
      <4>1. /\ histories[body[r].vehicle] # NoRow /\ histories[body[r].vehicle].laps[body[r].lap] # NoRow
            /\ found = histories[body[r].vehicle].laps[body[r].lap].time /\ body[r].time = 0
        BY <3>2 DEF EffectiveTime
      <4>2. Comes(histories[body[r].vehicle].laps[body[r].lap], body[r].vehicle, body[r].lap)
        BY <2>2, <4>1 DEF IngestInv, StoredHistory
      <4> QED
        BY <2>2, <4>1, <4>2, ComesTrue
    <3> QED
      BY <3>1, <3>2
  <2>4. LapTime[body[r].vehicle][body[r].lap] \in Nat
    BY <2>2, IngestAssumption
  <2> HIDE DEF found
  <2>5. /\ at[r] = "new" /\ at'[r] = "lap" /\ \A e \in Requests \ {r} : at'[e] = at[e]
        /\ at' \in [Requests -> {"new", "lap", "save", "row", "backfill", "done"}]
    BY <1>1, <2>1, Moved
  <2>6. time' \in [Requests -> Nat] /\ time'[r] = found /\ \A e \in Requests \ {r} : time'[e] = time[e]
    BY <1>1, <2>1, <2>3, <2>4 DEF IngestTypeOK
  <2>7. IngestTypeOK'
    BY <1>1, <2>1, <2>5, <2>6 DEF IngestTypeOK
  <2>8. StageFits(r)' /\ answer[r] = "none"
    BY <1>1, <2>1, <2>3, <2>5, <2>6 DEF StageFits, TimesTrue
  <2> QED
    BY <2>1, <2>5, <2>6, <2>7, <2>8, QuietStep
<1>6. CASE ReadLap(r) \/ InsertLapFails(r)
  <2>1. /\ UNCHANGED <<lapRows, histories, body, todo, time, loadedHist, retried, answer, clobbered>>
        /\ \/ Step(r, "lap", "save") /\ loadedLaps' = [loadedLaps EXCEPT ![r] = lapRows]
           \/ Step(r, "save", "lap") /\ loadedLaps' = loadedLaps
    BY <1>6 DEF ReadLap, InsertLapFails
  <2>2. /\ at[r] \in {"lap", "save"} /\ at'[r] \in {"lap", "save"}
        /\ at' \in [Requests -> {"new", "lap", "save", "row", "backfill", "done"}]
        /\ \A e \in Requests \ {r} : at'[e] = at[e]
    BY <1>1, <2>1, Moved
  <2>3. /\ \A e \in Requests, v \in Vehicles : loadedLaps'[e][v] \in {loadedLaps[e][v], lapRows[v]}
        /\ loadedLaps' \in [Requests -> [Vehicles -> [Laps -> LapRow \cup {NoRow}]]]
    BY <1>1, <2>1 DEF IngestTypeOK
  <2>4. StageFits(r)' /\ answer[r] = "none" /\ at[r] # "done"
    BY <1>1, <2>1, <2>2 DEF StageFits, TimesTrue
  <2>5. IngestTypeOK'
    BY <1>1, <2>1, <2>2, <2>3 DEF IngestTypeOK
  <2> QED
    BY <2>1, <2>2, <2>3, <2>4, <2>5, QuietStep
<1>7. CASE BeginHistory(r) \/ RetryHistory(r)
  <2>1. /\ UNCHANGED <<lapRows, histories, body, time, loadedLaps, loadedHist, answer, clobbered>>
        /\ todo' = [todo EXCEPT ![r] = VehiclesOf(r)] /\ retried' \in {retried, [retried EXCEPT ![r] = TRUE]}
        /\ \/ body[r].kind = "history" /\ Step(r, "new", "row")
           \/ Step(r, "row", "row")
    BY <1>7 DEF BeginHistory, RetryHistory
  <2>2. /\ at[r] \in {"new", "row"} /\ at'[r] = "row"
        /\ at[r] = "row" \/ body[r].kind = "history"
        /\ at' \in [Requests -> {"new", "lap", "save", "row", "backfill", "done"}]
        /\ \A e \in Requests \ {r} : at'[e] = at[e]
    BY <1>1, <2>1, Moved
  <2>3. body[r].kind = "history"
    BY <1>1, <2>2 DEF StageFits
  <2>4. StageFits(r)' /\ answer[r] = "none" /\ at[r] # "done"
    BY <1>1, <2>1, <2>2, <2>3 DEF StageFits, TimesTrue
  <2>5. todo' \in [Requests -> SUBSET Vehicles] /\ retried' \in [Requests -> BOOLEAN]
    BY <1>1, <1>3, <2>1, <2>3 DEF IngestTypeOK
  <2>6. IngestTypeOK'
    BY <1>1, <2>1, <2>2, <2>5 DEF IngestTypeOK
  <2> QED
    BY <2>1, <2>2, <2>4, <2>6, QuietStep
<1>8. CASE ReadRow(r) \/ ReadLaps(r)
  <2>1. /\ UNCHANGED <<lapRows, histories, body, time, retried, answer, clobbered>>
        /\ loadedLaps' \in {loadedLaps, [loadedLaps EXCEPT ![r][Turn(r)] = lapRows[Turn(r)]]}
        /\ loadedHist' \in {loadedHist, [loadedHist EXCEPT ![r][Turn(r)] = histories[Turn(r)]]}
        /\ todo' \in {todo, [todo EXCEPT ![r] = @ \ {Turn(r)}]}
        /\ Step(r, "row", "backfill") \/ Step(r, "backfill", "row")
    BY <1>8 DEF ReadRow, ReadLaps
  <2>2. /\ at[r] \in {"row", "backfill"} /\ at'[r] \in {"row", "backfill"}
        /\ at' \in [Requests -> {"new", "lap", "save", "row", "backfill", "done"}]
        /\ \A e \in Requests \ {r} : at'[e] = at[e]
    BY <1>1, <2>1, Moved
  <2>3. StageFits(r)' /\ answer[r] = "none" /\ at[r] # "done"
    BY <1>1, <2>1, <2>2 DEF StageFits, TimesTrue
  <2>4. /\ \A e \in Requests, v \in Vehicles : loadedLaps'[e][v] \in {loadedLaps[e][v], lapRows[v]}
        /\ loadedLaps' \in [Requests -> [Vehicles -> [Laps -> LapRow \cup {NoRow}]]]
    <3> DEFINE S == [Laps -> LapRow \cup {NoRow}]
    <3>1. loadedLaps \in [Requests -> [Vehicles -> S]] /\ lapRows \in [Vehicles -> S]
      BY <1>1 DEF IngestTypeOK
    <3> HIDE DEF S
    <3>2. CASE loadedLaps' = loadedLaps
      BY <3>1, <3>2 DEF S
    <3>3. CASE loadedLaps' = [loadedLaps EXCEPT ![r] = [loadedLaps[r] EXCEPT ![Turn(r)] = lapRows[Turn(r)]]]
      <4> DEFINE h == [loadedLaps[r] EXCEPT ![Turn(r)] = lapRows[Turn(r)]]
      <4>1. h \in [Vehicles -> S] /\ \A v \in Vehicles : h[v] \in {loadedLaps[r][v], lapRows[v]}
        BY <1>1, <3>1
      <4>2. loadedLaps' = [loadedLaps EXCEPT ![r] = h]
        BY <3>3
      <4> HIDE DEF h
      <4>3. /\ loadedLaps' \in [Requests -> [Vehicles -> S]]
            /\ \A e \in Requests : loadedLaps'[e] = IF e = r THEN h ELSE loadedLaps[e]
        BY <3>1, <4>1, <4>2
      <4> QED
        BY <4>1, <4>3 DEF S
    <3> QED
      BY <2>1, <3>2, <3>3 DEF S
  <2>5. /\ \A e \in Requests, v \in Vehicles : loadedHist'[e][v] \in {loadedHist[e][v], histories[v]}
        /\ loadedHist' \in [Requests -> [Vehicles -> History \cup {NoRow}]]
    <3> DEFINE S == History \cup {NoRow}
    <3>1. loadedHist \in [Requests -> [Vehicles -> S]] /\ histories \in [Vehicles -> S]
      BY <1>1 DEF IngestTypeOK
    <3> HIDE DEF S
    <3>2. CASE loadedHist' = loadedHist
      BY <3>1, <3>2 DEF S
    <3>3. CASE loadedHist' = [loadedHist EXCEPT ![r] = [loadedHist[r] EXCEPT ![Turn(r)] = histories[Turn(r)]]]
      <4> DEFINE h == [loadedHist[r] EXCEPT ![Turn(r)] = histories[Turn(r)]]
      <4>1. h \in [Vehicles -> S] /\ \A v \in Vehicles : h[v] \in {loadedHist[r][v], histories[v]}
        BY <1>1, <3>1
      <4>2. loadedHist' = [loadedHist EXCEPT ![r] = h]
        BY <3>3
      <4> HIDE DEF h
      <4>3. /\ loadedHist' \in [Requests -> [Vehicles -> S]]
            /\ \A e \in Requests : loadedHist'[e] = IF e = r THEN h ELSE loadedHist[e]
        BY <3>1, <4>1, <4>2
      <4> QED
        BY <4>1, <4>3 DEF S
    <3> QED
      BY <2>1, <3>2, <3>3 DEF S
  <2>6. todo' \in [Requests -> SUBSET Vehicles]
    BY <1>1, <2>1 DEF IngestTypeOK
  <2>7. IngestTypeOK'
    BY <1>1, <2>1, <2>2, <2>4, <2>5, <2>6 DEF IngestTypeOK
  <2> QED
    BY <2>1, <2>2, <2>3, <2>4, <2>5, <2>7, QuietStep
<1> QED
  BY <1>4, <1>5, <1>6, <1>7, <1>8

\* A lap row is stored that has what the request brings and what the row had.
LEMMA StoringLap ==
  ASSUME IngestInv, NEW r \in Requests, at[r] = "save", NEW v, NEW l, NEW row \in LapRow,
         v = body[r].vehicle, l = body[r].lap, row.time \in {0, LapTime[v][l]},
         Step(r, "save", "done"), NEW a \in {"ok", "updated", "duplicate"}, Reply(r, a),
         UNCHANGED <<histories, body, memory>>,
         clobbered \subseteq clobbered', clobbered' \subseteq clobbered \cup {"lap"},
         lapRows' \in [Vehicles -> [Laps -> LapRow \cup {NoRow}]],
         \A u \in Vehicles, k \in Laps : lapRows'[u][k] = IF u = v /\ k = l THEN row ELSE lapRows[u][k],
         body[r].time # 0 => row.time # 0,
         row.samples = body[r].samples \/ (lapRows[v][l] # NoRow /\ row.samples = lapRows[v][l].samples),
         "lap" \notin clobbered' => body[r].samples =< row.samples,
         lapRows[v][l] # NoRow =>
            /\ lapRows[v][l].time # 0 => row.time # 0
            /\ "lap" \notin clobbered' => lapRows[v][l].samples =< row.samples
  PROVE  IngestInv' /\ StoresMore
<1>1. IngestTypeOK /\ StageFits(r)
  BY DEF IngestInv
<1>2. body[r] \in LapMsg /\ body[r].kind = "lap" /\ v \in Vehicles /\ l \in Laps
  BY <1>1, BodyFits DEF StageFits, LapMsg
<1>3. /\ at'[r] = "done" /\ \A e \in Requests \ {r} : at'[e] = at[e]
      /\ at' \in [Requests -> {"new", "lap", "save", "row", "backfill", "done"}]
  BY <1>1, Moved
<1>4. /\ answer' \in [Requests -> Answers] /\ answer'[r] = a
      /\ \A e \in Requests \ {r} : answer'[e] = answer[e]
  BY <1>1, Replied DEF Answers
<1>5. IngestTypeOK'
  BY <1>1, <1>3, <1>4 DEF IngestTypeOK, memory
<1>6. Taken("lap")' = Taken("lap") \cup {r} /\ Taken("history")' = Taken("history")
  <2>1. \A k : Taken(k)' = Taken(k) \cup
            {e \in {r} : answer'[r] \in {"ok", "updated", "duplicate"} /\ body[r].kind = k}
    BY <1>4, <1>5, Answering
  <2> QED
    BY <1>2, <1>4, <2>1
<1>7. StageFits(r)'
  BY <1>1, <1>3 DEF StageFits, TimesTrue, memory
<1>8. row # NoRow /\ row.samples \in Nat /\ row.time \in Nat
  BY IngestAssumption DEF LapRow
<1>9. StoresMore
  <2>1. \A u \in Vehicles, k \in Laps : lapRows[u][k] # NoRow => lapRows[u][k].samples \in Nat
    BY <1>1 DEF IngestTypeOK, LapRow
  <2>2. \A x : Covers(x, x)
    BY DEF Covers
  <2> QED
    BY <1>6, <1>8, <2>1, <2>2 DEF StoresMore
<1>10. ASSUME NEW u \in Vehicles, NEW k \in Laps PROVE StoredLap(u, k)'
  <2>1. CASE u = v /\ k = l
    <3>1. LapsTaken(u, k)' = LapsTaken(u, k) \cup {r}
      BY <1>2, <1>6, <2>1 DEF LapsTaken
    <3>2. \E e \in LapsTaken(u, k)' : body[e].samples = row.samples
      BY <2>1, <3>1 DEF IngestInv, StoredLap
    <3>3. \A e \in LapsTaken(u, k) : body[e].samples \in Nat /\ Kept(body[e], u, k)'
      <4>1. \A e \in LapsTaken(u, k) : Kept(body[e], u, k) /\ e \in Requests /\ body[e].kind = "lap"
        BY DEF IngestInv, StoredLap, LapsTaken, Taken
      <4>2. \A e \in LapsTaken(u, k) : body[e].samples \in Nat
        BY <4>1, BodyFits DEF LapMsg
      <4>3. \A x : x.samples \in Nat /\ Kept(x, u, k) => Kept(x, u, k)'
        BY <1>5, <1>9, MoreIsKept
      <4> QED
        BY <4>1, <4>2, <4>3 DEF Kept
    <3>4. Kept(body[r], u, k)'
      BY <1>8, <2>1 DEF Kept
    <3>5. \A e \in LapsTaken(u, k)' : Kept(body[e], u, k)'
      BY <3>1, <3>3, <3>4
    <3> QED
      BY <2>1, <3>2, <3>5 DEF StoredLap
  <2>2. CASE ~(u = v /\ k = l)
    <3>1. LapsTaken(u, k)' = LapsTaken(u, k) /\ lapRows'[u][k] = lapRows[u][k]
      BY <1>6, <2>2 DEF LapsTaken
    <3> QED
      BY <3>1 DEF IngestInv, StoredLap, Kept
  <2> QED
    BY <2>1, <2>2
<1>11. ASSUME NEW u \in Vehicles PROVE StoredHistory(u)'
  <2>1. \A k \in Laps : HistoryTaken(u, k)' = HistoryTaken(u, k)
    BY <1>6 DEF HistoryTaken, VehiclesOf
  <2>2. \A e : VehiclesOf(e)' = VehiclesOf(e)
    BY DEF VehiclesOf
  <2> QED
    BY <1>6, <2>1, <2>2 DEF IngestInv, StoredHistory, Comes, InHistory
<1> QED
  BY <1>3, <1>4, <1>5, <1>7, <1>9, <1>10, <1>11, StepKeeps DEF memory

\* A first row is what the request brings.
LEMMA Inserting ==
  ASSUME IngestInv, NEW r \in Requests, InsertLap(r)
  PROVE  IngestInv' /\ StoresMore
<1> DEFINE v == body[r].vehicle
           l == body[r].lap
           row == [time |-> time[r], samples |-> body[r].samples]
<1>1. IngestTypeOK /\ StageFits(r) /\ at[r] = "save"
  BY DEF IngestInv, InsertLap, Step
<1>2. body[r] \in LapMsg /\ v \in Vehicles /\ l \in Laps /\ body[r].samples \in Nat
  BY <1>1, BodyFits DEF StageFits, LapMsg
<1>3. /\ row \in LapRow /\ row.time = time[r] /\ row.samples = body[r].samples
      /\ row.time \in {0, LapTime[v][l]} /\ (body[r].time # 0 => row.time # 0)
  BY <1>1, <1>2 DEF LapRow, IngestTypeOK, StageFits
<1>4. lapRows[v][l] = NoRow /\ lapRows' = [lapRows EXCEPT ![v] = [lapRows[v] EXCEPT ![l] = row]]
  BY DEF InsertLap, InUse
<1> HIDE DEF row
<1>5. /\ lapRows' \in [Vehicles -> [Laps -> LapRow \cup {NoRow}]]
      /\ \A u \in Vehicles, k \in Laps : lapRows'[u][k] = IF u = v /\ k = l THEN row ELSE lapRows[u][k]
  BY <1>1, <1>2, <1>3, <1>4 DEF IngestTypeOK
<1>6. /\ Step(r, "save", "done") /\ Reply(r, "ok") /\ UNCHANGED <<histories, body, memory, clobbered>>
  BY DEF InsertLap
<1>7. body[r].samples =< row.samples /\ v = body[r].vehicle /\ l = body[r].lap
  BY <1>2, <1>3
<1>8. /\ UNCHANGED <<histories, body, memory>>
      /\ clobbered \subseteq clobbered' /\ clobbered' \subseteq clobbered \cup {"lap"}
      /\ "lap" \notin clobbered' => body[r].samples =< row.samples
      /\ row.samples = body[r].samples \/ (lapRows[v][l] # NoRow /\ row.samples = lapRows[v][l].samples)
      /\ lapRows[v][l] # NoRow =>
            /\ lapRows[v][l].time # 0 => row.time # 0
            /\ "lap" \notin clobbered' => lapRows[v][l].samples =< row.samples
  BY <1>3, <1>4, <1>6, <1>7
<1> HIDE DEF v, l
<1> QED
  BY <1>1, <1>3, <1>5, <1>6, <1>7, <1>8, StoringLap

\* An update brings what the row did not have, and is noted if it may take samples away.
LEMMA Updating ==
  ASSUME IngestInv, NEW r \in Requests, UpdateLap(r)
  PROVE  IngestInv' /\ StoresMore
<1> DEFINE v   == body[r].vehicle
           l   == body[r].lap
           old == MyLap(r)
           cur == lapRows[v][l]
           row == [time    |-> IF NewTime(r) = old.time THEN cur.time ELSE NewTime(r),
                   samples |-> IF NewSamples(r) = old.samples THEN cur.samples ELSE NewSamples(r)]
<1>1. IngestTypeOK /\ StageFits(r) /\ at[r] = "save" /\ old # NoRow
  BY DEF IngestInv, UpdateLap, Step
<1>2. body[r] \in LapMsg /\ v \in Vehicles /\ l \in Laps /\ body[r].samples \in Nat
  BY <1>1, BodyFits DEF StageFits, LapMsg
<1>3. old \in LapRow /\ Kept(old, v, l)
  BY <1>1, <1>2 DEF IngestTypeOK, MyLap, IngestInv, Loaded
<1>4. cur \in LapRow /\ cur # NoRow /\ cur.time \in {0, LapTime[v][l]}
  BY <1>1, <1>2, <1>3 DEF Kept, IngestTypeOK, IngestInv, StoredLap
<1>5. /\ NewTime(r) = IF old.time = 0 THEN time[r] ELSE old.time
      /\ NewSamples(r) = IF old.samples >= body[r].samples THEN old.samples ELSE body[r].samples
      /\ old.samples \in Nat /\ cur.samples \in Nat /\ time[r] \in Nat
  BY <1>1, <1>2, <1>3, <1>4, LargestOfTwo DEF NewTime, NewSamples, LapRow, IngestTypeOK
<1>6. /\ lapRows' = [lapRows EXCEPT ![v] = [lapRows[v] EXCEPT ![l] = row]]
      /\ clobbered' = IF old.samples \in {NewSamples(r), cur.samples} THEN clobbered ELSE clobbered \cup {"lap"}
      /\ \E a \in {"updated", "duplicate"} : Reply(r, a)
      /\ Step(r, "save", "done") /\ UNCHANGED <<histories, body, memory>>
  BY DEF UpdateLap
<1>7. row.time = (IF NewTime(r) = old.time THEN cur.time ELSE NewTime(r))
      /\ row.samples = (IF NewSamples(r) = old.samples THEN cur.samples ELSE NewSamples(r))
  OBVIOUS
<1>8. /\ time[r] \in {0, LapTime[v][l]} /\ (body[r].time # 0 => time[r] # 0)
      /\ old.time # 0 => cur.time # 0
      /\ "lap" \notin clobbered => old.samples =< cur.samples
  BY <1>1, <1>2, <1>3 DEF StageFits, LapMsg, Kept
<1>9. row \in LapRow
  BY <1>2, <1>4, <1>5 DEF LapRow
<1> HIDE DEF row, old
<1>10. /\ lapRows' \in [Vehicles -> [Laps -> LapRow \cup {NoRow}]]
       /\ \A u \in Vehicles, k \in Laps : lapRows'[u][k] = IF u = v /\ k = l THEN row ELSE lapRows[u][k]
  BY <1>1, <1>2, <1>6, <1>9 DEF IngestTypeOK
<1>11. /\ row.time \in {0, LapTime[v][l]} /\ (body[r].time # 0 => row.time # 0)
       /\ cur.time # 0 => row.time # 0
  BY <1>4, <1>5, <1>7, <1>8
<1>12. /\ clobbered \subseteq clobbered' /\ clobbered' \subseteq clobbered \cup {"lap"}
       /\ "lap" \notin clobbered' => /\ old.samples \in {NewSamples(r), cur.samples}
                                     /\ old.samples =< cur.samples
  BY <1>6, <1>8
<1>13. /\ row.samples = body[r].samples \/ (cur # NoRow /\ row.samples = cur.samples)
       /\ "lap" \notin clobbered' => body[r].samples =< row.samples /\ cur.samples =< row.samples
  BY <1>2, <1>4, <1>5, <1>7, <1>12
<1>14. PICK a \in {"updated", "duplicate"} : Reply(r, a)
  BY <1>6
<1>15. /\ v = body[r].vehicle /\ l = body[r].lap /\ cur = lapRows[v][l]
       /\ UNCHANGED <<histories, body, memory>> /\ Step(r, "save", "done")
  BY <1>6
<1> HIDE DEF v, l, cur
<1> QED
  BY <1>1, <1>9, <1>10, <1>11, <1>12, <1>13, <1>14, <1>15, StoringLap

\* What a commit stores of a history is of the body and of what was there or was loaded; it
\* covers both the body and what was there, unless it is noted.
LEMMA MergedRow ==
  ASSUME IngestInv, NEW r \in Requests, body[r].kind = "history", ~Conflict(r), NEW v \in VehiclesOf(r)
  PROVE  /\ StoredRow(r, v) \in History
         /\ \A l \in Laps : StoredRow(r, v).laps[l] # NoRow =>
               /\ \E x : /\ x # NoRow /\ x.time = StoredRow(r, v).laps[l].time
                         /\ x = body[r].rows[v].laps[l] \/ Comes(x, v, l)
               /\ \E x : /\ x # NoRow /\ x.sector = StoredRow(r, v).laps[l].sector
                         /\ x = body[r].rows[v].laps[l] \/ Comes(x, v, l)
         /\ "history" \notin clobbered /\ ~Clobbers(r, v) => \A l \in Laps :
               /\ Covers(body[r].rows[v].laps[l], StoredRow(r, v).laps[l])
               /\ histories[v] # NoRow => Covers(histories[v].laps[l], StoredRow(r, v).laps[l])
<1> DEFINE row == body[r].rows[v]
           old == loadedHist[r][v]
           new == MergeRow(old, row)
           now == histories[v]
<1>1. IngestTypeOK /\ v \in Vehicles /\ row \in History /\ row # NoRow /\ Loaded(r, v) /\ StoredHistory(v)
  BY BodyFits DEF IngestInv, VehiclesOf
<1>2. old \in History \cup {NoRow} /\ now \in History \cup {NoRow}
  BY <1>1 DEF IngestTypeOK
<1>3. \A h \in History : h.best \in Nat /\ h.laps \in [Laps -> HistoryLap \cup {NoRow}]
  BY DEF History
<1>4. \A x : Covers(x, x)
  BY DEF Covers
<1>5. CASE old = NoRow
  <2>1. StoredRow(r, v) = row
    BY <1>5 DEF StoredRow
  <2>2. now = NoRow
    BY <1>1, <1>5 DEF Conflict
  <2> HIDE DEF row
  <2> QED
    BY <1>1, <1>4, <2>1, <2>2 DEF row
<1>6. CASE old # NoRow
  <2>1. /\ old \in History /\ now \in History /\ now # NoRow
        /\ \A l \in Laps : InHistory(old.laps[l], v, l) /\ Comes(old.laps[l], v, l) /\ Comes(now.laps[l], v, l)
    BY <1>1, <1>2, <1>6 DEF Loaded, StoredHistory
  <2>2. /\ new.best = First(row.best, old.best)
        /\ new.laps = [l \in Laps |-> MergeLap(old.laps[l], row.laps[l])]
    BY DEF MergeRow
  <2>3. \A l \in Laps : /\ old.laps[l] \in HistoryLap \cup {NoRow} /\ row.laps[l] \in HistoryLap \cup {NoRow}
                        /\ new.laps[l] = MergeLap(old.laps[l], row.laps[l])
    BY <1>1, <1>3, <2>1, <2>2
  <2>4. new.best \in Nat /\ new.laps \in [Laps -> HistoryLap \cup {NoRow}]
    BY <1>1, <1>3, <2>1, <2>2, <2>3, MergeCovers DEF First
  <2>5. /\ StoredRow(r, v).best = IF new.best = old.best THEN now.best ELSE new.best
        /\ StoredRow(r, v).laps = IF new.laps = old.laps THEN now.laps ELSE new.laps
        /\ StoredRow(r, v) = [best |-> StoredRow(r, v).best, laps |-> StoredRow(r, v).laps]
    BY <1>6 DEF StoredRow
  <2>6. StoredRow(r, v) \in History
    BY <1>3, <2>1, <2>4, <2>5 DEF History
  <2> HIDE DEF row, old, new, now
  <2>7. ASSUME NEW l \in Laps
        PROVE  /\ Covers(old.laps[l], new.laps[l]) /\ Covers(row.laps[l], new.laps[l])
               /\ new.laps[l] # NoRow =>
                     /\ \E x \in {old.laps[l], row.laps[l]} : x # NoRow /\ new.laps[l].time = x.time
                     /\ \E x \in {old.laps[l], row.laps[l]} : x # NoRow /\ new.laps[l].sector = x.sector
    BY <2>3, MergeCovers
  <2>8. ASSUME NEW l \in Laps, StoredRow(r, v).laps[l] # NoRow
        PROVE  /\ \E x : /\ x # NoRow /\ x.time = StoredRow(r, v).laps[l].time
                         /\ x = row.laps[l] \/ Comes(x, v, l)
               /\ \E x : /\ x # NoRow /\ x.sector = StoredRow(r, v).laps[l].sector
                         /\ x = row.laps[l] \/ Comes(x, v, l)
    <3>1. CASE new.laps = old.laps
      BY <2>1, <2>5, <2>8, <3>1
    <3>2. CASE new.laps # old.laps
      BY <2>1, <2>5, <2>7, <2>8, <3>2
    <3> QED
      BY <3>1, <3>2
  <2>9. ASSUME "history" \notin clobbered, ~Clobbers(r, v), NEW l \in Laps
        PROVE  Covers(row.laps[l], StoredRow(r, v).laps[l]) /\ Covers(now.laps[l], StoredRow(r, v).laps[l])
    <3>1. Covers(old.laps[l], now.laps[l])
      BY <2>1, <2>9 DEF InHistory, now
    <3>2. CASE new.laps = old.laps
      BY <1>4, <2>5, <2>7, <3>1, <3>2, CoversTransitive
    <3>3. CASE new.laps # old.laps
      <4>1. StoredRow(r, v).laps = new.laps /\ (new.laps = now.laps \/ old.laps = now.laps)
        BY <1>6, <2>5, <2>9, <3>3 DEF Clobbers, old, now
      <4> QED
        BY <1>4, <2>7, <4>1
    <3> QED
      BY <3>2, <3>3
  <2> QED
    BY <2>1, <2>6, <2>8, <2>9 DEF row, now
<1> QED
  BY <1>5, <1>6

\* A commit gives laps without a time the time of the history, and changes nothing else of them.
LEMMA BackfilledRow ==
  ASSUME IngestInv, NEW r \in Requests, body[r].kind = "history", NEW v \in VehiclesOf(r), NEW l \in Laps
  PROVE  /\ Backfilled(r, v, l) \in LapRow \cup {NoRow}
         /\ lapRows[v][l] = NoRow => Backfilled(r, v, l) = NoRow
         /\ lapRows[v][l] # NoRow =>
               /\ Backfilled(r, v, l) # NoRow
               /\ Backfilled(r, v, l).samples = lapRows[v][l].samples
               /\ Backfilled(r, v, l).time \in {lapRows[v][l].time, LapTime[v][l]}
<1> DEFINE row == loadedLaps[r][v][l]
           new == body[r].rows[v].laps[l]
<1>1. IngestTypeOK /\ v \in Vehicles /\ body[r].rows[v] \in History /\ Loaded(r, v) /\ TimesTrue(body[r])
  BY BodyFits DEF IngestInv, VehiclesOf, StageFits
<1>2. lapRows[v][l] \in LapRow \cup {NoRow}
  BY <1>1 DEF IngestTypeOK
<1>3. CASE row # NoRow /\ row.time = 0 /\ new # NoRow /\ new.time # 0
  <2>1. lapRows[v][l] # NoRow
    BY <1>1, <1>3 DEF Loaded, Kept
  <2>2. new.time = LapTime[v][l] /\ LapTime[v][l] \in Nat
    BY <1>1, <1>3, IngestAssumption DEF TimesTrue, VehiclesOf
  <2>3. Backfilled(r, v, l) = [lapRows[v][l] EXCEPT !.time = new.time]
    BY <1>3 DEF Backfilled
  <2>4. lapRows[v][l] \in LapRow
    BY <1>2, <2>1
  <2>5. /\ Backfilled(r, v, l) \in LapRow /\ Backfilled(r, v, l).time = LapTime[v][l]
        /\ Backfilled(r, v, l).samples = lapRows[v][l].samples
    BY <2>2, <2>3, <2>4 DEF LapRow
  <2> QED
    BY <2>1, <2>5, IngestAssumption
<1>4. CASE ~(row # NoRow /\ row.time = 0 /\ new # NoRow /\ new.time # 0)
  <2>1. Backfilled(r, v, l) = lapRows[v][l]
    BY <1>4 DEF Backfilled
  <2> QED
    BY <1>2, <2>1
<1> QED
  BY <1>3, <1>4

\* The commit of a history request keeps the invariant and every better row.
LEMMA Committing ==
  ASSUME IngestInv, NEW r \in Requests, CommitHistory(r)
  PROVE  IngestInv' /\ StoresMore
<1>1. IngestTypeOK /\ StageFits(r) /\ at[r] = "row" /\ body[r].kind = "history"
  BY DEF IngestInv, CommitHistory, Step, StageFits
<1>2. VehiclesOf(r) \subseteq Vehicles /\ ~Conflict(r)
  BY <1>1, BodyFits DEF CommitHistory
<1>3. /\ Step(r, "row", "done") /\ Reply(r, "ok") /\ UNCHANGED <<body, memory>>
      /\ histories' = [v \in Vehicles |-> IF v \in VehiclesOf(r) THEN StoredRow(r, v) ELSE histories[v]]
      /\ lapRows' = [v \in Vehicles |-> [l \in Laps |->
                        IF v \in VehiclesOf(r) THEN Backfilled(r, v, l) ELSE lapRows[v][l]]]
      /\ clobbered' = clobbered \cup (IF \E v \in VehiclesOf(r) : Clobbers(r, v) THEN {"history"} ELSE {})
  BY DEF CommitHistory
<1>4. /\ at'[r] = "done" /\ \A e \in Requests \ {r} : at'[e] = at[e]
      /\ at' \in [Requests -> {"new", "lap", "save", "row", "backfill", "done"}]
  BY <1>1, <1>3, Moved
<1>5. /\ answer' \in [Requests -> Answers] /\ answer'[r] = "ok"
      /\ \A e \in Requests \ {r} : answer'[e] = answer[e]
  BY <1>1, <1>3, Replied DEF Answers
<1>6. \A v \in Vehicles, l \in Laps :
        lapRows'[v][l] = IF v \in VehiclesOf(r) THEN Backfilled(r, v, l) ELSE lapRows[v][l]
  BY <1>3
<1>7. \A v \in Vehicles : histories'[v] = IF v \in VehiclesOf(r) THEN StoredRow(r, v) ELSE histories[v]
  BY <1>3
<1>8. ASSUME NEW v \in VehiclesOf(r) PROVE StoredRow(r, v) \in History
  BY <1>1, <1>2, <1>8, MergedRow
<1>9. IngestTypeOK'
  <2>1. ASSUME NEW v \in Vehicles, NEW l \in Laps PROVE lapRows'[v][l] \in LapRow \cup {NoRow}
    <3>1. CASE v \in VehiclesOf(r)
      BY <1>1, <1>6, <3>1, BackfilledRow
    <3>2. CASE v \notin VehiclesOf(r)
      BY <1>1, <1>6, <3>2 DEF IngestTypeOK
    <3> QED
      BY <3>1, <3>2
  <2>2. lapRows' \in [Vehicles -> [Laps -> LapRow \cup {NoRow}]]
    BY <1>3, <2>1
  <2>3. histories' \in [Vehicles -> History \cup {NoRow}]
    BY <1>1, <1>3, <1>7, <1>8 DEF IngestTypeOK
  <2>4. clobbered' \subseteq {"lap", "history"}
    BY <1>1, <1>3 DEF IngestTypeOK
  <2> QED
    BY <1>1, <1>3, <1>4, <1>5, <2>2, <2>3, <2>4 DEF IngestTypeOK, memory
<1>10. Taken("history")' = Taken("history") \cup {r} /\ Taken("lap")' = Taken("lap")
  <2>1. \A k : Taken(k)' = Taken(k) \cup
            {e \in {r} : answer'[r] \in {"ok", "updated", "duplicate"} /\ body[r].kind = k}
    BY <1>1, <1>3, <1>5, <1>9, Answering
  <2> QED
    BY <1>1, <1>5, <2>1
<1>11. StageFits(r)'
  BY <1>1, <1>3, <1>4 DEF StageFits, TimesTrue, memory
<1>12. \A x : Covers(x, x)
  BY DEF Covers
<1>13. ASSUME NEW v \in VehiclesOf(r), "history" \notin clobbered', NEW l \in Laps
       PROVE  /\ Covers(body[r].rows[v].laps[l], StoredRow(r, v).laps[l])
              /\ histories[v] # NoRow => Covers(histories[v].laps[l], StoredRow(r, v).laps[l])
  <2>1. "history" \notin clobbered /\ ~Clobbers(r, v)
    BY <1>3, <1>13
  <2> QED
    BY <1>1, <1>2, <2>1, MergedRow
<1>14. StoresMore
  <2>1. ASSUME NEW v \in Vehicles, NEW l \in Laps, lapRows[v][l] # NoRow
        PROVE  /\ lapRows'[v][l] # NoRow
               /\ lapRows[v][l].time # 0 => lapRows'[v][l].time # 0
               /\ lapRows[v][l].samples =< lapRows'[v][l].samples
    <3>1. lapRows[v][l].samples \in Nat /\ LapTime[v][l] # 0
      BY <1>1, <2>1, IngestAssumption DEF IngestTypeOK, LapRow
    <3> QED
      BY <1>1, <1>6, <2>1, <3>1, BackfilledRow
  <2>2. ASSUME NEW v \in Vehicles, histories[v] # NoRow
        PROVE  /\ histories'[v] # NoRow
               /\ "history" \notin clobbered' =>
                     \A l \in Laps : Covers(histories[v].laps[l], histories'[v].laps[l])
    BY <1>7, <1>8, <1>12, <1>13, <2>2, IngestAssumption
  <2> QED
    BY <1>3, <1>10, <2>1, <2>2 DEF StoresMore
<1>15. ASSUME NEW v \in Vehicles, NEW l \in Laps PROVE StoredLap(v, l)'
  <2>1. LapsTaken(v, l)' = LapsTaken(v, l)
    BY <1>3, <1>10 DEF LapsTaken
  <2>2. ASSUME lapRows'[v][l] # NoRow
        PROVE  /\ lapRows'[v][l].time \in {0, LapTime[v][l]}
               /\ \E e \in LapsTaken(v, l) : body[e].samples = lapRows'[v][l].samples
    <3>1. lapRows[v][l] # NoRow
      BY <1>1, <1>6, <2>2, BackfilledRow
    <3>2. lapRows'[v][l].samples = lapRows[v][l].samples /\ lapRows'[v][l].time \in {lapRows[v][l].time, LapTime[v][l]}
      BY <1>1, <1>6, <3>1, BackfilledRow
    <3> QED
      BY <3>1, <3>2 DEF IngestInv, StoredLap
  <2>3. ASSUME NEW e \in LapsTaken(v, l) PROVE Kept(body[e], v, l)'
    <3>1. e \in Requests /\ body[e].kind = "lap" /\ Kept(body[e], v, l)
      BY DEF LapsTaken, Taken, IngestInv, StoredLap
    <3>2. body[e].samples \in Nat
      BY <3>1, BodyFits DEF LapMsg
    <3>3. \A x : x.samples \in Nat /\ Kept(x, v, l) => Kept(x, v, l)'
      BY <1>9, <1>14, MoreIsKept
    <3> QED
      BY <1>3, <3>1, <3>2, <3>3 DEF Kept
  <2> QED
    BY <1>3, <2>1, <2>2, <2>3 DEF StoredLap
<1>16. ASSUME NEW v \in Vehicles PROVE StoredHistory(v)'
  <2>1. \A e : VehiclesOf(e)' = VehiclesOf(e)
    BY <1>3 DEF VehiclesOf
  <2>2. \A x : \A l \in Laps : Comes(x, v, l) => Comes(x, v, l)'
    BY <1>9, <1>14, MoreIsKept
  <2>3. \A l \in Laps : v \in VehiclesOf(r) /\ body[r].rows[v].laps[l] # NoRow => r \in HistoryTaken(v, l)'
    BY <1>3, <1>10, <2>1 DEF HistoryTaken
  <2>4. ASSUME histories'[v] # NoRow, NEW l \in Laps PROVE Comes(histories[v].laps[l], v, l)'
    <3>1. CASE v \in VehiclesOf(r)
      <4>1. histories'[v] = StoredRow(r, v)
        BY <1>7, <3>1
      <4>2. ASSUME StoredRow(r, v).laps[l] # NoRow
            PROVE  /\ \E e \in HistoryTaken(v, l)' :
                         body'[e].rows[v].laps[l].time = StoredRow(r, v).laps[l].time
                   /\ \E e \in HistoryTaken(v, l)' :
                         body'[e].rows[v].laps[l].sector = StoredRow(r, v).laps[l].sector
        <5>1. PICK x : /\ x # NoRow /\ x.time = StoredRow(r, v).laps[l].time
                       /\ x = body[r].rows[v].laps[l] \/ Comes(x, v, l)
          BY <1>1, <1>2, <3>1, <4>2, MergedRow
        <5>2. PICK y : /\ y # NoRow /\ y.sector = StoredRow(r, v).laps[l].sector
                       /\ y = body[r].rows[v].laps[l] \/ Comes(y, v, l)
          BY <1>1, <1>2, <3>1, <4>2, MergedRow
        <5>3. \E e \in HistoryTaken(v, l)' : body'[e].rows[v].laps[l].time = x.time
          <6>1. CASE x = body[r].rows[v].laps[l]
            BY <1>3, <2>3, <3>1, <5>1, <6>1
          <6>2. CASE Comes(x, v, l)
            BY <2>2, <5>1, <6>2 DEF Comes
          <6> QED
            BY <5>1, <6>1, <6>2
        <5>4. \E e \in HistoryTaken(v, l)' : body'[e].rows[v].laps[l].sector = y.sector
          <6>1. CASE y = body[r].rows[v].laps[l]
            BY <1>3, <2>3, <3>1, <5>2, <6>1
          <6>2. CASE Comes(y, v, l)
            BY <2>2, <5>2, <6>2 DEF Comes
          <6> QED
            BY <5>2, <6>1, <6>2
        <5> QED
          BY <5>1, <5>2, <5>3, <5>4
      <4> QED
        BY <4>1, <4>2 DEF Comes
    <3>2. CASE v \notin VehiclesOf(r)
      <4>1. histories'[v] = histories[v] /\ Comes(histories[v].laps[l], v, l)
        BY <1>7, <2>4, <3>2 DEF IngestInv, StoredHistory
      <4>2. PICK x : x = histories[v].laps[l]
        OBVIOUS
      <4>3. Comes(x, v, l)
        BY <4>1, <4>2
      <4>4. Comes(x, v, l)'
        BY <2>2, <4>3
      <4> QED
        BY <4>1, <4>2, <4>4 DEF Comes
    <3> QED
      BY <3>1, <3>2
  <2>5. ASSUME NEW e \in Taken("history")', v \in VehiclesOf(e)
        PROVE  /\ histories'[v] # NoRow
               /\ \A l \in Laps : InHistory(body[e].rows[v].laps[l], v, l)'
    <3>1. CASE e = r
      BY <1>3, <1>7, <1>8, <1>13, <2>5, <3>1, IngestAssumption DEF InHistory
    <3>2. CASE e # r
      <4>1. e \in Taken("history")
        BY <1>10, <2>5, <3>2
      <4>2. histories[v] # NoRow /\ \A l \in Laps : InHistory(body[e].rows[v].laps[l], v, l)
        BY <2>5, <4>1 DEF IngestInv, StoredHistory
      <4>3. \A x : \A l \in Laps : InHistory(x, v, l) => InHistory(x, v, l)'
        BY <1>9, <1>14, <4>2, MoreIsKept
      <4> QED
        BY <1>3, <1>14, <4>2, <4>3 DEF StoresMore, InHistory
    <3> QED
      BY <3>1, <3>2
  <2> QED
    BY <1>3, <2>1, <2>4, <2>5 DEF StoredHistory
<1> QED
  BY <1>3, <1>4, <1>5, <1>9, <1>11, <1>14, <1>15, <1>16, StepKeeps DEF memory

-----------------------------------------------------------------------------
\* Every step keeps the invariant and loses nothing a row had.
LEMMA IngestStep ==
  ASSUME IngestInv, [IngestNext]_ingestVars
  PROVE  IngestInv' /\ (StoresMore \/ lapRows' = lapRows)
<1>1. CASE UNCHANGED ingestVars
  <2> USE <1>1 DEF ingestVars, stored, memory
  <2>1. IngestTypeOK'
    BY DEF IngestInv, IngestTypeOK
  <2>2. (\A r \in Requests : StageFits(r)') /\ \A k : Taken(k)' = Taken(k)
    BY DEF IngestInv, StageFits, TimesTrue, Taken
  <2>3. /\ \A v \in Vehicles, l \in Laps : /\ LapsTaken(v, l)' = LapsTaken(v, l)
                                           /\ HistoryTaken(v, l)' = HistoryTaken(v, l)
        /\ \A e : VehiclesOf(e)' = VehiclesOf(e)
    BY <2>2 DEF LapsTaken, HistoryTaken, VehiclesOf
  <2>4. \A r \in Requests, v \in Vehicles : Loaded(r, v)'
    BY <2>3 DEF IngestInv, Loaded, Kept, InHistory, Comes
  <2>5. \A v \in Vehicles, l \in Laps : StoredLap(v, l)'
    BY <2>3 DEF IngestInv, StoredLap, Kept
  <2>6. \A v \in Vehicles : StoredHistory(v)'
    BY <2>2, <2>3 DEF IngestInv, StoredHistory, Comes, InHistory
  <2> QED
    BY <2>1, <2>2, <2>4, <2>5, <2>6 DEF IngestInv
<1>2. ASSUME NEW r \in Requests,
             \/ Skip(r) \/ ReadHistory(r) \/ ReadLap(r) \/ InsertLapFails(r) \/ BeginHistory(r)
             \/ ReadRow(r) \/ ReadLaps(r) \/ RetryHistory(r) \/ HistoryFails(r)
      PROVE  IngestInv' /\ lapRows' = lapRows
  <2>1. lapRows' = lapRows
    BY <1>2 DEF Skip, ReadHistory, ReadLap, InsertLapFails, BeginHistory, ReadRow, ReadLaps,
                RetryHistory, HistoryFails, stored
  <2> QED
    BY <1>2, <2>1, Reading
<1>3. ASSUME NEW r \in Requests, InsertLap(r) PROVE IngestInv' /\ StoresMore
  BY <1>3, Inserting
<1>4. ASSUME NEW r \in Requests, UpdateLap(r) PROVE IngestInv' /\ StoresMore
  BY <1>4, Updating
<1>5. ASSUME NEW r \in Requests, CommitHistory(r) PROVE IngestInv' /\ StoresMore
  BY <1>5, Committing
<1> QED
  BY <1>1, <1>2, <1>3, <1>4, <1>5 DEF IngestNext

\* The invariant says that what is stored is the union of what was accepted.
LEMMA InvariantIsUnion ==
  ASSUME IngestInv PROVE MergedWhatCame
<1> SUFFICES ASSUME NEW v \in Vehicles, NEW l \in Laps
             PROVE  /\ lapRows[v][l] # NoRow <=> LapsTaken(v, l) # {}
                    /\ "lap" \notin clobbered /\ lapRows[v][l] # NoRow =>
                           lapRows[v][l].samples = Max({body[r].samples : r \in LapsTaken(v, l)})
                    /\ "history" \notin clobbered /\ HistoryTaken(v, l) # {} =>
                           LET lap == histories[v].laps[l]
                               Part(p) == {body[r].rows[v].laps[l][p] : r \in HistoryTaken(v, l)}
                           IN  lap # NoRow /\ lap.time \in Part("time") /\ lap.sector \in Part("sector")
                               /\ (lap.time = 0 => Part("time") = {0}) /\ (lap.sector = 0 => Part("sector") = {0})
  BY DEF MergedWhatCame
<1>1. StoredLap(v, l) /\ StoredHistory(v) /\ IngestTypeOK
  BY DEF IngestInv
<1>2. lapRows[v][l] # NoRow <=> LapsTaken(v, l) # {}
  BY <1>1 DEF StoredLap, Kept
<1>3. ASSUME "lap" \notin clobbered, lapRows[v][l] # NoRow
      PROVE  lapRows[v][l].samples = Max({body[r].samples : r \in LapsTaken(v, l)})
  <2> DEFINE S == {body[r].samples : r \in LapsTaken(v, l)}
  <2>1. \A r \in LapsTaken(v, l) : body[r] \in LapMsg
    BY BodyFits DEF LapsTaken, Taken
  <2>2. S \in SUBSET Nat
    BY <2>1 DEF LapMsg
  <2>3. lapRows[v][l].samples \in S
    BY <1>1, <1>3 DEF StoredLap
  <2>4. \A b \in S : b =< lapRows[v][l].samples
    BY <1>1, <1>3 DEF StoredLap, Kept
  <2> HIDE DEF S
  <2>5. lapRows[v][l].samples = Max(S)
    BY <2>2, <2>3, <2>4, Largest
  <2> QED
    BY <2>5 DEF S
<1>4. ASSUME "history" \notin clobbered, NEW r \in HistoryTaken(v, l)
      PROVE  LET lap == histories[v].laps[l]
                 Part(p) == {body[e].rows[v].laps[l][p] : e \in HistoryTaken(v, l)}
             IN  lap # NoRow /\ lap.time \in Part("time") /\ lap.sector \in Part("sector")
                 /\ (lap.time = 0 => Part("time") = {0}) /\ (lap.sector = 0 => Part("sector") = {0})
  <2> DEFINE lap == histories[v].laps[l]
  <2>1. ASSUME NEW e \in HistoryTaken(v, l)
        PROVE  Covers(body[e].rows[v].laps[l], lap) /\ body[e].rows[v].laps[l] # NoRow /\ histories[v] # NoRow
    BY <1>1, <1>4 DEF StoredHistory, HistoryTaken, InHistory
  <2>2. lap # NoRow /\ Comes(lap, v, l)
    BY <1>1, <2>1 DEF Covers, StoredHistory
  <2>3. PICK e \in HistoryTaken(v, l) : body[e].rows[v].laps[l].time = lap.time
    BY <2>2 DEF Comes
  <2>4. PICK f \in HistoryTaken(v, l) : body[f].rows[v].laps[l].sector = lap.sector
    BY <2>2 DEF Comes
  <2>5. \A x \in HistoryTaken(v, l) : /\ lap.time = 0 => body[x].rows[v].laps[l].time = 0
                                      /\ lap.sector = 0 => body[x].rows[v].laps[l].sector = 0
    BY <2>1 DEF Covers
  <2> HIDE DEF lap
  <2>6. lap.time \in {body[x].rows[v].laps[l].time : x \in HistoryTaken(v, l)}
    BY <2>3
  <2>7. lap.sector \in {body[x].rows[v].laps[l].sector : x \in HistoryTaken(v, l)}
    BY <2>4
  <2>8. lap.time = 0 => {body[x].rows[v].laps[l].time : x \in HistoryTaken(v, l)} = {0}
    BY <2>5
  <2>9. lap.sector = 0 => {body[x].rows[v].laps[l].sector : x \in HistoryTaken(v, l)} = {0}
    BY <2>5
  <2> QED
    BY <2>2, <2>6, <2>7, <2>8, <2>9 DEF lap
<1> QED
  BY <1>2, <1>3, <1>4

\* It says that a time that any request carried is found.
LEMMA InvariantFindsTimes ==
  ASSUME IngestInv PROVE TimesFound
<1> SUFFICES ASSUME "history" \notin clobbered, NEW v \in Vehicles, NEW l \in Laps,
                    lapRows[v][l] # NoRow, Timed(v, l)
             PROVE  EffectiveTime(lapRows[v][l].time, histories[v], l) = LapTime[v][l]
  BY DEF TimesFound
<1>1. lapRows[v][l].time \in {0, LapTime[v][l]} /\ StoredLap(v, l) /\ StoredHistory(v)
  BY DEF IngestInv, StoredLap
<1>2. CASE lapRows[v][l].time # 0
  BY <1>1, <1>2 DEF EffectiveTime
<1>3. CASE lapRows[v][l].time = 0
  <2>1. PICK r \in HistoryTaken(v, l) : body[r].rows[v].laps[l].time # 0
    BY <1>1, <1>3 DEF Timed, StoredLap, Kept
  <2>2. /\ histories[v] # NoRow /\ Covers(body[r].rows[v].laps[l], histories[v].laps[l])
        /\ body[r].rows[v].laps[l] # NoRow
    BY <1>1, <2>1 DEF StoredHistory, HistoryTaken, InHistory
  <2>3. histories[v].laps[l] # NoRow /\ histories[v].laps[l].time # 0
    BY <2>1, <2>2 DEF Covers
  <2>4. histories[v].laps[l].time \in {0, LapTime[v][l]}
    BY <1>1, <2>2, <2>3, ComesTrue DEF StoredHistory
  <2> QED
    BY <1>3, <2>2, <2>3, <2>4 DEF EffectiveTime
<1> QED
  BY <1>2, <1>3

\* For any number of requests, in any order, interleaved in any way: what is stored is the
\* union of what was accepted, unless an update wrote over a changed row.
THEOREM StoredIsUnion == IngestSpec => []IngestSound
<1>1. IngestInv => IngestSound
  BY InvariantIsUnion, InvariantFindsTimes DEF IngestInv, IngestSound
<1>2. IngestInv /\ [IngestNext]_ingestVars => IngestInv'
  BY IngestStep
<1> QED
  BY <1>1, <1>2, IngestBegin, PTL DEF IngestSpec

\* No commit takes away a lap row or the time of one, whoever else commits meanwhile.
THEOREM TimesAreKept == IngestSpec => LapTimesKept
<1> DEFINE RowsKept == \A v \in Vehicles, l \in Laps : lapRows[v][l] # NoRow =>
                         /\ lapRows'[v][l] # NoRow
                         /\ lapRows[v][l].time # 0 => lapRows'[v][l].time = lapRows[v][l].time
<1>1. IngestInv /\ [IngestNext]_ingestVars => IngestInv' /\ RowsKept
  <2> SUFFICES ASSUME IngestInv, [IngestNext]_ingestVars PROVE IngestInv' /\ RowsKept
    OBVIOUS
  <2>1. IngestInv' /\ (StoresMore \/ lapRows' = lapRows)
    BY IngestStep
  <2>2. ASSUME NEW v \in Vehicles, NEW l \in Laps
        PROVE  /\ lapRows[v][l] # NoRow => lapRows[v][l].time \in {0, LapTime[v][l]}
               /\ lapRows'[v][l] # NoRow => lapRows'[v][l].time \in {0, LapTime[v][l]}
    BY <2>1 DEF IngestInv, StoredLap
  <2>3. CASE StoresMore
    BY <2>1, <2>2, <2>3 DEF StoresMore
  <2>4. CASE lapRows' = lapRows
    BY <2>1, <2>4
  <2> QED
    BY <2>1, <2>3, <2>4
<1>2. IngestInv /\ [IngestNext]_ingestVars => [RowsKept]_ingestVars
  BY <1>1
<1> HIDE DEF RowsKept
<1>3. IngestSpec => [][RowsKept]_ingestVars
  BY <1>1, <1>2, IngestBegin, PTL DEF IngestSpec
<1> QED
  BY <1>3 DEF LapTimesKept, RowsKept

-----------------------------------------------------------------------------
(* LiveHub.                                                                *)

\* A broadcast that is under way, and a connection that is.
Active(l) == cast[l] # NoCast
Open(c)   == socket[c[1]] = c[2]
Broadcast == [kind : MessageKinds \cup {"none"}, number : Nat, next : Nat, dead : SUBSET Connections,
              owed : SUBSET Connections, left : Nat]
Handling  == {"none", "accepting", "greeting", "reading", "ended"}

\* The types of all that the hub, its agents and its pages keep.
HubShape ==
    /\ load \in Loads
    /\ outbox \in [HubAgents -> Seq(MessageKinds)]
    /\ link \in [Links -> {"none", "up", "down"}] /\ late \in [Links -> Seq(MessageKinds)]
    /\ heard \in Numbers /\ disk \in Numbers /\ total \in Numbers
    /\ clients \in Seq(Connections)
    /\ cast \in [Links -> Broadcast]
    /\ \A l \in Links : Active(l) => cast[l].kind \in MessageKinds /\ cast[l].next >= 1
    /\ handler \in [Connections -> Handling]
    /\ socket \in [Viewers -> 0..MaxConnections]
    /\ greeting \in [Viewers -> Nat]
    /\ got \in [Viewers -> Numbers]
    /\ page \in [Viewers -> Nat]
    /\ polls \in [Viewers -> Seq(Nat)]
    /\ hubRestarts \in 0..load.restarts /\ atOnce \in Nat
    /\ crossed \in BOOLEAN /\ backwards \in BOOLEAN

\* The hub knows the newest message of a kind or, after a restart, none.
HubKnows ==
    /\ \A k \in MessageKinds : heard[k] \in {0, total[k]}
    /\ \A k \in MessageKinds : disk[k] = total[k] \/ (hubRestarts > 0 /\ disk[k] = 0)
    /\ hubRestarts = 0 => heard = total

\* A broadcast is of a message received.
CastsReal == \A l \in Links : Active(l) => cast[l].number <= total[cast[l].kind]

\* Nothing is shown, or on its way to a page, that was not received.
PagesBehind ==
    \A v \in Viewers : /\ page[v] <= total["status"]
                       /\ greeting[v] <= total["live"]
                       /\ \A k \in MessageKinds : got[v][k] <= total[k]
                       /\ polls[v] \in Seq(0..total["status"])

\* A broadcast that is alone is of the newest message.
CastAlone ==
    /\ backwards => crossed
    /\ ~crossed => \A k, l \in Links : Active(k) /\ Active(l) => k = l
    /\ ~crossed => \A l \in Links : Active(l) => cast[l].number = total[cast[l].kind]

\* No connection is listed twice, and none that is listed or owed a message will be listed yet.
OneEach(s) == \A i, j \in DOMAIN s : s[i] = s[j] => i = j
Come(c)    == handler[c] \notin {"none", "accepting"}
ListedOnce ==
    /\ OneEach(clients) /\ \A c \in ToSet(clients) : Come(c)
    /\ \A l \in Links : \A c \in cast[l].owed : Come(c)

\* Whom a broadcast has passed without sending to, it has passed because others left.
SkipsCounted ==
    \A l \in Links : Cardinality(cast[l].owed \cap Passed(clients, cast[l].next)) <= cast[l].left

\* Who awaits the accept has found room, at a moment when no more than atOnce awaited it.
RoomKept ==
    /\ IsFiniteSet(Accepting) /\ Cardinality(Accepting) <= atOnce
    /\ Len(clients) + Cardinality(Accepting) < MaxClients + atOnce

HubInv == /\ HubShape /\ HubKnows /\ CastsReal /\ PagesBehind /\ CastAlone
          /\ ListedOnce /\ SkipsCounted /\ RoomKept

\* Induction over naturals, for a set of them.
LEMMA Counting ==
  ASSUME NEW G, 0 \in G, \A n \in Nat : n \in G => n + 1 \in G
  PROVE  \A n \in Nat : n \in G
<1> DEFINE Bad == {n \in Nat : n \notin G}
<1> SUFFICES ASSUME Bad # {} PROVE FALSE
  OBVIOUS
<1>1. PICK n \in Bad : \A m \in Bad : <<m, n>> \notin OpToRel(<, Nat)
  <2> HIDE DEF Bad
  <2>1. Bad \subseteq Nat
    BY DEF Bad
  <2> QED BY <2>1, WFMin, NatLessThanWellFounded
<1>2. n \in Nat /\ n # 0 /\ n - 1 \in Nat
  OBVIOUS
<1>3. n - 1 \in Bad
  BY <1>2, (n - 1) + 1 = n
<1>4. <<n - 1, n>> \in OpToRel(<, Nat)
  BY <1>2 DEF OpToRel
<1> QED BY <1>1, <1>3, <1>4

\* The steps that leave a list without what has gone.
LeftAt(s, gone, f, i) == IF i = 0 THEN <<>> ELSE IF s[i] \in gone THEN f[i - 1] ELSE Append(f[i - 1], s[i])
IsLeft(s, gone, n, f) == f = [i \in 0..n |-> LeftAt(s, gone, f, i)]

\* There is such a sequence of steps, however long the list.
LEMMA LeftExists ==
  ASSUME NEW s, NEW gone
  PROVE  \A n \in Nat : \E f : IsLeft(s, gone, n, f)
<1> DEFINE G == {n \in Nat : \E f : IsLeft(s, gone, n, f)}
<1>1. 0 \in G
  <2> DEFINE f == [i \in 0..0 |-> <<>>]
  <2>1. IsLeft(s, gone, 0, f)
    BY DEF IsLeft, LeftAt
  <2> QED BY <2>1
<1>2. ASSUME NEW n \in Nat, n \in G PROVE n + 1 \in G
  <2>1. PICK f : IsLeft(s, gone, n, f)
    BY <1>2
  <2> DEFINE g == [i \in 0..(n + 1) |-> IF i <= n THEN f[i] ELSE LeftAt(s, gone, f, i)]
  <2>2. ASSUME NEW i \in 0..(n + 1) PROVE g[i] = LeftAt(s, gone, g, i)
    <3>1. i # 0 => g[i - 1] = f[i - 1]
      OBVIOUS
    <3>2. LeftAt(s, gone, g, i) = LeftAt(s, gone, f, i)
      BY <3>1 DEF LeftAt
    <3>3. i <= n => f[i] = LeftAt(s, gone, f, i)
      BY <2>1 DEF IsLeft
    <3> QED BY <3>2, <3>3
  <2>3. IsLeft(s, gone, n + 1, g)
    BY <2>2 DEF IsLeft
  <2> QED BY <2>3
<1> HIDE DEF G
<1>3. \A n \in Nat : n \in G
  BY <1>1, <1>2, Counting
<1> QED BY <1>3 DEF G

\* And it is what Without is computed by.
LEMMA WithoutIs ==
  ASSUME NEW S, NEW s \in Seq(S), NEW gone
  PROVE  \E f : IsLeft(s, gone, Len(s), f) /\ Without(s, gone) = f[Len(s)]
<1> DEFINE f == CHOOSE f : IsLeft(s, gone, Len(s), f)
<1>1. IsLeft(s, gone, Len(s), f)
  BY LeftExists, LenProperties
<1>2. Without(s, gone) = f[Len(s)]
  BY DEF Without, IsLeft, LeftAt
<1> HIDE DEF f
<1> QED BY <1>1, <1>2

\* What is left of a list is a list, not longer, and the list itself if nothing of it has gone.
\* What is left of a list is a list of what has not gone, each no farther back than it was.
LEMMA WithoutLeaves ==
  ASSUME NEW S, NEW s \in Seq(S), NEW gone
  PROVE  /\ Without(s, gone) \in Seq(S)
         /\ Len(Without(s, gone)) <= Len(s)
         /\ \A j \in DOMAIN Without(s, gone) : Without(s, gone)[j] \in ToSet(s) \ gone
         /\ \A k \in DOMAIN s : s[k] \notin gone =>
               \E j \in DOMAIN Without(s, gone) : j <= k /\ Without(s, gone)[j] = s[k]
         /\ OneEach(s) => OneEach(Without(s, gone))
<1>1. PICK f : IsLeft(s, gone, Len(s), f) /\ Without(s, gone) = f[Len(s)]
  BY WithoutIs
<1> DEFINE KeptTo(n) ==
             /\ f[n] \in Seq(S) /\ Len(f[n]) <= n
             /\ \A j \in 1..Len(f[n]) : \E k \in 1..n : s[k] \notin gone /\ f[n][j] = s[k]
             /\ \A k \in 1..n : s[k] \notin gone => \E j \in 1..Len(f[n]) : j <= k /\ f[n][j] = s[k]
             /\ OneEach(s) => \A i, j \in 1..Len(f[n]) : f[n][i] = f[n][j] => i = j
           G == {n \in Nat : n <= Len(s) => KeptTo(n)}
<1>2. Len(s) \in Nat /\ DOMAIN s = 1..Len(s)
  BY LenProperties
<1>3. \A n \in 0..Len(s) : f[n] = LeftAt(s, gone, f, n)
  BY <1>1, <1>2 DEF IsLeft
<1>4. 0 \in G
  <2>1. f[0] = <<>> /\ <<>> \in Seq(S) /\ Len(<<>>) = 0
    BY <1>2, <1>3, EmptySeq DEF LeftAt
  <2>2. \A i \in 1..0 : FALSE
    OBVIOUS
  <2>3. KeptTo(0)
    BY <2>1, <2>2
  <2> QED BY <2>3
<1>5. ASSUME NEW n \in Nat, n \in G PROVE n + 1 \in G
  <2> SUFFICES ASSUME n + 1 <= Len(s) PROVE KeptTo(n + 1)
    OBVIOUS
  <2>1. KeptTo(n) /\ Len(f[n]) \in Nat
    BY <1>2, <1>5, LenProperties
  <2>2. n + 1 \in DOMAIN s /\ s[n + 1] \in S
    BY <1>2, ElementOfSeq
  <2>3. CASE s[n + 1] \in gone
    <3>1. f[n + 1] = f[n]
      BY <1>2, <1>3, <2>3 DEF LeftAt
    <3>2. ASSUME NEW k \in 1..(n + 1), s[k] \notin gone PROVE k \in 1..n
      BY <2>3, <3>2
    <3>3. \A k \in 1..n : k \in 1..(n + 1)
      OBVIOUS
    <3> QED BY <2>1, <3>1, <3>2, <3>3
  <2>4. CASE s[n + 1] \notin gone
    <3> DEFINE m == Len(f[n]) + 1
    <3>1. f[n + 1] = Append(f[n], s[n + 1])
      <4>1. f[n + 1] = LeftAt(s, gone, f, n + 1) /\ n + 1 # 0 /\ (n + 1) - 1 = n
        BY <1>2, <1>3
      <4> QED BY <4>1, <2>4 DEF LeftAt
    <3>2. /\ f[n + 1] \in Seq(S) /\ Len(f[n + 1]) = m
          /\ \A i \in 1..Len(f[n]) : f[n + 1][i] = f[n][i]
          /\ f[n + 1][m] = s[n + 1]
      BY <2>1, <2>2, <3>1, AppendProperties
    <3>3. m \in Nat /\ m <= n + 1 /\ \A j \in 1..m : j = m \/ j \in 1..Len(f[n])
      BY <2>1
    <3>4. m \in 1..m /\ 1..Len(f[n]) \subseteq 1..m /\ 1..n \subseteq 1..(n + 1) /\ m \notin 1..Len(f[n])
          /\ \A k \in 1..(n + 1) : k = n + 1 \/ k \in 1..n
      BY <2>1
    <3> HIDE DEF m
    <3>5. \A j \in 1..m : \E k \in 1..(n + 1) : s[k] \notin gone /\ f[n + 1][j] = s[k]
      <4>1. \A j \in 1..Len(f[n]) : \E k \in 1..(n + 1) : s[k] \notin gone /\ f[n + 1][j] = s[k]
        BY <2>1, <3>2, <3>4
      <4>2. n + 1 \in 1..(n + 1) /\ s[n + 1] \notin gone /\ f[n + 1][m] = s[n + 1]
        BY <2>4, <3>2
      <4> QED BY <3>3, <4>1, <4>2
    <3>6. \A k \in 1..(n + 1) : s[k] \notin gone => \E j \in 1..m : j <= k /\ f[n + 1][j] = s[k]
      BY <2>1, <3>2, <3>3, <3>4
    <3>7. ASSUME OneEach(s) PROVE \A i, j \in 1..m : f[n + 1][i] = f[n + 1][j] => i = j
      <4>1. \A i \in 1..Len(f[n]) : f[n + 1][i] # f[n + 1][m]
        <5>1. ASSUME NEW i \in 1..Len(f[n]) PROVE f[n][i] # s[n + 1]
          <6>1. PICK k \in 1..n : f[n][i] = s[k]
            BY <2>1
          <6>2. k # n + 1 /\ k \in DOMAIN s
            BY <1>2
          <6> QED BY <2>2, <3>7, <6>1, <6>2 DEF OneEach
        <5> QED BY <3>2, <5>1
      <4>2. \A i, j \in 1..Len(f[n]) : f[n + 1][i] = f[n + 1][j] => i = j
        BY <2>1, <3>2, <3>7
      <4> QED BY <3>3, <4>1, <4>2
    <3> QED BY <3>2, <3>3, <3>5, <3>6, <3>7
  <2> QED BY <2>3, <2>4
<1>6. \A n \in Nat : n \in G
  <2> HIDE DEF G
  <2> QED BY <1>4, <1>5, Counting
<1>7. KeptTo(Len(s))
  <2>1. Len(s) \in G
    BY <1>2, <1>6
  <2>2. Len(s) <= Len(s)
    BY <1>2
  <2> QED BY <2>1, <2>2
<1> DEFINE w == f[Len(s)]
<1>8. /\ w \in Seq(S) /\ Len(w) <= Len(s) /\ DOMAIN w = 1..Len(w)
      /\ \A j \in 1..Len(w) : \E k \in 1..Len(s) : s[k] \notin gone /\ w[j] = s[k]
      /\ \A k \in 1..Len(s) : s[k] \notin gone => \E j \in 1..Len(w) : j <= k /\ w[j] = s[k]
      /\ OneEach(s) => \A i, j \in 1..Len(w) : w[i] = w[j] => i = j
  BY <1>7, LenProperties
<1>9. Without(s, gone) = w
  BY <1>1
<1> HIDE DEF w
<1>10. \A j \in DOMAIN w : w[j] \in ToSet(s) \ gone
  BY <1>2, <1>8 DEF ToSet
<1>11. OneEach(s) => OneEach(w)
  BY <1>8 DEF OneEach
<1> QED BY <1>2, <1>8, <1>9, <1>10, <1>11

\* A broadcast has passed as many clients as it has gone places.
LEMMA PassedAre ==
  ASSUME NEW S, NEW s \in Seq(S), NEW next \in Nat
  PROVE  /\ IsFiniteSet(Passed(s, next)) /\ Cardinality(Passed(s, next)) \in Nat
         /\ Passed(s, next) \subseteq ToSet(s)
         /\ next \in 1..(Len(s) + 1) => Cardinality(Passed(s, next)) <= next - 1
         /\ next \in 1..(Len(s) + 1) /\ OneEach(s) => Cardinality(Passed(s, next)) = next - 1
         /\ next > Len(s) => Passed(s, next) = ToSet(s)
<1>1. Len(s) \in Nat /\ DOMAIN s = 1..Len(s)
  BY LenProperties
<1> DEFINE J == {j \in DOMAIN s : j < next}
           f == [j \in J |-> s[j]]
<1>2. J \subseteq 1..Len(s) /\ IsFiniteSet(1..Len(s))
  BY <1>1, FS_Interval
<1>3. IsFiniteSet(J)
  BY <1>2, FS_Subset
<1>4. f \in Surjection(J, Passed(s, next))
  BY DEF Surjection, Passed
<1>5. /\ IsFiniteSet(Passed(s, next)) /\ Cardinality(Passed(s, next)) <= Cardinality(J)
      /\ Cardinality(Passed(s, next)) = Cardinality(J) <=> f \in Injection(J, Passed(s, next))
  <2> HIDE DEF J, f
  <2> QED BY <1>3, <1>4, FS_Surjection
<1>6. ASSUME next \in 1..(Len(s) + 1) PROVE Cardinality(J) = next - 1
  <2>1. J = 1..(next - 1)
    BY <1>1, <1>6
  <2>2. Cardinality(1..(next - 1)) = next - 1
    BY <1>6, FS_Interval
  <2> QED BY <2>1, <2>2
<1>7. OneEach(s) => f \in Injection(J, Passed(s, next))
  BY DEF OneEach, Injection, IsInjective, Passed
<1>8. Passed(s, next) \subseteq ToSet(s) /\ (next > Len(s) => Passed(s, next) = ToSet(s))
  BY <1>1 DEF Passed, ToSet
<1>9. Cardinality(Passed(s, next)) \in Nat
  BY <1>5, FS_CardinalityType
<1> HIDE DEF J, f
<1> QED BY <1>5, <1>6, <1>7, <1>8, <1>9

\* Who leaves from places passed brings as many others there, at most.
LEMMA MovedUp ==
  ASSUME NEW S, NEW s \in Seq(S), OneEach(s), NEW gone, NEW next \in Nat
  PROVE  /\ IsFiniteSet(gone \cap Passed(s, next)) /\ Cardinality(gone \cap Passed(s, next)) \in Nat
         /\ IsFiniteSet(Passed(Without(s, gone), next) \ Passed(s, next))
         /\ Cardinality(Passed(Without(s, gone), next) \ Passed(s, next)) <= Cardinality(gone \cap Passed(s, next))
<1> DEFINE w == Without(s, gone)
           P == Passed(s, next)
           Q == Passed(w, next)
           K == P \ gone
<1>1. /\ w \in Seq(S) /\ Len(w) <= Len(s) /\ \A j \in DOMAIN w : w[j] \in ToSet(s) \ gone
      /\ \A k \in DOMAIN s : s[k] \notin gone => \E j \in DOMAIN w : j <= k /\ w[j] = s[k]
  BY WithoutLeaves
<1>2. Len(w) \in Nat /\ Len(s) \in Nat /\ DOMAIN s = 1..Len(s) /\ DOMAIN w = 1..Len(w)
  BY <1>1, LenProperties
<1> HIDE DEF w
<1>3. IsFiniteSet(P) /\ IsFiniteSet(Q) /\ Cardinality(P) \in Nat /\ Cardinality(Q) \in Nat
  BY <1>1, PassedAre
<1>4. K \subseteq Q
  <2>1. ASSUME NEW k \in DOMAIN s, k < next, s[k] \notin gone PROVE s[k] \in Q
    <3>1. PICK j \in DOMAIN w : j <= k /\ w[j] = s[k]
      BY <1>1, <2>1
    <3>2. j < next
      BY <1>2, <2>1, <3>1
    <3> QED BY <3>1, <3>2 DEF Passed
  <2> QED BY <2>1 DEF Passed
<1>5. Q \subseteq ToSet(s) /\ Q \cap gone = {}
  BY <1>1 DEF Passed
<1>6. gone \cap P = P \cap gone /\ P \ K = gone \cap P /\ Q \ P = Q \ K /\ Q \cap K = K
  BY <1>4, <1>5
<1>7. /\ IsFiniteSet(gone \cap P) /\ Cardinality(gone \cap P) \in Nat
      /\ IsFiniteSet(K) /\ Cardinality(K) = Cardinality(P) - Cardinality(gone \cap P)
  <2>1. gone \cap P \in SUBSET P
    OBVIOUS
  <2>2. IsFiniteSet(gone \cap P)
    BY <1>3, <2>1, FS_Subset
  <2>3. IsFiniteSet(P \ gone) /\ Cardinality(P \ gone) = Cardinality(P) - Cardinality(P \cap gone)
    BY <1>3, FS_Difference
  <2> QED BY <1>6, <2>2, <2>3, FS_CardinalityType
<1>8. IsFiniteSet(Q \ P) /\ Cardinality(Q \ P) = Cardinality(Q) - Cardinality(K)
  <2>1. IsFiniteSet(Q \ K) /\ Cardinality(Q \ K) = Cardinality(Q) - Cardinality(Q \cap K)
    BY <1>3, FS_Difference
  <2> QED BY <1>6, <2>1
<1>9. Cardinality(Q \ P) <= Cardinality(gone \cap P)
  <2>1. CASE next = 0
    <3>1. P = {} /\ Q = {}
      BY <1>2, <2>1 DEF Passed
    <3>2. Q \ P = {}
      BY <3>1
    <3>3. Cardinality(Q \ P) = 0
      BY <3>2, FS_EmptySet
    <3> QED BY <1>7, <3>3
  <2>2. CASE next > Len(s)
    <3>1. P = ToSet(s)
      BY <2>2, PassedAre
    <3>2. Q \ P = {}
      BY <1>5, <3>1
    <3>3. Cardinality(Q \ P) = 0
      BY <3>2, FS_EmptySet
    <3> QED BY <1>7, <3>3
  <2>3. CASE next \in 1..Len(s)
    <3>1. next \in 1..(Len(s) + 1)
      BY <1>2, <2>3
    <3>2. Cardinality(P) = next - 1
      BY <3>1, PassedAre
    <3>3. Cardinality(Q) <= next - 1
      <4>1. CASE next \in 1..(Len(w) + 1)
        BY <1>1, <4>1, PassedAre
      <4>2. CASE next \notin 1..(Len(w) + 1)
        <5>1. next > Len(w) /\ next > Len(w) + 1 /\ Len(w) + 1 \in 1..(Len(w) + 1)
          BY <1>2, <2>3, <4>2
        <5>2. Q = Passed(w, Len(w) + 1)
          BY <1>2, <5>1 DEF Passed
        <5>3. Cardinality(Q) <= (Len(w) + 1) - 1
          BY <1>1, <1>2, <5>1, <5>2, PassedAre
        <5> QED BY <1>2, <1>3, <5>1, <5>3
      <4> QED BY <4>1, <4>2
    <3> QED BY <1>3, <1>7, <1>8, <2>3, <3>2, <3>3
  <2> QED BY <1>2, <2>1, <2>2, <2>3
<1> QED BY <1>7, <1>8, <1>9 DEF w

\* A subset of no more is of no more.
LEMMA NoMore ==
  ASSUME NEW T, IsFiniteSet(T), NEW S \in SUBSET T, NEW n \in Nat, Cardinality(T) <= n
  PROVE  IsFiniteSet(S) /\ Cardinality(S) <= n
<1>1. IsFiniteSet(S) /\ Cardinality(S) <= Cardinality(T) /\ Cardinality(T) \in Nat
  BY FS_Subset, FS_CardinalityType
<1>2. Cardinality(S) \in Nat
  BY <1>1, FS_CardinalityType
<1> QED BY <1>1, <1>2

\* So a broadcast has passed no more unsent than have left the list from there.
LEMMA SkipsGrow ==
  ASSUME NEW S, NEW s \in Seq(S), OneEach(s), NEW gone, NEW next \in Nat, NEW owed, NEW n \in Nat,
         Cardinality(owed \cap Passed(s, next)) <= n
  PROVE  /\ n + Cardinality(gone \cap Passed(s, next)) \in Nat
         /\ Cardinality(owed \cap Passed(Without(s, gone), next)) <= n + Cardinality(gone \cap Passed(s, next))
<1> DEFINE A == owed \cap Passed(s, next)
           B == Passed(Without(s, gone), next) \ Passed(s, next)
           m == Cardinality(gone \cap Passed(s, next))
<1>1. IsFiniteSet(B) /\ Cardinality(B) <= m /\ m \in Nat
  BY MovedUp
<1>2. IsFiniteSet(A)
  <2>1. IsFiniteSet(Passed(s, next)) /\ A \in SUBSET Passed(s, next)
    BY PassedAre
  <2> QED BY <2>1, FS_Subset
<1>3. A \cap B = {} /\ owed \cap Passed(Without(s, gone), next) \subseteq A \cup B
  OBVIOUS
<1>4. Cardinality(A) <= n
  OBVIOUS
<1> HIDE DEF A, B, m
<1>5. Cardinality(A) \in Nat /\ Cardinality(B) \in Nat
  BY <1>1, <1>2, FS_CardinalityType
<1>6. IsFiniteSet(A \cup B) /\ Cardinality(A \cup B) = Cardinality(A) + Cardinality(B) - Cardinality(A \cap B)
  BY <1>1, <1>2, FS_Union
<1>7. Cardinality(A \cup B) <= n + m
  <2>1. Cardinality(A \cap B) = 0
    BY <1>3, FS_EmptySet
  <2> QED BY <1>1, <1>4, <1>5, <1>6, <2>1
<1>8. Cardinality(owed \cap Passed(Without(s, gone), next)) <= n + m
  BY <1>1, <1>3, <1>6, <1>7, NoMore
<1> QED BY <1>1, <1>8 DEF m

\* An answer taken out of those in flight leaves the others.
LEMMA PollTaken ==
  ASSUME NEW S, NEW s \in Seq(S), NEW i \in DOMAIN s
  PROVE  RemoveAt(s, i) \in Seq(S)
<1>1. Len(s) \in Nat /\ i \in 1..Len(s)
  BY LenProperties
<1>2. \A k \in 1..(i - 1) : k \in 1..Len(s)
  BY <1>1
<1>3. \A k \in (i + 1)..Len(s) : k \in 1..Len(s)
  BY <1>1
<1>4. SubSeq(s, 1, i - 1) \in Seq(S)
  BY <1>1, <1>2, SubSeqProperties
<1>5. SubSeq(s, i + 1, Len(s)) \in Seq(S)
  BY <1>1, <1>3, SubSeqProperties
<1> QED BY <1>4, <1>5, ConcatProperties DEF RemoveAt

\* A broadcast of the hub's is not the absent one.
LEMMA KindOfNone == /\ NoCast \in Broadcast /\ NoCast.kind \notin MessageKinds /\ NoneYet \in Numbers
                    /\ NoCast.owed = {} /\ NoCast.next = 0 /\ NoCast.left = 0
BY DEF NoCast, Broadcast, NoneYet, Numbers, MessageKinds

\* Nothing received, nobody connected.
LEMMA HubBegins == HubInit => HubInv
<1> SUFFICES ASSUME HubInit PROVE HubInv
  OBVIOUS
<1> USE DEF HubInit
<1>1. \A l \in Links : ~Active(l)
  BY DEF Active
<1>2. HubShape
  <2>1. 0 \in 0..load.restarts /\ 0 \in 0..MaxConnections
    BY HubAssumption DEF AnyLoad
  <2>2. <<>> \in Seq(MessageKinds) /\ <<>> \in Seq(Connections) /\ <<>> \in Seq(Nat)
    BY EmptySeq
  <2>3. handler \in [Connections -> Handling]
    BY DEF Handling
  <2> QED BY <1>1, <2>1, <2>2, <2>3, KindOfNone DEF HubShape
<1>3. HubKnows
  BY DEF HubKnows, NoneYet
<1>4. PagesBehind
  <2>1. <<>> \in Seq(0..0)
    BY EmptySeq
  <2> QED BY <2>1 DEF PagesBehind, NoneYet, MessageKinds
<1>5. CastsReal
  BY <1>1 DEF CastsReal
<1>6. CastAlone
  BY <1>1 DEF CastAlone
<1>7. ListedOnce
  <2>1. DOMAIN <<>> = {}
    OBVIOUS
  <2>2. OneEach(clients) /\ ToSet(clients) = {}
    BY <2>1 DEF OneEach, ToSet
  <2> QED BY <2>2, KindOfNone DEF ListedOnce
<1>8. SkipsCounted
  <2>1. ASSUME NEW l \in Links PROVE cast[l].owed \cap Passed(clients, cast[l].next) = {} /\ cast[l].left = 0
    BY KindOfNone
  <2>2. Cardinality({}) = 0
    BY FS_EmptySet
  <2>3. ASSUME NEW l \in Links
        PROVE  Cardinality(cast[l].owed \cap Passed(clients, cast[l].next)) <= cast[l].left
    <3>1. Cardinality(cast[l].owed \cap Passed(clients, cast[l].next)) = 0
      BY <2>1, <2>2
    <3> QED BY <2>1, <3>1
  <2> QED BY <2>3 DEF SkipsCounted
<1>9. RoomKept
  <2>1. Accepting = {}
    BY DEF Accepting
  <2>2. Cardinality(Accepting) = 0 /\ IsFiniteSet(Accepting)
    BY <2>1, FS_EmptySet
  <2>3. Len(clients) = 0
    OBVIOUS
  <2> QED BY <2>2, <2>3, HubAssumption DEF RoomKept
<1> QED BY <1>2, <1>3, <1>4, <1>5, <1>6, <1>7, <1>8, <1>9 DEF HubInv

\* The steps of the agents' side.
LEMMA ShapeOfAgents ==
  ASSUME HubShape,
         \/ \E l \in Links : LinkUp(l) \/ \E arrived, lost \in 0..MaxQueue : LinkDown(l, arrived, lost)
         \/ \E a \in HubAgents, kind \in MessageKinds : Enqueue(a, kind)
  PROVE  HubShape'
<1>1. ASSUME NEW l \in Links, LinkUp(l) PROVE HubShape'
  <2>1. link' \in [Links -> {"none", "up", "down"}]
    BY <1>1 DEF LinkUp, HubShape
  <2> QED BY <1>1, <2>1 DEF HubShape, LinkUp, hubSide, pageSide, Active
<1>2. ASSUME NEW a \in HubAgents, NEW kind \in MessageKinds, Enqueue(a, kind) PROVE HubShape'
  <2>1. Append(outbox[a], kind) \in Seq(MessageKinds)
    BY AppendProperties DEF HubShape
  <2>2. outbox' \in [HubAgents -> Seq(MessageKinds)]
    BY <1>2, <2>1 DEF HubShape, Enqueue
  <2> QED BY <1>2, <2>2 DEF HubShape, Enqueue, hubSide, pageSide, Active
<1>3. ASSUME NEW l \in Links, NEW arrived \in 0..MaxQueue, NEW lost \in 0..MaxQueue, LinkDown(l, arrived, lost)
      PROVE  HubShape'
  <2> DEFINE waiting == outbox[l[1]]
  <2>1. /\ link' = [link EXCEPT ![l] = "down"]
        /\ arrived + lost <= Len(waiting)
        /\ late' = [late EXCEPT ![l] = SubSeq(waiting, 1, arrived)]
        /\ outbox' = [outbox EXCEPT ![l[1]] = SubSeq(waiting, arrived + lost + 1, Len(waiting))]
        /\ UNCHANGED <<load, hubSide, pageSide>>
    BY <1>3 DEF LinkDown
  <2>2. l[1] \in HubAgents
    BY DEF Links
  <2>3. waiting \in Seq(MessageKinds)
    BY <2>2 DEF HubShape
  <2> HIDE DEF waiting
  <2>4. Len(waiting) \in Nat /\ \A i \in 1..Len(waiting) : waiting[i] \in MessageKinds
    BY <2>3, LenProperties, ElementOfSeq
  <2>5. SubSeq(waiting, 1, arrived) \in Seq(MessageKinds)
    <3>1. \A i \in 1..arrived : waiting[i] \in MessageKinds
      BY <2>1, <2>4, HubAssumption
    <3>2. 1 \in Int /\ arrived \in Int
      BY HubAssumption
    <3> QED BY <3>1, <3>2, SubSeqProperties
  <2>6. SubSeq(waiting, arrived + lost + 1, Len(waiting)) \in Seq(MessageKinds)
    <3>1. \A i \in (arrived + lost + 1)..Len(waiting) : waiting[i] \in MessageKinds
      BY <2>4, HubAssumption
    <3>2. arrived + lost + 1 \in Int /\ Len(waiting) \in Int
      BY <2>4, HubAssumption
    <3> QED BY <3>1, <3>2, SubSeqProperties
  <2>7. /\ link' \in [Links -> {"none", "up", "down"}] /\ late' \in [Links -> Seq(MessageKinds)]
        /\ outbox' \in [HubAgents -> Seq(MessageKinds)]
    BY <2>1, <2>2, <2>5, <2>6 DEF HubShape
  <2> QED BY <2>1, <2>7 DEF HubShape, hubSide, pageSide, Active
<1> QED BY <1>1, <1>2, <1>3

\* What a message that comes in does.
LEMMA Received ==
  ASSUME HubShape, NEW l \in Links, NEW kind \in MessageKinds, Receive(l, kind)
  PROVE  /\ total[kind] \in Nat /\ cast[l] = NoCast
         /\ total' \in Numbers /\ heard' \in Numbers /\ disk' \in Numbers
         /\ \A k \in MessageKinds : total'[k] = IF k = kind THEN total[kind] + 1 ELSE total[k]
         /\ \A k \in MessageKinds : heard'[k] = IF k = kind THEN total[kind] + 1 ELSE heard[k]
         /\ \A k \in MessageKinds : disk'[k] = IF k = kind THEN total[kind] + 1 ELSE heard[k]
         /\ cast' \in [Links -> Broadcast]
         /\ cast'[l].kind = kind /\ cast'[l].number = total[kind] + 1 /\ cast'[l].next = 1
         /\ cast'[l].owed = ToSet(clients) /\ cast'[l].left = 0
         /\ \A k \in Links \ {l} : cast'[k] = cast[k]
         /\ crossed' = (crossed \/ \E k \in Links \ {l} : Active(k))
         /\ UNCHANGED <<load, link, pageSide, hubRestarts>>
<1> DEFINE begun == [kind |-> kind, number |-> total[kind] + 1, next |-> 1, dead |-> {},
                     owed |-> ToSet(clients), left |-> 0]
<1>1. /\ total' = [total EXCEPT ![kind] = @ + 1]
      /\ heard' = [heard EXCEPT ![kind] = total[kind] + 1]
      /\ disk' = [heard EXCEPT ![kind] = total[kind] + 1]
      /\ cast' = [cast EXCEPT ![l] = begun]
      /\ cast[l] = NoCast
      /\ crossed' = (crossed \/ \E k \in Links \ {l} : cast[k] # NoCast)
      /\ UNCHANGED <<load, link, pageSide, hubRestarts>>
  BY DEF Receive, RecordHeard
<1>2. total[kind] \in Nat
  BY DEF HubShape, Numbers
<1>3. ToSet(clients) \subseteq Connections
  BY ElementOfSeq, LenProperties DEF HubShape, ToSet
<1>4. /\ begun \in Broadcast /\ begun.kind = kind /\ begun.number = total[kind] + 1 /\ begun.next = 1
      /\ begun.owed = ToSet(clients) /\ begun.left = 0
  BY <1>2, <1>3 DEF Broadcast
<1> HIDE DEF begun
<1>5. /\ total' \in Numbers /\ heard' \in Numbers /\ disk' \in Numbers
      /\ \A k \in MessageKinds : total'[k] = IF k = kind THEN total[kind] + 1 ELSE total[k]
      /\ \A k \in MessageKinds : heard'[k] = IF k = kind THEN total[kind] + 1 ELSE heard[k]
      /\ \A k \in MessageKinds : disk'[k] = IF k = kind THEN total[kind] + 1 ELSE heard[k]
  BY <1>1, <1>2 DEF HubShape, Numbers
<1>6. cast' \in [Links -> Broadcast] /\ cast'[l] = begun /\ \A k \in Links \ {l} : cast'[k] = cast[k]
  BY <1>1, <1>4 DEF HubShape
<1> QED BY <1>1, <1>2, <1>4, <1>5, <1>6 DEF Active

\* A message is read off a link that is up, or late.
LEMMA HeardKind ==
  ASSUME HubShape, NEW l \in Links, Hear(l) \/ HearLate(l)
  PROVE  /\ \E kind \in MessageKinds : Receive(l, kind)
         /\ outbox' \in [HubAgents -> Seq(MessageKinds)] /\ late' \in [Links -> Seq(MessageKinds)]
<1>1. CASE Hear(l)
  <2>1. l[1] \in HubAgents
    BY DEF Links
  <2>2. outbox[l[1]] \in Seq(MessageKinds) /\ outbox[l[1]] # <<>>
    BY <1>1, <2>1 DEF Hear, HubShape
  <2>3. Head(outbox[l[1]]) \in MessageKinds /\ Tail(outbox[l[1]]) \in Seq(MessageKinds)
    BY <2>2, HeadTailProperties
  <2> QED BY <1>1, <2>1, <2>3 DEF Hear, HubShape
<1>2. CASE HearLate(l)
  <2>1. late[l] \in Seq(MessageKinds) /\ late[l] # <<>>
    BY <1>2 DEF HearLate, HubShape
  <2>2. Head(late[l]) \in MessageKinds /\ Tail(late[l]) \in Seq(MessageKinds)
    BY <2>1, HeadTailProperties
  <2> QED BY <1>2, <2>2 DEF HearLate, HubShape
<1> QED BY <1>1, <1>2

\* A message comes in: a broadcast begins.
LEMMA ShapeHear ==
  ASSUME HubShape, NEW l \in Links, Hear(l) \/ HearLate(l)
  PROVE  HubShape'
<1>1. PICK kind \in MessageKinds : Receive(l, kind)
  BY HeardKind
<1>2. /\ total' \in Numbers /\ heard' \in Numbers /\ disk' \in Numbers
      /\ cast' \in [Links -> Broadcast]
      /\ outbox' \in [HubAgents -> Seq(MessageKinds)] /\ late' \in [Links -> Seq(MessageKinds)]
      /\ UNCHANGED <<load, link, pageSide, hubRestarts>>
  BY <1>1, Received, HeardKind
<1>3. \A k \in Links : Active(k)' => cast'[k].kind \in MessageKinds /\ cast'[k].next >= 1
  <2>1. cast'[l].kind = kind /\ cast'[l].next = 1 /\ \A k \in Links \ {l} : cast'[k] = cast[k]
    BY <1>1, Received
  <2>2. ASSUME NEW k \in Links, Active(k)' PROVE cast'[k].kind \in MessageKinds /\ cast'[k].next >= 1
    <3>1. CASE k = l
      BY <2>1, <3>1
    <3>2. CASE k # l
      <4>1. cast'[k] = cast[k]
        BY <2>1, <3>2
      <4> QED BY <2>2, <4>1 DEF HubShape, Active
    <3> QED BY <3>1, <3>2
  <2> QED BY <2>2
<1>4. crossed' \in BOOLEAN
  BY <1>1, Received DEF HubShape
<1> QED BY <1>2, <1>3, <1>4 DEF HubShape, pageSide

\* A broadcast goes to the next place.
GoesOn(b, n, o, d) == [b EXCEPT !.next = n, !.owed = o, !.dead = d]

LEMMA CastGoesOn ==
  ASSUME NEW b \in Broadcast, NEW n \in Nat, NEW o \in SUBSET Connections, NEW d \in SUBSET Connections
  PROVE  /\ GoesOn(b, n, o, d) \in Broadcast
         /\ GoesOn(b, n, o, d).kind = b.kind /\ GoesOn(b, n, o, d).number = b.number
         /\ GoesOn(b, n, o, d).left = b.left /\ GoesOn(b, n, o, d).next = n /\ GoesOn(b, n, o, d).owed = o
<1> DEFINE x == [b EXCEPT !.next = n]
           y == [x EXCEPT !.owed = o]
           z == [y EXCEPT !.dead = d]
<1>1. x \in Broadcast /\ x.kind = b.kind /\ x.number = b.number /\ x.left = b.left /\ x.next = n
  BY DEF Broadcast
<1>2. z = GoesOn(b, n, o, d)
  BY DEF GoesOn
<1> HIDE DEF x
<1>3. /\ y \in Broadcast /\ y.kind = x.kind /\ y.number = x.number /\ y.left = x.left
      /\ y.next = x.next /\ y.owed = o
  BY <1>1 DEF Broadcast
<1> HIDE DEF y
<1>4. /\ z \in Broadcast /\ z.kind = y.kind /\ z.number = y.number /\ z.left = y.left
      /\ z.next = y.next /\ z.owed = y.owed
  BY <1>3 DEF Broadcast
<1> HIDE DEF z
<1> QED BY <1>1, <1>2, <1>3, <1>4

\* One send of a broadcast.
LEMMA SendSays ==
  ASSUME HubShape, NEW l \in Links, NEW noticed \in BOOLEAN, CastNext(l, noticed)
  PROVE  \E c \in Connections :
           /\ Active(l) /\ cast[l].next \in 1..Len(clients) /\ c = clients[cast[l].next]
           /\ cast' \in [Links -> Broadcast] /\ \A k \in Links \ {l} : cast'[k] = cast[k]
           /\ cast'[l].kind = cast[l].kind /\ cast'[l].number = cast[l].number /\ cast'[l].left = cast[l].left
           /\ cast'[l].next = cast[l].next + 1 /\ cast'[l].owed = cast[l].owed \ {c}
           /\ \/ Reaches(c[1], cast[l].kind, cast[l].number)
              \/ UNCHANGED <<got, page, backwards>>
<1> DEFINE c == clients[cast[l].next]
           more == IF ~(socket[c[1]] = c[2]) /\ noticed THEN cast[l].dead \cup {c} ELSE cast[l].dead
           b == cast[l]
<1>1. b \in Broadcast /\ Active(l) /\ b.next >= 1 /\ b.next <= Len(clients)
  BY DEF HubShape, CastNext, Active
<1>2. b.next \in 1..Len(clients) /\ c \in Connections
  <2>1. b.next \in 1..Len(clients)
    BY <1>1, LenProperties DEF HubShape, Broadcast
  <2> QED BY <2>1, ElementOfSeq DEF HubShape
<1>3. cast' = [cast EXCEPT ![l] = [b EXCEPT !.next = b.next + 1, !.owed = b.owed \ {c}, !.dead = more]]
  BY DEF CastNext, HubShape
<1>4. more \in SUBSET Connections
  BY <1>1, <1>2, SMTT(30) DEF Broadcast
<1>5. \/ Reaches(c[1], cast[l].kind, cast[l].number)
      \/ UNCHANGED <<got, page, backwards>>
  BY DEF CastNext
<1>6. b = cast[l] /\ c = clients[cast[l].next]
  OBVIOUS
<1> HIDE DEF b, c, more
<1> DEFINE on == [b EXCEPT !.next = b.next + 1, !.owed = b.owed \ {c}, !.dead = more]
<1>7. /\ on \in Broadcast /\ on.kind = b.kind /\ on.number = b.number /\ on.left = b.left
      /\ on.next = b.next + 1 /\ on.owed = b.owed \ {c}
  <2> DEFINE n == b.next + 1
             o == b.owed \ {c}
  <2>1. n \in Nat /\ o \in SUBSET Connections
    BY <1>1 DEF Broadcast
  <2>2. on = GoesOn(b, n, o, more)
    BY DEF GoesOn
  <2>3. b \in Broadcast
    BY <1>1
  <2> HIDE DEF on, n, o
  <2>4. /\ on \in Broadcast /\ on.kind = b.kind /\ on.number = b.number /\ on.left = b.left
        /\ on.next = n /\ on.owed = o
    BY ONLY <1>4, <2>1, <2>2, <2>3, CastGoesOn
  <2> QED BY <2>4 DEF n, o
<1> HIDE DEF on
<1>8. cast' \in [Links -> Broadcast] /\ cast'[l] = on /\ \A k \in Links \ {l} : cast'[k] = cast[k]
  BY <1>3, <1>7, SMTT(30) DEF HubShape, on
<1> QED BY <1>1, <1>2, <1>5, <1>6, <1>7, <1>8

LEMMA ShapeCastNext ==
  ASSUME HubShape, NEW l \in Links, NEW noticed \in BOOLEAN, CastNext(l, noticed)
  PROVE  HubShape'
<1>1. PICK c \in Connections :
        /\ Active(l) /\ cast[l].next \in 1..Len(clients)
        /\ cast' \in [Links -> Broadcast] /\ \A k \in Links \ {l} : cast'[k] = cast[k]
        /\ cast'[l].kind = cast[l].kind /\ cast'[l].next = cast[l].next + 1
        /\ Reaches(c[1], cast[l].kind, cast[l].number) \/ UNCHANGED <<got, page, backwards>>
  BY SendSays
<1>2. \A k \in Links : Active(k)' => cast'[k].kind \in MessageKinds /\ cast'[k].next >= 1
  BY <1>1, SMTT(30) DEF HubShape, Active, Broadcast
<1>3. cast[l].kind \in MessageKinds /\ cast[l].number \in Nat /\ c[1] \in Viewers
  BY <1>1 DEF HubShape, Broadcast, Connections
<1>4. got' \in [Viewers -> Numbers] /\ page' \in [Viewers -> Nat] /\ backwards' \in BOOLEAN
  <2>1. CASE UNCHANGED <<got, page, backwards>>
    BY <2>1 DEF HubShape
  <2>2. CASE Reaches(c[1], cast[l].kind, cast[l].number)
    BY <1>3, <2>2 DEF Reaches, HubShape, Numbers
  <2> QED BY <1>1, <2>1, <2>2
<1> QED BY <1>1, <1>2, <1>4, ZenonT(40) DEF HubShape, CastNext, agentSide

\* What becomes of the list and of the broadcasts when clients leave it.
Moves(k, gone) ==
  /\ cast'[k] \in Broadcast /\ (cast'[k] # NoCast <=> Active(k))
  /\ cast'[k].kind = cast[k].kind /\ cast'[k].number = cast[k].number
  /\ cast'[k].next = cast[k].next /\ cast'[k].owed = cast[k].owed
  /\ cast'[k].left = cast[k].left + Cardinality(gone \cap Passed(clients, cast[k].next))

Leave(gone) ==
  /\ clients' = Without(clients, gone)
  /\ cast' \in [Links -> Broadcast]
  /\ \A k \in Links : cast'[k] = NoCast \/ Moves(k, gone)

LEMMA OthersMove ==
  ASSUME HubShape, ListedOnce, NEW gone, NEW k \in Links,
         cast'[k] = [cast[k] EXCEPT !.left = @ + Cardinality(gone \cap Passed(clients, cast[k].next))]
  PROVE  Moves(k, gone)
<1> DEFINE n == Cardinality(gone \cap Passed(clients, cast[k].next))
           b == [cast[k] EXCEPT !.left = @ + n]
<1>1. cast[k] \in Broadcast /\ cast[k].next \in Nat /\ clients \in Seq(Connections) /\ OneEach(clients)
  BY DEF HubShape, Broadcast, ListedOnce
<1>2. n \in Nat
  BY <1>1, MovedUp
<1>3. ~Active(k) => n = 0
  <2>1. ASSUME ~Active(k) PROVE gone \cap Passed(clients, cast[k].next) = {}
    <3>1. cast[k].next = 0
      BY <2>1, KindOfNone DEF Active
    <3>2. \A j \in DOMAIN clients : j \in Nat
      BY <1>1, LenProperties
    <3>3. Passed(clients, 0) = {}
      BY <3>2 DEF Passed
    <3> QED BY <3>1, <3>3
  <2> QED BY <2>1, FS_EmptySet
<1> HIDE DEF n
<1>4. /\ b \in Broadcast /\ b.kind = cast[k].kind /\ b.number = cast[k].number /\ b.next = cast[k].next
      /\ b.owed = cast[k].owed /\ b.left = cast[k].left + n
  BY <1>1, <1>2, SMTT(30) DEF Broadcast
<1>5. n = 0 => b = cast[k]
  BY <1>1 DEF Broadcast
<1>6. Active(k) => b # NoCast
  BY <1>4, KindOfNone DEF Active, HubShape
<1>7. cast'[k] = b
  BY DEF n
<1> HIDE DEF b
<1> QED BY <1>3, <1>4, <1>5, <1>6, <1>7 DEF n, Active, Moves

\* A broadcast ends, or the handler of a lost connection.
LEMMA GoneLeave ==
  ASSUME HubShape, ListedOnce
  PROVE  /\ \A l \in Links : CastEnds(l) => \E gone \in SUBSET Connections : Leave(gone)
         /\ \A c \in Connections, listed \in BOOLEAN :
               HandlerEnds(c, listed) => Leave({c}) \/ UNCHANGED <<clients, cast>>
<1>1. ASSUME NEW l \in Links, CastEnds(l) PROVE \E gone \in SUBSET Connections : Leave(gone)
  <2> DEFINE gone == cast[l].dead
  <2>1. gone \in SUBSET Connections
    BY DEF HubShape, Broadcast
  <2>2. /\ clients' = Without(clients, gone)
        /\ cast' = [k \in Links |->
              IF k = l THEN NoCast
              ELSE [cast[k] EXCEPT !.left = @ + Cardinality(gone \cap Passed(clients, cast[k].next))]]
    BY <1>1 DEF CastEnds
  <2> HIDE DEF gone
  <2>3. ASSUME NEW k \in Links PROVE cast'[k] = NoCast \/ Moves(k, gone)
    <3>1. CASE k = l
      BY <2>2, <3>1
    <3>2. CASE k # l
      <4>1. cast'[k] = [cast[k] EXCEPT !.left = @ + Cardinality(gone \cap Passed(clients, cast[k].next))]
        BY <2>2, <3>2
      <4> QED BY <4>1, OthersMove
    <3> QED BY <3>1, <3>2
  <2>4. cast' = [k \in Links |-> cast'[k]]
    BY <2>2
  <2>5. cast' \in [Links -> Broadcast]
    BY <2>3, <2>4, KindOfNone DEF Moves
  <2>6. Leave(gone)
    BY <2>2, <2>3, <2>5 DEF Leave
  <2> QED BY <2>1, <2>6
<1>2. ASSUME NEW c \in Connections, DropClients({c}) PROVE Leave({c})
  <2>1. /\ clients' = Without(clients, {c})
        /\ cast' = [k \in Links |->
              [cast[k] EXCEPT !.left = @ + Cardinality({c} \cap Passed(clients, cast[k].next))]]
    BY <1>2 DEF DropClients
  <2>2. ASSUME NEW k \in Links PROVE Moves(k, {c})
    <3>1. cast'[k] = [cast[k] EXCEPT !.left = @ + Cardinality({c} \cap Passed(clients, cast[k].next))]
      BY <2>1
    <3> QED BY <3>1, OthersMove
  <2>3. cast' = [k \in Links |-> cast'[k]]
    BY <2>1
  <2>4. cast' \in [Links -> Broadcast]
    BY <2>2, <2>3 DEF Moves
  <2> QED BY <2>1, <2>2, <2>4 DEF Leave
<1> QED BY <1>1, <1>2 DEF HandlerEnds

LEMMA LeaveShape ==
  ASSUME HubShape, NEW gone, Leave(gone)
  PROVE  /\ clients' \in Seq(Connections) /\ Len(clients') <= Len(clients)
         /\ cast' \in [Links -> Broadcast]
         /\ \A k \in Links : Active(k)' => cast'[k].kind \in MessageKinds /\ cast'[k].next >= 1
<1>1. clients' \in Seq(Connections) /\ Len(clients') <= Len(clients)
  BY WithoutLeaves DEF HubShape, Leave
<1>2. ASSUME NEW k \in Links, Active(k)' PROVE cast'[k].kind \in MessageKinds /\ cast'[k].next >= 1
  BY <1>2 DEF Leave, Moves, HubShape, Active
<1> QED BY <1>1, <1>2 DEF Leave

LEMMA ShapeEnds ==
  ASSUME HubShape, ListedOnce,
         \/ \E l \in Links : CastEnds(l)
         \/ \E c \in Connections, listed \in BOOLEAN : HandlerEnds(c, listed)
  PROVE  HubShape'
<1>1. /\ clients' \in Seq(Connections) /\ cast' \in [Links -> Broadcast]
      /\ \A k \in Links : Active(k)' => cast'[k].kind \in MessageKinds /\ cast'[k].next >= 1
  <2>1. CASE UNCHANGED <<clients, cast>>
    BY <2>1 DEF HubShape, Active
  <2>2. CASE \E gone : Leave(gone)
    BY <2>2, LeaveShape
  <2> QED BY <2>1, <2>2, GoneLeave
<1>2. CASE \E l \in Links : CastEnds(l)
  BY <1>1, <1>2 DEF HubShape, CastEnds, agentSide
<1>3. ASSUME NEW c \in Connections, NEW listed \in BOOLEAN, HandlerEnds(c, listed) PROVE HubShape'
  <2>1. handler' \in [Connections -> Handling]
    BY <1>3 DEF HubShape, HandlerEnds, Handling
  <2> QED BY <1>1, <1>3, <2>1 DEF HubShape, HandlerEnds, agentSide
<1> QED BY <1>2, <1>3


\* What a page is told of, on connecting or polling.
LEMMA SnapshotIs ==
  ASSUME HubShape, NEW kind \in MessageKinds
  PROVE  Snapshot(kind) \in Nat
BY DEF HubShape, Snapshot, Numbers

\* The steps of a page, and its handlers'.
LEMMA ShapeOfPages ==
  ASSUME HubShape, RoomKept, NEW v \in Viewers,
         ClientConnects(v) \/ ClientGreeted(v) \/ ClientGoes(v) \/ Poll(v) \/ PollArrives(v)
  PROVE  HubShape'
<1>1. {"status", "live"} = MessageKinds /\ NoneYet \in Numbers
  BY KindOfNone DEF MessageKinds
<1>2. Snapshot("status") \in Nat /\ Snapshot("live") \in Nat
  BY <1>1, SnapshotIs
<1>3. CASE ClientConnects(v)
  <2>1. PICK i \in 1..MaxConnections :
          /\ handler' = [handler EXCEPT ![<<v, i>>] = "accepting"]
          /\ socket' = [socket EXCEPT ![v] = i]
    BY <1>3 DEF ClientConnects
  <2>2. i \in 0..MaxConnections
    BY HubAssumption
  <2>3. /\ handler' \in [Connections -> Handling]
        /\ socket' \in [Viewers -> 0..MaxConnections]
    BY <2>1, <2>2 DEF HubShape, Handling
  <2>4. Cardinality(Accepting) \in Nat
    BY FS_CardinalityType DEF RoomKept
  <2>5. atOnce' \in Nat
    BY <1>3, <2>4 DEF ClientConnects, HubShape
  <2> QED BY <1>3, <2>3, <2>5 DEF HubShape, ClientConnects, hubSide, agentSide, Active
<1>4. CASE ClientGreeted(v)
  <2>1. got' \in [Viewers -> Numbers]
    BY <1>1, <1>4 DEF HubShape, ClientGreeted, Numbers
  <2>2. handler' \in [Connections -> Handling] /\ greeting' \in [Viewers -> Nat]
    BY <1>4 DEF HubShape, ClientGreeted, Handling
  <2> QED BY <1>4, <2>1, <2>2 DEF HubShape, ClientGreeted, hubSide, agentSide, Active
<1>5. CASE ClientGoes(v)
  <2>1. 0 \in 0..MaxConnections
    BY HubAssumption
  <2> QED BY <1>1, <1>5, <2>1 DEF HubShape, ClientGoes, hubSide, agentSide, Active
<1>6. CASE Poll(v)
  <2>1. polls' \in [Viewers -> Seq(Nat)]
    <3>1. Append(polls[v], Snapshot("status")) \in Seq(Nat)
      BY <1>2, AppendProperties DEF HubShape
    <3> QED BY <1>6, <3>1 DEF HubShape, Poll
  <2> QED BY <1>6, <2>1 DEF HubShape, Poll, hubSide, agentSide, Active
<1>7. CASE PollArrives(v)
  <2>1. PICK i \in DOMAIN polls[v] :
          /\ page' = IF polls[v][i] = 0 THEN page ELSE [page EXCEPT ![v] = polls[v][i]]
          /\ polls' = [polls EXCEPT ![v] = RemoveAt(@, i)]
    BY <1>7 DEF PollArrives
  <2>2. polls[v] \in Seq(Nat) /\ polls[v][i] \in Nat
    BY <2>1, ElementOfSeq, LenProperties DEF HubShape
  <2>3. RemoveAt(polls[v], i) \in Seq(Nat)
    BY <2>1, <2>2, PollTaken
  <2>4. polls' \in [Viewers -> Seq(Nat)] /\ page' \in [Viewers -> Nat]
    BY <2>1, <2>2, <2>3 DEF HubShape
  <2> QED BY <1>7, <2>4 DEF HubShape, PollArrives, hubSide, agentSide, Active
<1> QED BY <1>3, <1>4, <1>5, <1>6, <1>7

\* A page is listed.
LEMMA ShapeListed ==
  ASSUME HubShape, NEW c \in Connections, ClientListed(c)
  PROVE  HubShape'
<1>1. "status" \in MessageKinds /\ "live" \in MessageKinds /\ NoneYet \in Numbers
  BY KindOfNone DEF MessageKinds
<1>2. Snapshot("status") \in Nat /\ Snapshot("live") \in Nat
  BY <1>1, SnapshotIs
<1>3. c[1] \in Viewers
  BY DEF Connections
<1>4. clients' \in Seq(Connections)
  BY AppendProperties DEF HubShape, ClientListed
<1>5. handler' \in [Connections -> Handling]
  BY DEF HubShape, ClientListed, Handling
<1>6. [NoneYet EXCEPT !["status"] = Snapshot("status")] \in Numbers
  BY <1>1, <1>2 DEF Numbers
<1>7. got' \in [Viewers -> Numbers] /\ page' \in [Viewers -> Nat] /\ greeting' \in [Viewers -> Nat]
  <2>1. CASE UNCHANGED <<got, page, greeting>>
    BY <2>1 DEF HubShape
  <2>2. CASE socket[c[1]] = c[2]
    BY <1>2, <1>3, <1>6, <2>2 DEF HubShape, ClientListed
  <2> QED BY <2>1, <2>2 DEF ClientListed
<1> QED BY <1>4, <1>5, <1>7 DEF HubShape, ClientListed, hubSide, agentSide, Active

\* The backend is restarted.
LEMMA ShapeRestart ==
  ASSUME HubShape, RestartHub
  PROVE  HubShape'
<1>1. /\ NoCast \in Broadcast /\ NoneYet \in Numbers /\ 0 \in 0..MaxConnections
      /\ <<>> \in Seq(Connections) /\ <<>> \in Seq(MessageKinds)
  BY KindOfNone, EmptySeq, HubAssumption
<1>2. hubRestarts' \in 0..load'.restarts
  <2>1. load.restarts \in Nat
    BY HubAssumption DEF HubShape, AnyLoad
  <2> QED BY <2>1 DEF HubShape, RestartHub
<1>3. /\ clients' \in Seq(Connections)
      /\ cast' \in [Links -> Broadcast]
      /\ \A a \in Links : ~Active(a)'
      /\ handler' \in [Connections -> Handling]
      /\ socket' \in [Viewers -> 0..MaxConnections]
      /\ greeting' \in [Viewers -> Nat] /\ got' \in [Viewers -> Numbers] /\ heard' \in Numbers
      /\ link' \in [Links -> {"none", "up", "down"}] /\ late' \in [Links -> Seq(MessageKinds)]
  BY <1>1 DEF RestartHub, Active, HubShape, Handling
<1> QED BY <1>2, <1>3 DEF HubShape, RestartHub

\* Every step keeps the types.
LEMMA ShapeStep == HubShape /\ ListedOnce /\ RoomKept /\ [HubNext]_hubVars => HubShape'
<1> SUFFICES ASSUME HubShape, ListedOnce, RoomKept, [HubNext]_hubVars PROVE HubShape'
  OBVIOUS
<1>1. CASE HubNext
  BY <1>1, ShapeOfAgents, ShapeHear, ShapeCastNext, ShapeEnds, ShapeOfPages, ShapeListed, ShapeRestart
     DEF HubNext
<1>2. CASE UNCHANGED hubVars
  BY <1>2 DEF HubShape, hubVars, Active
<1> QED BY <1>1, <1>2

\* What a page is told was received.
LEMMA SnapshotOld ==
  ASSUME HubShape, HubKnows, NEW k \in MessageKinds
  PROVE  Snapshot(k) \in 0..total[k]
<1>1. total[k] \in Nat
  BY DEF HubShape, Numbers
<1> QED BY <1>1 DEF HubKnows, Snapshot

\* The numbers of messages only grow, and by a message that comes in.
LEMMA OnlyHearCounts ==
  ASSUME [HubNext]_hubVars
  PROVE  \/ \E l \in Links : Hear(l) \/ HearLate(l)
         \/ RestartHub
         \/ UNCHANGED <<heard, disk, total, hubRestarts>>
<1> DEFINE Same == UNCHANGED <<heard, disk, total, hubRestarts>>
<1>1. ASSUME NEW l \in Links, NEW noticed \in BOOLEAN, CastEnds(l) \/ CastNext(l, noticed) PROVE Same
  BY <1>1 DEF CastEnds, CastNext
<1>2. ASSUME NEW l \in Links, NEW arrived, NEW lost, LinkUp(l) \/ LinkDown(l, arrived, lost) PROVE Same
  BY <1>2 DEF LinkUp, LinkDown, hubSide
<1>3. ASSUME NEW a \in HubAgents, NEW kind \in MessageKinds, Enqueue(a, kind) PROVE Same
  BY <1>3 DEF Enqueue, hubSide
<1>4. ASSUME NEW v \in Viewers,
             ClientConnects(v) \/ ClientGreeted(v) \/ ClientGoes(v) \/ Poll(v) \/ PollArrives(v)
      PROVE  Same
  BY <1>4 DEF ClientConnects, ClientGreeted, ClientGoes, Poll, PollArrives, hubSide
<1>5. ASSUME NEW c \in Connections, NEW listed \in BOOLEAN, ClientListed(c) \/ HandlerEnds(c, listed) PROVE Same
  BY <1>5 DEF ClientListed, HandlerEnds, hubSide
<1>6. UNCHANGED hubVars => Same
  BY DEF hubVars
<1> HIDE DEF Same
<1>7. Same \/ RestartHub \/ \E l \in Links : Hear(l) \/ HearLate(l)
  <2>1. CASE HubNext
    BY <1>1, <1>2, <1>3, <1>4, <1>5, <2>1 DEF HubNext
  <2> QED BY <1>6, <2>1
<1> QED BY <1>7 DEF Same

\* A message that comes in gets the next number of its kind.
LEMMA Heard ==
  ASSUME HubShape, \E l \in Links : Hear(l) \/ HearLate(l)
  PROVE  \E kind \in MessageKinds :
           /\ total[kind] \in Nat /\ total' \in Numbers /\ heard' \in Numbers /\ hubRestarts' = hubRestarts
           /\ \A k \in MessageKinds : total'[k] = IF k = kind THEN total[kind] + 1 ELSE total[k]
           /\ \A k \in MessageKinds : heard'[k] = IF k = kind THEN total[kind] + 1 ELSE heard[k]
           /\ \A k \in MessageKinds : disk'[k] = IF k = kind THEN total[kind] + 1 ELSE heard[k]
BY HeardKind, Received

\* No message is unheard.
LEMMA TotalsGrow ==
  ASSUME HubShape, [HubNext]_hubVars
  PROVE  \A k \in MessageKinds : total[k] <= total'[k]
<1>1. \A k \in MessageKinds : total[k] \in Nat
  BY DEF HubShape, Numbers
<1>2. CASE \E l \in Links : Hear(l) \/ HearLate(l)
  <2>1. PICK kind \in MessageKinds :
          \A k \in MessageKinds : total'[k] = IF k = kind THEN total[kind] + 1 ELSE total[k]
    BY <1>2, Heard
  <2> QED BY <1>1, <2>1
<1>3. CASE RestartHub
  BY <1>1, <1>3 DEF RestartHub
<1>4. CASE UNCHANGED <<heard, disk, total, hubRestarts>>
  BY <1>1, <1>4
<1> QED BY <1>2, <1>3, <1>4, OnlyHearCounts

\* What the process has heard and what is on disk stay the newest, or nothing.
LEMMA KnowsStep == HubShape /\ HubKnows /\ [HubNext]_hubVars => HubKnows'
<1> SUFFICES ASSUME HubShape, HubKnows, [HubNext]_hubVars PROVE HubKnows'
  OBVIOUS
<1>0. hubRestarts \in Nat
  BY HubAssumption DEF HubShape, AnyLoad
<1>1. CASE \E l \in Links : Hear(l) \/ HearLate(l)
  <2>1. PICK kind \in MessageKinds :
           /\ total[kind] \in Nat /\ total' \in Numbers /\ heard' \in Numbers /\ hubRestarts' = hubRestarts
           /\ \A k \in MessageKinds : total'[k] = IF k = kind THEN total[kind] + 1 ELSE total[k]
           /\ \A k \in MessageKinds : heard'[k] = IF k = kind THEN total[kind] + 1 ELSE heard[k]
           /\ \A k \in MessageKinds : disk'[k] = IF k = kind THEN total[kind] + 1 ELSE heard[k]
    BY <1>1, Heard
  <2>2. \A k \in MessageKinds : heard'[k] \in {0, total'[k]}
    BY <2>1 DEF HubKnows
  <2>3. hubRestarts = 0 => heard' = total'
    <3>1. hubRestarts = 0 => \A k \in MessageKinds : heard'[k] = total'[k]
      BY <2>1 DEF HubKnows
    <3> QED BY <2>1, <3>1 DEF Numbers
  <2>4. ASSUME NEW k \in MessageKinds PROVE disk'[k] = total'[k] \/ (hubRestarts > 0 /\ disk'[k] = 0)
    <3>1. hubRestarts = 0 => heard[k] = total[k]
      BY DEF HubKnows
    <3> QED BY <1>0, <2>1, <3>1 DEF HubKnows
  <2> QED BY <2>1, <2>2, <2>3, <2>4 DEF HubKnows
<1>2. CASE RestartHub
  <2>1. hubRestarts' = hubRestarts + 1 /\ \A k \in MessageKinds : heard'[k] = 0
    BY <1>2 DEF RestartHub, NoneYet
  <2> QED BY <1>0, <1>2, <2>1 DEF RestartHub, HubKnows
<1>3. CASE UNCHANGED <<heard, disk, total, hubRestarts>>
  BY <1>3 DEF HubKnows
<1> QED BY <1>1, <1>2, <1>3, OnlyHearCounts

\* Pages stay behind when nothing comes in, or more does.
LEMMA BehindStays ==
  ASSUME HubShape, PagesBehind, total' \in Numbers, \A k \in MessageKinds : total[k] <= total'[k],
         UNCHANGED <<page, greeting, got, polls>>
  PROVE  PagesBehind'
<1> SUFFICES ASSUME NEW v \in Viewers
             PROVE  /\ page[v] <= total'["status"] /\ greeting[v] <= total'["live"]
                    /\ \A k \in MessageKinds : got[v][k] <= total'[k]
                    /\ polls[v] \in Seq(0..total'["status"])
  BY DEF PagesBehind
<1>1. /\ "status" \in MessageKinds /\ "live" \in MessageKinds
      /\ \A k \in MessageKinds : total[k] \in Nat /\ total'[k] \in Nat /\ got[v][k] \in Nat
      /\ page[v] \in Nat /\ greeting[v] \in Nat
  BY DEF MessageKinds, HubShape, Numbers
<1>2. 0..total["status"] \subseteq 0..total'["status"]
  BY <1>1
<1>3. polls[v] \in Seq(0..total'["status"])
  BY <1>2, SeqMonotonic DEF PagesBehind
<1>4. /\ page[v] <= total'["status"]
      /\ greeting[v] <= total'["live"]
  BY <1>1 DEF PagesBehind
<1>5. \A k \in MessageKinds : got[v][k] <= total'[k]
  BY <1>1 DEF PagesBehind
<1> QED BY <1>3, <1>4, <1>5

\* What is sent to a page was received: a broadcast, a snapshot, an answer in flight.
LEMMA BehindStep == HubShape /\ HubShape' /\ HubKnows /\ PagesBehind /\ CastsReal /\ [HubNext]_hubVars => PagesBehind'
<1> SUFFICES ASSUME HubShape, HubShape', HubKnows, PagesBehind, CastsReal, [HubNext]_hubVars PROVE PagesBehind'
  OBVIOUS
<1>1. /\ "status" \in MessageKinds /\ "live" \in MessageKinds
      /\ \A k \in MessageKinds : total[k] \in Nat
      /\ \A w \in Viewers, k \in MessageKinds : got[w][k] \in Nat
      /\ DOMAIN got = Viewers /\ \A w \in Viewers : DOMAIN got[w] = MessageKinds
      /\ \A k \in MessageKinds : Snapshot(k) \in 0..total[k]
      /\ total \in Numbers
  <2>1. \A k \in MessageKinds : Snapshot(k) \in 0..total[k]
    BY SnapshotOld
  <2>2. total \in Numbers /\ got \in [Viewers -> Numbers]
    BY DEF HubShape
  <2>3. \A w \in Viewers : got[w] \in Numbers
    BY <2>2
  <2>4. DOMAIN got = Viewers
    BY <2>2
  <2>5. "status" \in MessageKinds /\ "live" \in MessageKinds
    BY DEF MessageKinds
  <2> QED BY <2>1, <2>2, <2>3, <2>4, <2>5 DEF Numbers
<1>2. CASE UNCHANGED <<page, greeting, got, polls>>
  <2>1. total' \in Numbers
    BY DEF HubShape
  <2>2. \A k \in MessageKinds : total[k] <= total'[k]
    BY TotalsGrow
  <2> QED BY <1>2, <2>1, <2>2, BehindStays
<1>3. ASSUME NEW l \in Links, NEW noticed \in BOOLEAN, CastNext(l, noticed) PROVE PagesBehind'
  <2>1. UNCHANGED <<total, greeting, polls>>
    BY <1>3 DEF CastNext
  <2>2. PICK c \in Connections :
          /\ Active(l)
          /\ Reaches(c[1], cast[l].kind, cast[l].number) \/ UNCHANGED <<got, page, backwards>>
    BY <1>3, SendSays
  <2>3. CASE UNCHANGED <<got, page, backwards>>
    BY <1>1, <2>1, <2>3, BehindStays
  <2>4. CASE Reaches(c[1], cast[l].kind, cast[l].number)
    <3> DEFINE n == cast[l].number
               kind == cast[l].kind
    <3>1. kind \in MessageKinds /\ n <= total[kind] /\ c[1] \in Viewers
      BY <2>2 DEF CastsReal, HubShape, Connections
    <3>2. /\ got' = [got EXCEPT ![c[1]][kind] = n]
          /\ page' = IF kind = "status" THEN [page EXCEPT ![c[1]] = n] ELSE page
      BY <2>4 DEF Reaches
    <3> HIDE DEF n, kind
    <3>3. \A w \in Viewers : page'[w] = page[w] \/ (kind = "status" /\ page'[w] = n)
      BY <3>2 DEF HubShape
    <3>4. \A w \in Viewers, k \in MessageKinds : got'[w][k] = got[w][k] \/ (k = kind /\ got'[w][k] = n)
      BY <1>1, <3>1, <3>2
    <3> QED BY <2>1, <3>1, <3>3, <3>4 DEF PagesBehind
  <2> QED BY <2>2, <2>3, <2>4
<1>4. ASSUME NEW c \in Connections, ClientListed(c) PROVE PagesBehind'
  <2>0. CASE UNCHANGED <<got, page, greeting>>
    BY <1>1, <1>4, <2>0, BehindStays DEF ClientListed, hubSide
  <2>1. CASE socket[c[1]] = c[2]
    <3> DEFINE told == [NoneYet EXCEPT !["status"] = Snapshot("status")]
    <3>1. NoneYet \in Numbers /\ (\A k \in MessageKinds : NoneYet[k] = 0) /\ c[1] \in Viewers
      BY KindOfNone DEF NoneYet, Connections
    <3>2. \A k \in MessageKinds : told[k] <= total[k]
      BY <1>1, <3>1 DEF Numbers
    <3>3. \A w \in Viewers : got'[w] = IF w = c[1] THEN told ELSE got[w]
      BY <1>1, <1>4, <2>1 DEF ClientListed
    <3>4. \A w \in Viewers : page'[w] = page[w] \/ page'[w] = Snapshot("status")
      BY <1>4, <2>1 DEF ClientListed, HubShape
    <3>5. \A w \in Viewers : greeting'[w] = greeting[w] \/ greeting'[w] = Snapshot("live")
      BY <1>4, <2>1 DEF ClientListed, HubShape
    <3>6. UNCHANGED <<polls, total>>
      BY <1>4 DEF ClientListed, hubSide
    <3> HIDE DEF told
    <3>7. ASSUME NEW w \in Viewers
          PROVE  /\ page'[w] <= total["status"] /\ greeting'[w] <= total["live"]
                 /\ \A k \in MessageKinds : got'[w][k] <= total[k]
      <4>1. page'[w] <= total["status"] /\ greeting'[w] <= total["live"]
        BY <1>1, <3>4, <3>5 DEF PagesBehind
      <4>2. \A k \in MessageKinds : got'[w][k] <= total[k]
        BY <3>2, <3>3 DEF PagesBehind
      <4> QED BY <4>1, <4>2
    <3> QED BY <3>6, <3>7 DEF PagesBehind
  <2> QED BY <1>4, <2>0, <2>1 DEF ClientListed
<1>5. ASSUME NEW v \in Viewers, ClientGreeted(v) PROVE PagesBehind'
  <2>1. /\ got' = got \/ got' = [got EXCEPT ![v]["live"] = greeting[v]]
        /\ greeting' = [greeting EXCEPT ![v] = 0] /\ UNCHANGED <<page, polls, total>>
    BY <1>5 DEF ClientGreeted, hubSide
  <2>2. \A w \in Viewers, k \in MessageKinds :
          got'[w][k] = got[w][k] \/ (k = "live" /\ w = v /\ got'[w][k] = greeting[v])
    BY <1>1, <2>1
  <2>3. \A w \in Viewers, k \in MessageKinds : got'[w][k] <= total[k]
    BY <2>2 DEF PagesBehind
  <2>4. \A w \in Viewers : greeting'[w] = greeting[w] \/ greeting'[w] = 0
    BY <2>1 DEF HubShape
  <2>5. 0 <= total["live"]
    BY <1>1
  <2>6. \A w \in Viewers : greeting'[w] <= total["live"]
    BY <2>4, <2>5 DEF PagesBehind
  <2> QED BY <2>1, <2>3, <2>6 DEF PagesBehind
<1>6. ASSUME NEW v \in Viewers, ClientGoes(v) PROVE PagesBehind'
  <2>1. \A w \in Viewers : got'[w] = IF w = v THEN NoneYet ELSE got[w]
    BY <1>6 DEF ClientGoes, HubShape
  <2>2. \A w \in Viewers : greeting'[w] = IF w = v THEN 0 ELSE greeting[w]
    BY <1>6 DEF ClientGoes, HubShape
  <2>3. ASSUME NEW w \in Viewers, NEW k \in MessageKinds PROVE got'[w][k] <= total[k]
    <3>1. NoneYet[k] = 0 /\ total[k] \in Nat
      BY <1>1 DEF NoneYet
    <3>2. got[w][k] <= total[k]
      BY DEF PagesBehind
    <3>3. 0 <= total[k]
      BY <3>1
    <3> QED BY <2>1, <3>1, <3>2, <3>3
  <2>4. ASSUME NEW w \in Viewers PROVE greeting'[w] <= total["live"]
    <3>1. total["live"] \in Nat /\ greeting[w] <= total["live"]
      BY <1>1 DEF PagesBehind
    <3>2. 0 <= total["live"]
      BY <3>1
    <3> QED BY <2>2, <3>1, <3>2
  <2> QED BY <1>6, <2>3, <2>4 DEF PagesBehind, ClientGoes, hubSide
<1>7. ASSUME NEW v \in Viewers, Poll(v) PROVE PagesBehind'
  <2>1. Append(polls[v], Snapshot("status")) \in Seq(0..total["status"])
    BY <1>1, AppendProperties DEF PagesBehind
  <2> QED BY <1>7, <2>1 DEF PagesBehind, Poll, HubShape, hubSide
<1>8. ASSUME NEW v \in Viewers, PollArrives(v) PROVE PagesBehind'
  <2>1. PICK i \in DOMAIN polls[v] :
          /\ page' = IF polls[v][i] = 0 THEN page ELSE [page EXCEPT ![v] = polls[v][i]]
          /\ polls' = [polls EXCEPT ![v] = RemoveAt(@, i)]
    BY <1>8 DEF PollArrives
  <2>2. polls[v] \in Seq(0..total["status"])
    BY DEF PagesBehind
  <2>3. polls[v][i] \in 0..total["status"] /\ RemoveAt(polls[v], i) \in Seq(0..total["status"])
    BY <2>1, <2>2, PollTaken, ElementOfSeq, LenProperties
  <2>4. \A w \in Viewers : page'[w] = page[w] \/ page'[w] = polls[v][i]
    BY <2>1 DEF HubShape
  <2>5. \A w \in Viewers : polls'[w] = IF w = v THEN RemoveAt(polls[v], i) ELSE polls[w]
    BY <2>1 DEF HubShape
  <2>6. UNCHANGED <<got, greeting, total>>
    BY <1>8 DEF PollArrives, hubSide
  <2>7. ASSUME NEW w \in Viewers
        PROVE  page'[w] <= total["status"] /\ polls'[w] \in Seq(0..total["status"])
    <3>1. page'[w] <= total["status"]
      <4>1. page[w] <= total["status"] /\ total["status"] \in Nat
        BY <1>1 DEF PagesBehind
      <4>2. polls[v][i] <= total["status"]
        BY <2>3, <4>1
      <4> QED BY <2>4, <4>1, <4>2
    <3>2. polls'[w] \in Seq(0..total["status"])
      BY <2>3, <2>5 DEF PagesBehind
    <3> QED BY <3>1, <3>2
  <2> QED BY <2>6, <2>7 DEF PagesBehind
<1>9. CASE RestartHub
  BY <1>1, <1>9 DEF PagesBehind, RestartHub, HubShape, NoneYet
<1>10. \/ UNCHANGED <<page, greeting, got, polls>>
       \/ \E a \in Links, flag \in BOOLEAN : CastNext(a, flag)
       \/ \E c \in Connections : ClientListed(c)
       \/ \E v \in Viewers : ClientGreeted(v) \/ ClientGoes(v) \/ Poll(v) \/ PollArrives(v)
       \/ RestartHub
  <2> DEFINE Same == UNCHANGED <<page, greeting, got, polls>>
  <2>1. ASSUME NEW l \in Links, Hear(l) \/ HearLate(l) \/ CastEnds(l) PROVE Same
    BY <2>1 DEF Hear, HearLate, Receive, CastEnds, pageSide
  <2>2. ASSUME NEW l \in Links, NEW arrived, NEW lost, LinkUp(l) \/ LinkDown(l, arrived, lost) PROVE Same
    BY <2>2 DEF LinkUp, LinkDown, pageSide
  <2>3. ASSUME NEW a \in HubAgents, NEW kind \in MessageKinds, Enqueue(a, kind) PROVE Same
    BY <2>3 DEF Enqueue, pageSide
  <2>4. ASSUME NEW v \in Viewers, ClientConnects(v) PROVE Same
    BY <2>4 DEF ClientConnects
  <2>5. ASSUME NEW c \in Connections, NEW listed \in BOOLEAN, HandlerEnds(c, listed) PROVE Same
    BY <2>5 DEF HandlerEnds
  <2>6. UNCHANGED hubVars => Same
    BY DEF hubVars
  <2> HIDE DEF Same
  <2>7. CASE HubNext
    BY <2>1, <2>2, <2>3, <2>4, <2>5, <2>7 DEF HubNext, Same
  <2> QED BY <2>6, <2>7 DEF Same
<1> QED BY <1>2, <1>3, <1>4, <1>5, <1>6, <1>7, <1>8, <1>9, <1>10

\* A handler begins a broadcast.
Begins(l) == Hear(l) \/ HearLate(l)

\* What becomes of a broadcast in one step: it stands, it goes on, clients leave the list, or it ends.
LEMMA CastMoves ==
  ASSUME HubShape, ListedOnce, [HubNext]_hubVars, NEW l \in Links, Active(l)', ~Begins(l)
  PROVE  /\ Active(l) /\ cast'[l].kind = cast[l].kind /\ cast'[l].number = cast[l].number
         /\ \/ cast'[l] = cast[l] /\ UNCHANGED clients
            \/ cast'[l] = cast[l] /\ \E c \in Connections : ClientListed(c)
            \/ \E noticed \in BOOLEAN : CastNext(l, noticed)
            \/ \E gone \in SUBSET Connections : Leave(gone) /\ Moves(l, gone)
<1> DEFINE Same == cast'[l] = cast[l]
<1>1. CASE UNCHANGED <<clients, cast>>
  BY <1>1 DEF Active
<1>2. ASSUME NEW k \in Links, Begins(k) PROVE Same /\ UNCHANGED clients
  <2>1. k # l
    BY <1>2
  <2> QED BY <1>2, <2>1, HeardKind, Received DEF Begins, pageSide
<1>3. ASSUME NEW k \in Links, NEW noticed \in BOOLEAN, CastNext(k, noticed), k # l PROVE Same /\ UNCHANGED clients
  BY <1>3 DEF CastNext, HubShape
<1>4. ASSUME NEW noticed \in BOOLEAN, CastNext(l, noticed)
      PROVE  Active(l) /\ cast'[l].kind = cast[l].kind /\ cast'[l].number = cast[l].number
  BY <1>4, SendSays
<1>5. ASSUME NEW gone \in SUBSET Connections, Leave(gone)
      PROVE  Moves(l, gone) /\ Active(l) /\ cast'[l].kind = cast[l].kind /\ cast'[l].number = cast[l].number
  BY <1>5 DEF Leave, Moves, Active
<1>6. ASSUME NEW c \in Connections, ClientListed(c) PROVE Same
  BY <1>6 DEF ClientListed, hubSide
<1>7. ~RestartHub
  BY DEF RestartHub, Active
<1>8. \/ UNCHANGED <<clients, cast>>
      \/ \E k \in Links : Begins(k) \/ \E noticed \in BOOLEAN : CastNext(k, noticed)
      \/ \E c \in Connections : ClientListed(c)
      \/ \E k \in Links : CastEnds(k)
      \/ \E c \in Connections, listed \in BOOLEAN : HandlerEnds(c, listed)
  BY <1>7, ZenonT(40) DEF HubNext, hubVars, LinkUp, Enqueue, LinkDown, ClientConnects, ClientGreeted, ClientGoes, Poll,
       PollArrives, hubSide, pageSide, Begins
<1>9. \/ UNCHANGED <<clients, cast>>
      \/ \E k \in Links : Begins(k) \/ \E noticed \in BOOLEAN : CastNext(k, noticed)
      \/ \E c \in Connections : ClientListed(c)
      \/ \E gone \in SUBSET Connections : Leave(gone)
  <2>1. ASSUME NEW c \in Connections PROVE {c} \in SUBSET Connections
    OBVIOUS
  <2> QED BY <1>8, <2>1, GoneLeave
<1>10. Same => Active(l) /\ cast'[l].kind = cast[l].kind /\ cast'[l].number = cast[l].number
  BY DEF Active
<1> HIDE DEF Same
<1>11. CASE \E k \in Links : Begins(k)
  BY <1>2, <1>10, <1>11 DEF Same
<1>12. CASE \E k \in Links, noticed \in BOOLEAN : CastNext(k, noticed)
  BY <1>3, <1>4, <1>10, <1>12 DEF Same
<1>13. CASE \E c \in Connections : ClientListed(c)
  BY <1>6, <1>10, <1>13 DEF Same
<1>14. CASE \E gone \in SUBSET Connections : Leave(gone)
  BY <1>5, <1>14
<1> QED BY <1>1, <1>9, <1>11, <1>12, <1>13, <1>14

\* A broadcast that begins.
LEMMA CastBegins ==
  ASSUME HubShape, NEW l \in Links, Begins(l)
  PROVE  /\ cast'[l].kind \in MessageKinds /\ cast'[l].number = total'[cast'[l].kind]
         /\ cast'[l].next = 1 /\ cast'[l].owed = ToSet(clients) /\ cast'[l].left = 0
         /\ clients' = clients /\ handler' = handler
         /\ \A k \in Links \ {l} : cast'[k] = cast[k]
         /\ cast[l] = NoCast /\ crossed' = (crossed \/ \E k \in Links \ {l} : Active(k))
BY HeardKind, Received, SMTT(30) DEF Begins, pageSide

\* A broadcast stays of a message received.
LEMMA RealStep == HubShape /\ HubShape' /\ ListedOnce /\ CastsReal /\ [HubNext]_hubVars => CastsReal'
<1> SUFFICES ASSUME HubShape, HubShape', ListedOnce, CastsReal, [HubNext]_hubVars, NEW l \in Links, Active(l)'
             PROVE  cast'[l].number <= total'[cast'[l].kind]
  BY DEF CastsReal
<1>1. \A k \in MessageKinds : total[k] \in Nat /\ total'[k] \in Nat /\ total[k] <= total'[k]
  BY TotalsGrow DEF HubShape, Numbers
<1>2. CASE Begins(l)
  BY <1>1, <1>2, CastBegins
<1>3. CASE ~Begins(l)
  <2>1. Active(l) /\ cast'[l].kind = cast[l].kind /\ cast'[l].number = cast[l].number
    BY <1>3, CastMoves
  <2>2. cast[l].kind \in MessageKinds /\ cast[l].number \in Nat /\ cast[l].number <= total[cast[l].kind]
    BY <2>1, SMTT(30) DEF HubShape, Broadcast, CastsReal
  <2> QED BY <1>1, <2>1, <2>2
<1> QED BY <1>2, <1>3

\* One broadcast at a time: whoever begins another makes the two cross.
LEMMA AloneOrCrossed ==
  ASSUME HubShape, ListedOnce, CastAlone, [HubNext]_hubVars, ~crossed'
  PROVE  /\ ~crossed
         /\ \A k, l \in Links : Active(k)' /\ Active(l)' => k = l
         /\ \A l \in Links : Begins(l) => \A k \in Links : ~Active(k)
<1>1. ~crossed
  BY ZenonT(40) DEF HubNext, hubVars, LinkUp, Hear, HearLate, Receive, Enqueue, LinkDown, CastNext, CastEnds, ClientConnects,
         ClientListed, ClientGreeted, ClientGoes, Poll, PollArrives, HandlerEnds, RestartHub, hubSide
<1>2. ASSUME NEW l \in Links, Begins(l), NEW k \in Links PROVE ~Active(k)
  <2>1. cast[l] = NoCast /\ ~\E j \in Links \ {l} : Active(j)
    BY <1>2, CastBegins
  <2> QED BY <2>1 DEF Active
<1>3. ASSUME NEW k \in Links, NEW l \in Links, Active(k)', Active(l)' PROVE k = l
  <2>1. CASE Begins(k) \/ Begins(l)
    <3>1. PICK h \in {k, l} : Begins(h)
      BY <2>1
    <3>2. \A o \in Links \ {h} : cast'[o] = cast[o] /\ ~Active(o)
      BY <1>2, <3>1, CastBegins
    <3>3. \A o \in Links \ {h} : ~Active(o)'
      BY <3>2 DEF Active
    <3> QED BY <1>3, <3>1, <3>3
  <2>2. CASE ~Begins(k) /\ ~Begins(l)
    <3>1. Active(k) /\ Active(l)
      BY <1>3, <2>2, CastMoves
    <3> QED BY <1>1, <3>1 DEF CastAlone
  <2> QED BY <2>1, <2>2
<1> QED BY <1>1, <1>2, <1>3

\* A broadcast that is alone stays that of the newest message.
LEMMA NewestStep ==
  ASSUME HubShape, ListedOnce, CastAlone, [HubNext]_hubVars, ~crossed', NEW l \in Links, Active(l)'
  PROVE  cast'[l].number = total'[cast'[l].kind]
<1>1. CASE Begins(l)
  BY <1>1, CastBegins
<1>2. CASE ~Begins(l)
  <2>1. Active(l) /\ cast'[l].kind = cast[l].kind /\ cast'[l].number = cast[l].number
    BY <1>2, CastMoves
  <2>2. ~crossed /\ \A k \in Links : ~Begins(k)
    BY <2>1, AloneOrCrossed
  <2>3. total' = total
    BY <2>2, OnlyHearCounts DEF RestartHub, Begins
  <2> QED BY <2>1, <2>2, <2>3 DEF CastAlone
<1> QED BY <1>1, <1>2

\* A status that goes backwards is of one of two broadcasts that crossed.
LEMMA BackwardsStep ==
  ASSUME HubShape, ListedOnce, PagesBehind, CastAlone, [HubNext]_hubVars, ~crossed'
  PROVE  ~backwards'
<1>1. ~crossed /\ ~backwards
  BY AloneOrCrossed DEF CastAlone
<1>2. ASSUME NEW l \in Links, NEW noticed \in BOOLEAN, CastNext(l, noticed), backwards' PROVE FALSE
  <2>1. PICK c \in Connections :
          /\ Active(l)
          /\ Reaches(c[1], cast[l].kind, cast[l].number) \/ UNCHANGED <<got, page, backwards>>
    BY <1>2, SendSays
  <2>2. cast[l].kind \in MessageKinds /\ cast[l].number = total[cast[l].kind] /\ c[1] \in Viewers
    BY <1>1, <2>1 DEF CastAlone, HubShape, Connections
  <2>3. cast[l].number < got[c[1]][cast[l].kind]
    BY <1>1, <1>2, <2>1 DEF Reaches
  <2>4. got[c[1]][cast[l].kind] <= total[cast[l].kind]
    BY <2>2 DEF PagesBehind
  <2>5. got[c[1]][cast[l].kind] \in Nat /\ total[cast[l].kind] \in Nat
    BY <2>2, SMTT(30) DEF HubShape, Numbers
  <2> QED BY <2>2, <2>3, <2>4, <2>5
<1>3. (\E l \in Links, noticed \in BOOLEAN : CastNext(l, noticed)) \/ UNCHANGED backwards
  BY ZenonT(40) DEF HubNext, hubVars, LinkUp, Hear, HearLate, Receive, Enqueue, LinkDown, CastEnds, ClientConnects, ClientListed,
         ClientGreeted, ClientGoes, Poll, PollArrives, HandlerEnds, RestartHub, pageSide
<1> QED BY <1>1, <1>2, <1>3

\* What is true of a broadcast that is alone stays true.
LEMMA AloneStep == HubShape /\ ListedOnce /\ PagesBehind /\ CastAlone /\ [HubNext]_hubVars => CastAlone'
<1> SUFFICES ASSUME HubShape, ListedOnce, PagesBehind, CastAlone, [HubNext]_hubVars PROVE CastAlone'
  OBVIOUS
<1>1. backwards' => crossed'
  BY BackwardsStep
<1>2. ~crossed' => \A k, l \in Links : Active(k)' /\ Active(l)' => k = l
  BY AloneOrCrossed
<1>3. ~crossed' => \A l \in Links : Active(l)' => cast'[l].number = total'[cast'[l].kind]
  BY NewestStep
<1> QED BY <1>1, <1>2, <1>3 DEF CastAlone

\* The list in a step: it stands, one that awaited the accept comes, others leave, or all.
LEMMA ListMoves ==
  ASSUME HubShape, ListedOnce, [HubNext]_hubVars
  PROVE  \/ clients' = clients
         \/ \E c \in Connections : ClientListed(c)
         \/ \E gone \in SUBSET Connections : Leave(gone)
         \/ RestartHub
<1>1. \/ clients' = clients
      \/ \E c \in Connections : ClientListed(c)
      \/ \E l \in Links : CastEnds(l)
      \/ \E c \in Connections, listed \in BOOLEAN : HandlerEnds(c, listed)
      \/ RestartHub
  BY ZenonT(40) DEF HubNext, hubVars, LinkUp, Hear, HearLate, Receive, Enqueue, LinkDown, CastNext, ClientConnects, ClientGreeted,
         ClientGoes, Poll, PollArrives, pageSide
<1>2. \A c \in Connections : {c} \in SUBSET Connections
  OBVIOUS
<1> QED BY <1>1, <1>2, GoneLeave

\* Who has come is not to come again.
LEMMA ComeStays ==
  ASSUME HubShape, [HubNext]_hubVars, NEW c \in Connections, Come(c)
  PROVE  Come(c)'
<1>1. \/ UNCHANGED handler
      \/ \E v \in Viewers : ClientConnects(v) \/ ClientGreeted(v)
      \/ \E d \in Connections : ClientListed(d)
      \/ \E d \in Connections, listed \in BOOLEAN : HandlerEnds(d, listed)
      \/ RestartHub
  BY ZenonT(40) DEF HubNext, hubVars, LinkUp, Hear, HearLate, Receive, Enqueue, LinkDown, CastNext, CastEnds, ClientGoes, Poll,
         PollArrives, pageSide
<1>2. ASSUME NEW v \in Viewers, ClientConnects(v) PROVE Come(c)'
  BY <1>2 DEF ClientConnects, HubShape, Come
<1>3. ASSUME NEW v \in Viewers, ClientGreeted(v) PROVE Come(c)'
  BY <1>3 DEF ClientGreeted, HubShape, Come
<1>4. ASSUME NEW d \in Connections, ClientListed(d) PROVE Come(c)'
  BY <1>4 DEF ClientListed, HubShape, Come
<1>5. ASSUME NEW d \in Connections, NEW listed \in BOOLEAN, HandlerEnds(d, listed) PROVE Come(c)'
  BY <1>5 DEF HandlerEnds, HubShape, Come
<1>6. CASE RestartHub
  BY <1>6 DEF RestartHub, Come
<1> QED BY <1>1, <1>2, <1>3, <1>4, <1>5, <1>6 DEF Come

\* The list with one more at its end.
LEMMA OneMore ==
  ASSUME NEW S, NEW s \in Seq(S), NEW c \in S, c \notin ToSet(s)
  PROVE  /\ OneEach(s) => OneEach(Append(s, c))
         /\ ToSet(Append(s, c)) = ToSet(s) \cup {c} /\ Len(Append(s, c)) = Len(s) + 1
         /\ \A next \in Nat : Passed(Append(s, c), next) \subseteq Passed(s, next) \cup {c}
<1> DEFINE t == Append(s, c)
<1>1. /\ t \in Seq(S) /\ Len(t) = Len(s) + 1 /\ (\A i \in 1..Len(s) : t[i] = s[i]) /\ t[Len(s) + 1] = c
      /\ DOMAIN s = 1..Len(s) /\ DOMAIN t = 1..(Len(s) + 1) /\ Len(s) \in Nat
  <2>1. t \in Seq(S) /\ Len(t) = Len(s) + 1 /\ (\A i \in 1..Len(s) : t[i] = s[i]) /\ t[Len(s) + 1] = c
    BY AppendProperties
  <2> HIDE DEF t
  <2> QED BY <2>1, LenProperties
<1> HIDE DEF t
<1>2. \A i \in DOMAIN t : i \in DOMAIN s \/ i = Len(s) + 1
  BY <1>1
<1>3. \A i \in DOMAIN s : i \in DOMAIN t /\ s[i] \in ToSet(s) /\ t[i] = s[i]
  BY <1>1 DEF ToSet
<1>4. OneEach(s) => OneEach(t)
  BY <1>1, <1>2, <1>3 DEF OneEach
<1>5. ToSet(t) = ToSet(s) \cup {c}
  <2>1. ToSet(t) \subseteq ToSet(s) \cup {c}
    BY <1>1, <1>2, <1>3 DEF ToSet
  <2>2. ToSet(s) \cup {c} \subseteq ToSet(t)
    <3>1. ToSet(s) \subseteq ToSet(t)
      BY <1>3 DEF ToSet
    <3>2. Len(s) + 1 \in DOMAIN t
      BY <1>1
    <3> QED BY <1>1, <3>1, <3>2 DEF ToSet
  <2> QED BY <2>1, <2>2
<1>6. ASSUME NEW next \in Nat PROVE Passed(t, next) \subseteq Passed(s, next) \cup {c}
  BY <1>1, <1>2, <1>3 DEF Passed
<1> QED BY <1>1, <1>4, <1>5, <1>6 DEF t

\* Each is listed once.
LEMMA ListedStep == HubShape /\ ListedOnce /\ [HubNext]_hubVars => ListedOnce'
<1> SUFFICES ASSUME HubShape, ListedOnce, [HubNext]_hubVars PROVE ListedOnce'
  OBVIOUS
<1>0. clients \in Seq(Connections) /\ ToSet(clients) \subseteq Connections
  BY ElementOfSeq, LenProperties DEF HubShape, ToSet
<1>1. OneEach(clients') /\ \A c \in ToSet(clients') : Come(c)'
  <2>1. CASE clients' = clients
    BY <1>0, <2>1, ComeStays DEF ListedOnce
  <2>2. ASSUME NEW c \in Connections, ClientListed(c)
        PROVE  OneEach(clients') /\ \A d \in ToSet(clients') : Come(d)'
    <3>1. clients' = Append(clients, c) /\ ~Come(c) /\ Come(c)'
      BY <2>2 DEF ClientListed, HubShape, Come
    <3>2. c \notin ToSet(clients)
      BY <3>1 DEF ListedOnce
    <3>3. OneEach(clients') /\ ToSet(clients') = ToSet(clients) \cup {c}
      BY <1>0, <3>1, <3>2, OneMore DEF ListedOnce
    <3> QED BY <1>0, <3>1, <3>3, ComeStays DEF ListedOnce
  <2>3. ASSUME NEW gone, Leave(gone) PROVE OneEach(clients') /\ \A d \in ToSet(clients') : Come(d)'
    <3>1. /\ OneEach(clients') /\ \A j \in DOMAIN clients' : clients'[j] \in ToSet(clients) \ gone
      BY <1>0, <2>3, WithoutLeaves DEF Leave, ListedOnce
    <3>2. ToSet(clients') \subseteq ToSet(clients)
      BY <3>1 DEF ToSet
    <3> QED BY <1>0, <3>1, <3>2, ComeStays DEF ListedOnce
  <2>4. CASE RestartHub
    <3>1. clients' = <<>>
      BY <2>4 DEF RestartHub
    <3>2. DOMAIN <<>> = {}
      OBVIOUS
    <3> QED BY <3>1, <3>2 DEF OneEach, ToSet
  <2> QED BY <2>1, <2>2, <2>3, <2>4, ListMoves
<1>2. ASSUME NEW l \in Links PROVE \A c \in cast'[l].owed : Come(c)'
  <2>1. \A c \in cast[l].owed : c \in Connections /\ Come(c)
    BY DEF HubShape, Broadcast, ListedOnce
  <2>2. CASE Begins(l)
    BY <1>0, <2>2, CastBegins, ComeStays DEF ListedOnce
  <2>3. CASE ~Active(l)'
    BY <2>3, KindOfNone DEF Active
  <2>4. CASE Active(l)' /\ ~Begins(l)
    <3>1. cast'[l].owed \subseteq cast[l].owed
      <4>1. CASE \E noticed \in BOOLEAN : CastNext(l, noticed)
        BY <4>1, SendSays
      <4> QED BY <2>4, <4>1, CastMoves DEF Moves
    <3> QED BY <2>1, <3>1, ComeStays
  <2> QED BY <2>2, <2>3, <2>4
<1> QED BY <1>1, <1>2 DEF ListedOnce

\* A broadcast passes nobody whom it has not sent to, but for those that others' leaving moved.
LEMMA SkipsStep == HubShape /\ ListedOnce /\ SkipsCounted /\ [HubNext]_hubVars => SkipsCounted'
<1> SUFFICES ASSUME HubShape, ListedOnce, SkipsCounted, [HubNext]_hubVars, NEW l \in Links
             PROVE  Cardinality(cast'[l].owed \cap Passed(clients', cast'[l].next)) <= cast'[l].left
  BY DEF SkipsCounted
<1> DEFINE skipped == cast[l].owed \cap Passed(clients, cast[l].next)
<1>0. /\ clients \in Seq(Connections) /\ OneEach(clients) /\ cast[l] \in Broadcast
      /\ cast[l].next \in Nat /\ cast[l].left \in Nat
      /\ Cardinality(skipped) <= cast[l].left /\ IsFiniteSet(skipped)
  <2>1. /\ clients \in Seq(Connections) /\ OneEach(clients) /\ cast[l] \in Broadcast
        /\ cast[l].next \in Nat /\ cast[l].left \in Nat /\ Cardinality(skipped) <= cast[l].left
    BY DEF HubShape, ListedOnce, SkipsCounted, Broadcast
  <2>2. IsFiniteSet(skipped)
    <3>1. IsFiniteSet(Passed(clients, cast[l].next))
      BY <2>1, PassedAre
    <3> QED BY <3>1, FS_Subset
  <2> QED BY <2>1, <2>2
<1>1. CASE ~Active(l)'
  <2>1. cast'[l].owed = {} /\ cast'[l].left = 0
    BY <1>1, KindOfNone DEF Active
  <2>2. cast'[l].owed \cap Passed(clients', cast'[l].next) = {}
    BY <2>1
  <2> QED BY <2>1, <2>2, FS_EmptySet
<1>2. CASE Begins(l)
  <2>1. cast'[l].next = 1 /\ cast'[l].left = 0 /\ clients' = clients
    BY <1>2, CastBegins
  <2>2. Passed(clients, 1) = {}
    <3>1. \A j \in DOMAIN clients : j \in Nat /\ ~(j < 1)
      BY <1>0, LenProperties
    <3> QED BY <3>1 DEF Passed
  <2>3. cast'[l].owed \cap Passed(clients', cast'[l].next) = {}
    BY <2>1, <2>2
  <2> QED BY <2>1, <2>3, FS_EmptySet
<1>3. CASE cast'[l] = cast[l] /\ UNCHANGED clients
  BY <1>0, <1>3
<1>4. ASSUME NEW c \in Connections, ClientListed(c), cast'[l] = cast[l]
      PROVE  Cardinality(cast'[l].owed \cap Passed(clients', cast'[l].next)) <= cast'[l].left
  <2>1. clients' = Append(clients, c) /\ ~Come(c)
    BY <1>4 DEF ClientListed, Come
  <2>2. c \notin ToSet(clients) /\ c \notin cast[l].owed
    BY <2>1 DEF ListedOnce
  <2>3. Passed(clients', cast[l].next) \subseteq Passed(clients, cast[l].next) \cup {c}
    BY <1>0, <2>1, <2>2, OneMore
  <2>4. cast'[l].owed \cap Passed(clients', cast'[l].next) \in SUBSET skipped
    BY <1>4, <2>2, <2>3
  <2> HIDE DEF skipped
  <2> QED BY <1>0, <1>4, <2>4, NoMore
<1>5. ASSUME NEW noticed \in BOOLEAN, CastNext(l, noticed)
      PROVE  Cardinality(cast'[l].owed \cap Passed(clients', cast'[l].next)) <= cast'[l].left
  <2>1. PICK c \in Connections :
          /\ c = clients[cast[l].next] /\ cast'[l].left = cast[l].left
          /\ cast'[l].next = cast[l].next + 1 /\ cast'[l].owed = cast[l].owed \ {c}
    BY <1>5, SendSays
  <2>2. clients' = clients
    BY <1>5 DEF CastNext
  <2>3. Passed(clients, cast[l].next + 1) \subseteq Passed(clients, cast[l].next) \cup {c}
    <3>1. \A j \in DOMAIN clients : j < cast[l].next + 1 => j < cast[l].next \/ j = cast[l].next
      BY <1>0, LenProperties
    <3> QED BY <2>1, <3>1 DEF Passed
  <2>4. cast'[l].owed \cap Passed(clients', cast'[l].next) \in SUBSET skipped
    BY <2>1, <2>2, <2>3
  <2> HIDE DEF skipped
  <2> QED BY <1>0, <2>1, <2>4, NoMore
<1>6. ASSUME NEW gone, Leave(gone), Moves(l, gone)
      PROVE  Cardinality(cast'[l].owed \cap Passed(clients', cast'[l].next)) <= cast'[l].left
  <2>1. /\ clients' = Without(clients, gone)
        /\ cast'[l].next = cast[l].next /\ cast'[l].owed = cast[l].owed
        /\ cast'[l].left = cast[l].left + Cardinality(gone \cap Passed(clients, cast[l].next))
    BY <1>6 DEF Leave, Moves
  <2>2. Cardinality(cast[l].owed \cap Passed(Without(clients, gone), cast[l].next))
          <= cast[l].left + Cardinality(gone \cap Passed(clients, cast[l].next))
    BY <1>0, SkipsGrow
  <2> QED BY <2>1, <2>2
<1> HIDE DEF skipped
<1> QED BY <1>1, <1>2, <1>3, <1>4, <1>5, <1>6, CastMoves

\* The handlers that await their accept, and the length of the list.
LEMMA RoomStep == HubShape /\ ListedOnce /\ RoomKept /\ [HubNext]_hubVars => RoomKept'
<1> SUFFICES ASSUME HubShape, ListedOnce, RoomKept, [HubNext]_hubVars PROVE RoomKept'
  OBVIOUS
<1>0. /\ clients \in Seq(Connections) /\ Len(clients) \in Nat /\ atOnce \in Nat /\ MaxClients \in Nat
      /\ IsFiniteSet(Accepting) /\ Cardinality(Accepting) \in Nat
  BY LenProperties, FS_CardinalityType, HubAssumption DEF HubShape, RoomKept
<1>1. ASSUME Accepting' \subseteq Accepting, Len(clients') \in Nat, Len(clients') <= Len(clients), atOnce' = atOnce
      PROVE  RoomKept'
  <2>1. IsFiniteSet(Accepting') /\ Cardinality(Accepting') <= Cardinality(Accepting) /\ Cardinality(Accepting') \in Nat
    BY <1>0, <1>1, FS_Subset, FS_CardinalityType
  <2> QED BY <1>0, <1>1, <2>1 DEF RoomKept
<1>2. ASSUME NEW v \in Viewers, ClientConnects(v) PROVE RoomKept'
  <2>1. PICK i \in 1..MaxConnections :
          handler[<<v, i>>] = "none" /\ handler' = [handler EXCEPT ![<<v, i>>] = "accepting"]
    BY <1>2 DEF ClientConnects
  <2>2. <<v, i>> \in Connections
    BY DEF Connections
  <2>3. Accepting' = Accepting \cup {<<v, i>>} /\ <<v, i>> \notin Accepting
    BY <2>1, <2>2 DEF Accepting, HubShape
  <2>4. IsFiniteSet(Accepting') /\ Cardinality(Accepting') = Cardinality(Accepting) + 1
    BY <1>0, <2>3, FS_AddElement
  <2>5. /\ Len(clients) < MaxClients /\ clients' = clients
        /\ atOnce' = IF Cardinality(Accepting) < atOnce THEN atOnce ELSE Cardinality(Accepting) + 1
    BY <1>2 DEF ClientConnects
  <2> QED BY <1>0, <2>4, <2>5 DEF RoomKept
<1>3. ASSUME NEW c \in Connections, ClientListed(c) PROVE RoomKept'
  <2>1. Accepting' = Accepting \ {c} /\ c \in Accepting
    BY <1>3 DEF ClientListed, Accepting, HubShape
  <2>2. IsFiniteSet(Accepting') /\ Cardinality(Accepting') = Cardinality(Accepting) - 1
    BY <1>0, <2>1, FS_RemoveElement
  <2>3. Len(clients') = Len(clients) + 1 /\ atOnce' = atOnce
    BY <1>0, <1>3, AppendProperties DEF ClientListed
  <2> QED BY <1>0, <2>2, <2>3 DEF RoomKept
<1>4. CASE RestartHub
  <2>1. Accepting' = {} /\ Len(clients') = 0 /\ atOnce' = atOnce
    BY <1>4 DEF RestartHub, Accepting
  <2> QED BY <1>0, <1>1, <2>1
<1>5. CASE /\ ~RestartHub /\ \A v \in Viewers : ~ClientConnects(v)
           /\ \A c \in Connections : ~ClientListed(c)
  <2>1. Len(clients') \in Nat /\ Len(clients') <= Len(clients)
    <3>1. ASSUME NEW gone, Leave(gone) PROVE Len(clients') \in Nat /\ Len(clients') <= Len(clients)
      BY <3>1, LeaveShape, LenProperties, SMTT(30)
    <3> QED BY <1>0, <1>5, <3>1, ListMoves
  <2>2. /\ atOnce' = atOnce
        /\ \/ UNCHANGED handler
           \/ \E v \in Viewers : ClientGreeted(v)
           \/ \E d \in Connections, listed \in BOOLEAN : HandlerEnds(d, listed)
    BY <1>5, ZenonT(40) DEF HubNext, hubVars, LinkUp, Hear, HearLate, Receive, Enqueue, LinkDown, CastNext, CastEnds, ClientGreeted,
                ClientGoes, HandlerEnds, Poll, PollArrives, pageSide
  <2>3. Accepting' \subseteq Accepting
    <3>1. CASE UNCHANGED handler
      BY <3>1 DEF Accepting
    <3>2. ASSUME NEW v \in Viewers, ClientGreeted(v) PROVE Accepting' \subseteq Accepting
      BY <3>2 DEF ClientGreeted, Accepting, HubShape
    <3>3. ASSUME NEW d \in Connections, NEW listed \in BOOLEAN, HandlerEnds(d, listed)
          PROVE  Accepting' \subseteq Accepting
      BY <3>3 DEF HandlerEnds, Accepting, HubShape
    <3> QED BY <2>2, <3>1, <3>2, <3>3
  <2> QED BY <1>1, <2>1, <2>2, <2>3
<1> QED BY <1>2, <1>3, <1>4, <1>5

\* All of it holds of every state of the hub and its pages (backend/routers/ws.py).
THEOREM HubInvariant == HubSpec => []HubInv
<1>1. HubInit => HubInv
  BY HubBegins
<1>2. HubInv /\ [HubNext]_hubVars => HubInv'
  BY ShapeStep, KnowsStep, BehindStep, RealStep, AloneStep, ListedStep, SkipsStep, RoomStep DEF HubInv
<1> QED BY <1>1, <1>2, PTL DEF HubSpec

\* Nothing is shown that a restarted hub would not know, a status goes back over one
\* connection only if two broadcasts ran at once, a broadcast skips no more pages than
\* connections left the list from places it had passed, and the list outgrows its limit by
\* no more than the pages that awaited their accept at once: for any number of agents,
\* of their connections, of pages and of theirs.
THEOREM HubIsSound == HubSpec => []HubSound
<1>1. HubInv => HubSound
  <2> SUFFICES ASSUME HubInv PROVE HubSound
    OBVIOUS
  <2> USE DEF HubInv
  <2>1. HubTypeOK
    <3>1. ToSet(clients) \subseteq Connections
      BY ElementOfSeq, LenProperties DEF HubShape, ToSet
    <3> QED BY <3>1 DEF HubTypeOK, HubShape, Active, Handling
  <2>2. SeenIsOnDisk
    <3>1. /\ "status" \in MessageKinds
          /\ \A v \in Viewers : page[v] <= total["status"] /\ \A k \in MessageKinds : got[v][k] <= total[k]
      BY DEF PagesBehind, MessageKinds
    <3>2. \A k \in MessageKinds : disk[k] = total[k] \/ (hubRestarts > 0 /\ disk[k] = 0)
      BY DEF HubKnows
    <3> QED BY <3>1, <3>2 DEF SeenIsOnDisk
  <2>3. SocketInOrder
    BY DEF CastAlone, SocketInOrder
  <2>4. FewSkipped
    <3> SUFFICES ASSUME NEW l \in Links, cast[l].next > Len(clients)
                 PROVE  Cardinality(cast[l].owed \cap ToSet(clients)) <= cast[l].left
      BY DEF FewSkipped
    <3>1. cast[l].next \in Nat /\ clients \in Seq(Connections)
      BY DEF HubShape, Broadcast
    <3>2. Passed(clients, cast[l].next) = ToSet(clients)
      BY <3>1, PassedAre
    <3> QED BY <3>2 DEF SkipsCounted
  <2>5. CapHeld
    <3>1. Cardinality(Accepting) \in Nat /\ Len(clients) \in Nat /\ atOnce \in Nat /\ MaxClients \in Nat
      BY FS_CardinalityType, LenProperties, HubAssumption DEF HubShape, RoomKept
    <3> QED BY <3>1 DEF CapHeld, RoomKept
  <2> QED BY <2>1, <2>2, <2>3, <2>4, <2>5 DEF HubSound
<1> QED BY <1>1, HubInvariant, PTL
=============================================================================
