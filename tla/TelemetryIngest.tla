--------------------------- MODULE TelemetryIngest ---------------------------
(***************************************************************************)
(* POST /api/telemetry/submit and /session-history                         *)
(* (backend/routers/telemetry.py): laps and session histories of one race  *)
(* arrive from the agents of its players, in any order, repeated and       *)
(* partial, and are merged into what is stored.                            *)
(*                                                                         *)
(* A handler is a sequence of SELECTs and a commit, and handlers           *)
(* interleave between them.  The commit writes the columns that differ     *)
(* from what was loaded; an INSERT of a key in use fails, is rolled back   *)
(* and handled.                                                            *)
(*                                                                         *)
(* The game gives a lap one time, so a request carries it or nothing (0).  *)
(* The samples of a lap are their number, one sector stands for the three, *)
(* one best lap for the four that a history names; lap_valid, which the    *)
(* last sender sets, is left out.                                          *)
(***************************************************************************)
EXTENDS Integers, FiniteSets, FiniteSetsExt

CONSTANTS Requests, Vehicles, Laps,
          LapTime,      \* the time of each lap of each vehicle
          Bodies,       \* what the requests may bring, together
          NoRow         \* no row

LapMsg     == [kind : {"lap"}, vehicle : Vehicles, lap : Laps, time : Nat, samples : Nat]
HistoryLap == [time : Nat, sector : Nat]
History    == [best : Nat, laps : [Laps -> HistoryLap \cup {NoRow}]]
HistoryMsg == [kind : {"history"}, rows : [Vehicles -> History \cup {NoRow}]]
LapRow     == [time : Nat, samples : Nat]

TimesTrue(m) ==
    IF m.kind = "lap" THEN m.time \in {0, LapTime[m.vehicle][m.lap]}
    ELSE \A v \in Vehicles, l \in Laps :
            m.rows[v] # NoRow /\ m.rows[v].laps[l] # NoRow => m.rows[v].laps[l].time \in {0, LapTime[v][l]}

ASSUME IngestAssumption ==
    /\ LapTime \in [Vehicles -> [Laps -> Nat \ {0}]]
    /\ Bodies \subseteq [Requests -> {m \in LapMsg \cup HistoryMsg : TimesTrue(m)}]
    /\ NoRow \notin LapRow \cup History \cup HistoryLap
    /\ IsFiniteSet(Vehicles)

VARIABLES
    lapRows,     \* lap_telemetry
    histories,   \* race_session_history
    body,        \* the body of each request
    at,          \* what its handler does next
    todo,        \* the vehicles of a history it has not merged yet
    time,        \* effective_lap_time
    loadedLaps,  \* the rows it has loaded
    loadedHist,
    retried,     \* it is past a rollback
    answer,
    clobbered    \* history: what an update has overwritten although it changed after the load

stored == <<lapRows, histories>>
memory == <<todo, time, loadedLaps, loadedHist, retried>>
ingestVars == <<stored, body, at, memory, answer, clobbered>>

NoLaps == [v \in Vehicles |-> [l \in Laps |-> NoRow]]
NoHist == [v \in Vehicles |-> NoRow]
Answers == {"none", "skipped", "ok", "updated", "duplicate", "error"}

IngestTypeOK ==
    /\ lapRows \in [Vehicles -> [Laps -> LapRow \cup {NoRow}]]
    /\ histories \in [Vehicles -> History \cup {NoRow}]
    /\ body \in [Requests -> LapMsg \cup HistoryMsg]
    /\ at \in [Requests -> {"new", "lap", "save", "row", "backfill", "done"}]
    /\ todo \in [Requests -> SUBSET Vehicles]
    /\ time \in [Requests -> Nat]
    /\ loadedLaps \in [Requests -> [Vehicles -> [Laps -> LapRow \cup {NoRow}]]]
    /\ loadedHist \in [Requests -> [Vehicles -> History \cup {NoRow}]]
    /\ retried \in [Requests -> BOOLEAN]
    /\ answer \in [Requests -> Answers]
    /\ clobbered \subseteq {"lap", "history"}

IngestInit ==
    /\ lapRows = NoLaps /\ histories = NoHist
    /\ body \in Bodies
    /\ at = [r \in Requests |-> "new"]
    /\ todo = [r \in Requests |-> {}]
    /\ time = [r \in Requests |-> 0]
    /\ loadedLaps = [r \in Requests |-> NoLaps]
    /\ loadedHist = [r \in Requests |-> NoHist]
    /\ retried = [r \in Requests |-> FALSE]
    /\ answer = [r \in Requests |-> "none"]
    /\ clobbered = {}

Step(r, from, to) == at[r] = from /\ at' = [at EXCEPT ![r] = to]
Reply(r, a) == answer' = [answer EXCEPT ![r] = a]
Put(f, r, x) == f' = [f EXCEPT ![r] = x]
First(a, b) == IF a # 0 THEN a ELSE b

\* The time of a lap: its own, or the one its vehicle's history knows.
EffectiveTime(own, hist, l) ==
    IF own # 0 \/ hist = NoRow \/ hist.laps[l] = NoRow THEN own ELSE hist.laps[l].time

-----------------------------------------------------------------------------
(* submit_telemetry *)

Skip(r) ==
    /\ body[r].kind = "lap" /\ body[r].samples = 0
    /\ Step(r, "new", "done") /\ Reply(r, "skipped")
    /\ UNCHANGED <<stored, body, memory, clobbered>>

ReadHistory(r) ==
    /\ body[r].kind = "lap" /\ body[r].samples # 0 /\ Step(r, "new", "lap")
    /\ Put(time, r, EffectiveTime(body[r].time, histories[body[r].vehicle], body[r].lap))
    /\ UNCHANGED <<stored, body, todo, loadedLaps, loadedHist, retried, answer, clobbered>>

ReadLap(r) ==
    /\ Step(r, "lap", "save") /\ Put(loadedLaps, r, lapRows)
    /\ UNCHANGED <<stored, body, todo, time, loadedHist, retried, answer, clobbered>>

MyLap(r) == loadedLaps[r][body[r].vehicle][body[r].lap]
InUse(r) == lapRows[body[r].vehicle][body[r].lap] # NoRow
\* Mutated form: what is sent last is stored, with its gaps.
TimeSent(r) == time[r]
NewTime(r) == IF MyLap(r).time = 0 THEN time[r] ELSE MyLap(r).time
NewSamples(r) == Max({MyLap(r).samples, body[r].samples})

InsertLap(r) ==
    /\ Step(r, "save", "done") /\ MyLap(r) = NoRow /\ ~InUse(r) /\ Reply(r, "ok")
    /\ lapRows' = [lapRows EXCEPT ![body[r].vehicle][body[r].lap] =
                       [time |-> time[r], samples |-> body[r].samples]]
    /\ UNCHANGED <<histories, body, memory, clobbered>>

\* IntegrityError: rolled back, and the row that is there now is read.  The time that may be
\* stored stays the one from before; the history serves only the reply yet, which has no time here.
InsertLapFails(r) ==
    /\ Step(r, "save", "lap") /\ MyLap(r) = NoRow /\ InUse(r)
    /\ UNCHANGED <<stored, body, memory, answer, clobbered>>

UpdateLap(r) ==
    LET v == body[r].vehicle  l == body[r].lap  old == MyLap(r)
    IN  /\ Step(r, "save", "done") /\ old # NoRow
        /\ lapRows' = [lapRows EXCEPT ![v][l] =
               [time    |-> IF NewTime(r) = old.time THEN @.time ELSE NewTime(r),
                samples |-> IF NewSamples(r) = old.samples THEN @.samples ELSE NewSamples(r)]]
        /\ Reply(r, IF [time |-> NewTime(r), samples |-> NewSamples(r)] = old
                    THEN "duplicate" ELSE "updated")
        /\ clobbered' = IF old.samples \in {NewSamples(r), lapRows[v][l].samples} THEN clobbered
                        ELSE clobbered \cup {"lap"}
        /\ UNCHANGED <<histories, body, memory>>

-----------------------------------------------------------------------------
(* submit_session_history *)

\* Vehicles without laps are passed over.
VehiclesOf(r) == {v \in Vehicles : /\ body[r].rows[v] # NoRow
                                   /\ \E l \in Laps : body[r].rows[v].laps[l] # NoRow}
Turn(r) == CHOOSE v \in todo[r] : TRUE

\* Mutated form: the last sender's part replaces what was there.
MergeSent(old, new) == IF new = NoRow THEN old ELSE new

MergeLap(old, new) ==
    IF new = NoRow THEN old
    ELSE IF old = NoRow THEN new
    ELSE [time |-> First(new.time, old.time), sector |-> First(new.sector, old.sector)]

MergeRow(old, new) == [best |-> First(new.best, old.best),
                       laps |-> [l \in Laps |-> MergeLap(old.laps[l], new.laps[l])]]

BeginHistory(r) ==
    /\ body[r].kind = "history" /\ Step(r, "new", "row") /\ Put(todo, r, VehiclesOf(r))
    /\ UNCHANGED <<stored, body, time, loadedLaps, loadedHist, retried, answer, clobbered>>

ReadRow(r) ==
    /\ todo[r] # {} /\ Step(r, "row", "backfill")
    /\ loadedHist' = [loadedHist EXCEPT ![r][Turn(r)] = histories[Turn(r)]]
    /\ UNCHANGED <<stored, body, todo, time, loadedLaps, retried, answer, clobbered>>

\* _backfill_telemetry_lap_times loads the vehicle's laps.
ReadLaps(r) ==
    /\ Step(r, "backfill", "row")
    /\ loadedLaps' = [loadedLaps EXCEPT ![r][Turn(r)] = lapRows[Turn(r)]]
    /\ todo' = [todo EXCEPT ![r] = @ \ {Turn(r)}]
    /\ UNCHANGED <<stored, body, time, loadedHist, retried, answer, clobbered>>

Conflict(r) == \E v \in VehiclesOf(r) : loadedHist[r][v] = NoRow /\ histories[v] # NoRow

\* The row stored for v: inserted, or the columns that the merge has changed.
StoredRow(r, v) ==
    LET old == loadedHist[r][v]
        new == MergeRow(old, body[r].rows[v])
    IN  IF old = NoRow THEN body[r].rows[v]
        ELSE [best |-> IF new.best = old.best THEN histories[v].best ELSE new.best,
              laps |-> IF new.laps = old.laps THEN histories[v].laps ELSE new.laps]

Clobbers(r, v) == /\ loadedHist[r][v] # NoRow /\ StoredRow(r, v).laps # histories[v].laps
                  /\ loadedHist[r][v].laps # histories[v].laps

\* A loaded lap without a time gets the one this body has for it.
Backfilled(r, v, l) ==
    LET row == loadedLaps[r][v][l]  new == body[r].rows[v].laps[l]
    IN  IF row # NoRow /\ row.time = 0 /\ new # NoRow /\ new.time # 0
        THEN [lapRows[v][l] EXCEPT !.time = new.time] ELSE lapRows[v][l]

CommitHistory(r) ==
    /\ Step(r, "row", "done") /\ todo[r] = {} /\ ~Conflict(r) /\ Reply(r, "ok")
    /\ histories' = [v \in Vehicles |-> IF v \in VehiclesOf(r) THEN StoredRow(r, v) ELSE histories[v]]
    /\ lapRows' = [v \in Vehicles |-> [l \in Laps |->
                      IF v \in VehiclesOf(r) THEN Backfilled(r, v, l) ELSE lapRows[v][l]]]
    /\ clobbered' = clobbered \cup (IF \E v \in VehiclesOf(r) : Clobbers(r, v) THEN {"history"} ELSE {})
    /\ UNCHANGED <<body, memory>>

\* IntegrityError: rolled back and done again, once.
RetryHistory(r) ==
    /\ Step(r, "row", "row") /\ todo[r] = {} /\ Conflict(r) /\ ~retried[r]
    /\ Put(retried, r, TRUE) /\ Put(todo, r, VehiclesOf(r))
    /\ UNCHANGED <<stored, body, time, loadedLaps, loadedHist, answer, clobbered>>

HistoryFails(r) ==
    /\ Step(r, "row", "done") /\ todo[r] = {} /\ Conflict(r) /\ retried[r] /\ Reply(r, "error")
    /\ UNCHANGED <<stored, body, memory, clobbered>>

IngestNext ==
    \E r \in Requests :
        \/ Skip(r) \/ ReadHistory(r) \/ ReadLap(r)
        \/ InsertLap(r) \/ InsertLapFails(r) \/ UpdateLap(r)
        \/ BeginHistory(r) \/ ReadRow(r) \/ ReadLaps(r)
        \/ CommitHistory(r) \/ RetryHistory(r) \/ HistoryFails(r)

IngestSpec == IngestInit /\ [][IngestNext]_ingestVars

-----------------------------------------------------------------------------
Taken(kind) == {r \in Requests : answer[r] \in {"ok", "updated", "duplicate"} /\ body[r].kind = kind}
LapsTaken(v, l) == {r \in Taken("lap") : body[r].vehicle = v /\ body[r].lap = l}
HistoryTaken(v, l) == {r \in Taken("history") : v \in VehiclesOf(r) /\ body[r].rows[v].laps[l] # NoRow}

Timed(v, l) == \/ \E r \in LapsTaken(v, l) : body[r].time # 0
               \/ \E r \in HistoryTaken(v, l) : body[r].rows[v].laps[l].time # 0

\* What is stored is the union of what was accepted, whatever the order: a lap has the
\* most samples any of its requests brought and a history the parts any of its requests
\* brought, unless an update wrote over a row that had changed since it was loaded.
MergedWhatCame ==
    \A v \in Vehicles, l \in Laps :
        /\ lapRows[v][l] # NoRow <=> LapsTaken(v, l) # {}
        /\ "lap" \notin clobbered /\ lapRows[v][l] # NoRow =>
               lapRows[v][l].samples = Max({body[r].samples : r \in LapsTaken(v, l)})
        /\ "history" \notin clobbered /\ HistoryTaken(v, l) # {} =>
               LET lap == histories[v].laps[l]
                   Part(p) == {body[r].rows[v].laps[l][p] : r \in HistoryTaken(v, l)}
               IN  lap # NoRow /\ lap.time \in Part("time") /\ lap.sector \in Part("sector")
                   /\ (lap.time = 0 => Part("time") = {0}) /\ (lap.sector = 0 => Part("sector") = {0})

\* A lap's time, once any accepted request carried it, is found when the lap is read,
\* in its row or in the history, also if the two were stored at the same time.
TimesFound ==
    "history" \notin clobbered =>
        \A v \in Vehicles, l \in Laps : lapRows[v][l] # NoRow /\ Timed(v, l) =>
            EffectiveTime(lapRows[v][l].time, histories[v], l) = LapTime[v][l]

IngestSound == IngestTypeOK /\ MergedWhatCame /\ TimesFound

\* The inductive invariant.  What a handler has loaded is no more than what is stored, and
\* comes from accepted requests, as what is stored does; an accepted request is in what is
\* stored.  A clobbered kind is excepted where an update may have taken something away.
Kept(x, v, l) ==
    /\ lapRows[v][l] # NoRow
    /\ x.time # 0 => lapRows[v][l].time # 0
    /\ "lap" \notin clobbered => x.samples =< lapRows[v][l].samples

Covers(old, new) == old # NoRow => /\ new # NoRow
                                   /\ old.time # 0 => new.time # 0
                                   /\ old.sector # 0 => new.sector # 0
InHistory(x, v, l) == "history" \notin clobbered => Covers(x, histories[v].laps[l])

Comes(x, v, l) == x # NoRow =>
    /\ \E r \in HistoryTaken(v, l) : body[r].rows[v].laps[l].time = x.time
    /\ \E r \in HistoryTaken(v, l) : body[r].rows[v].laps[l].sector = x.sector

StageFits(r) ==
    /\ TimesTrue(body[r])
    /\ at[r] \in {"lap", "save"} => body[r].kind = "lap" /\ (body[r].time # 0 => time[r] # 0)
    /\ at[r] \in {"row", "backfill"} => body[r].kind = "history"
    /\ answer[r] # "none" => at[r] = "done"
    /\ body[r].kind = "lap" => time[r] \in {0, LapTime[body[r].vehicle][body[r].lap]}

Loaded(r, v) ==
    /\ \A l \in Laps : loadedLaps[r][v][l] # NoRow => Kept(loadedLaps[r][v][l], v, l)
    /\ loadedHist[r][v] # NoRow =>
           /\ histories[v] # NoRow
           /\ \A l \in Laps : /\ InHistory(loadedHist[r][v].laps[l], v, l)
                              /\ Comes(loadedHist[r][v].laps[l], v, l)

StoredLap(v, l) ==
    /\ lapRows[v][l] # NoRow =>
           /\ lapRows[v][l].time \in {0, LapTime[v][l]}
           /\ \E r \in LapsTaken(v, l) : body[r].samples = lapRows[v][l].samples
    /\ \A r \in LapsTaken(v, l) : Kept(body[r], v, l)

StoredHistory(v) ==
    /\ histories[v] # NoRow => \A l \in Laps : Comes(histories[v].laps[l], v, l)
    /\ \A r \in Taken("history") : v \in VehiclesOf(r) =>
           /\ histories[v] # NoRow
           /\ \A l \in Laps : InHistory(body[r].rows[v].laps[l], v, l)

IngestInv ==
    /\ IngestTypeOK
    /\ \A r \in Requests : StageFits(r)
    /\ \A r \in Requests, v \in Vehicles : Loaded(r, v)
    /\ \A v \in Vehicles, l \in Laps : StoredLap(v, l)
    /\ \A v \in Vehicles : StoredHistory(v)

\* No commit takes away a lap row or the time of one.
LapTimesKept ==
    [][\A v \in Vehicles, l \in Laps : lapRows[v][l] # NoRow =>
           /\ lapRows'[v][l] # NoRow
           /\ lapRows[v][l].time # 0 => lapRows'[v][l].time = lapRows[v][l].time]_ingestVars
=============================================================================
