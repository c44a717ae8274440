----------------------------- MODULE LapCapture -----------------------------
(***************************************************************************)
(* What a race leaves of its laps on the desktop: agent/telemetry_buffer.py *)
(* while it runs, the snapshot at its end, and the practice session that    *)
(* agent/personal_session_sync.py makes of it on the backend                *)
(* (backend/routers/practice.py) in three requests without a retry.         *)
(*                                                                          *)
(* Lap data says how long the lap before took, session histories repeat all *)
(* laps so far; both come late, repeatedly and with gaps, per car.  Samples *)
(* are only there or not.  A time of 0 is no time.                          *)
(***************************************************************************)
EXTENDS Naturals, FiniteSets, FiniteSetsExt

CONSTANTS CaptureCars,  \* vehicle indices
          LapCount,     \* laps each car drives
          LapMs,        \* how long each car took for each lap
          Spoilt,       \* <<car, lap>> the game calls invalid
          MaxRaces

ASSUME CaptureAssumption == /\ CaptureCars \subseteq Nat /\ MaxRaces \in Nat /\ LapCount \in [CaptureCars -> Nat]
                            /\ DOMAIN LapMs = CaptureCars
                            /\ \A v \in CaptureCars : LapMs[v] \in [1..LapCount[v] -> Nat \ {0}]

VARIABLES
    capturing,  \* _running
    latestLap,  \* the lap in _latest, 0 when none has come
    placed,     \* cars whose position has come
    taken,      \* _buffers: <<car, lap>> with samples
    lapTimes,   \* _buffers: times of laps that have an entry
    histories,  \* _session_history: times by lap, of the cars that have one
    snapshot,   \* what the last race left
    syncAt,     \* the next request of the sync of that snapshot
    sessions,   \* practice_sessions and practice_laps
    captured,   \* races captured
    told,       \* history: <<car, lap, source>> whose time has come in this race
    known       \* history: taken and told, when the snapshot was made

racing      == <<latestLap, placed, taken, lapTimes, histories, told>>
captureVars == <<capturing, racing, snapshot, syncAt, sessions, captured, known>>

LapsOf(v)   == 1..LapCount[v]
LapKeys     == UNION {{v} \X LapsOf(v) : v \in CaptureCars}
NoRace      == [laps |-> <<>>, histories |-> <<>>]

CaptureTypeOK ==
    /\ capturing \in BOOLEAN
    /\ DOMAIN latestLap = CaptureCars /\ \A v \in CaptureCars : latestLap[v] \in 0..LapCount[v] + 1
    /\ placed \subseteq CaptureCars
    /\ taken \subseteq CaptureCars \X Nat
    /\ DOMAIN lapTimes \subseteq LapKeys
    /\ \A k \in DOMAIN lapTimes : lapTimes[k] \in Nat
    /\ DOMAIN histories \subseteq CaptureCars
    /\ \A v \in DOMAIN histories : \A l \in DOMAIN histories[v] : l \in LapsOf(v) /\ histories[v][l].ms \in Nat
    /\ syncAt \in {"none", "create", "laps", "end"}
    /\ captured \in 0..MaxRaces
    /\ told \subseteq LapKeys \X {"lap", "history"}

CaptureInit ==
    /\ capturing = FALSE
    /\ latestLap = [v \in CaptureCars |-> 0]
    /\ placed = {} /\ taken = {} /\ lapTimes = <<>> /\ histories = <<>> /\ told = {}
    /\ snapshot = NoRace
    /\ syncAt = "none"
    /\ sessions = <<>>
    /\ captured = 0
    /\ known = [taken |-> {}, told |-> {}]

-----------------------------------------------------------------------------
(* The buffer while a race runs.                                            *)

ClearBuffer ==
    /\ latestLap' = [v \in CaptureCars |-> 0]
    /\ placed' = {} /\ taken' = {} /\ lapTimes' = <<>> /\ histories' = <<>> /\ told' = {}

StartCollecting ==
    /\ captured < MaxRaces
    /\ captured' = captured + 1
    /\ capturing' = TRUE
    /\ ClearBuffer
    /\ UNCHANGED <<snapshot, syncAt, sessions, known>>

UpdateMotion(v) ==
    /\ capturing
    /\ placed' = placed \cup {v}
    /\ UNCHANGED <<capturing, latestLap, taken, lapTimes, histories, told, snapshot, syncAt, sessions, captured, known>>

\* Mutated form: the time is taken for the lap that has begun.
TimeOfNew(v, lap, ms) == IF ms = 0 \/ lap \notin LapsOf(v) THEN lapTimes
                         ELSE [k \in DOMAIN lapTimes \cup {<<v, lap>>} |->
                                 IF k = <<v, lap>> THEN ms ELSE lapTimes[k]]

\* last_lap_ms is the time of the lap before, which may have no samples.
TimeOfLast(v, lap, ms) ==
    IF ms = 0 \/ lap = 1 THEN lapTimes
    ELSE [k \in DOMAIN lapTimes \cup {<<v, lap - 1>>} |-> IF k = <<v, lap - 1>> THEN ms ELSE lapTimes[k]]

UpdateLap(v, ms) ==
    /\ capturing
    /\ \E lap \in (latestLap[v]..latestLap[v] + 1) \cap (1..LapCount[v] + 1) :
          /\ ms \in {0} \cup {LapMs[v][l] : l \in {lap - 1} \cap LapsOf(v)}
          /\ latestLap' = [latestLap EXCEPT ![v] = lap]
          /\ lapTimes' = TimeOfLast(v, lap, ms)
          /\ told' = IF ms = 0 THEN told ELSE told \cup {<<<<v, lap - 1>>, "lap">>}
    /\ UNCHANGED <<capturing, placed, taken, histories, snapshot, syncAt, sessions, captured, known>>

\* One turn of the sampler: every car whose lap and position have come.
SampleCars ==
    /\ capturing
    /\ taken' = taken \cup {<<v, latestLap[v]>> : v \in {c \in placed : latestLap[c] >= 1}}
    /\ UNCHANGED <<capturing, latestLap, placed, lapTimes, histories, told, snapshot, syncAt, sessions, captured, known>>

\* Mutated form: the packet that came last wins, with its gaps.
MergeLast(old, new) == [l \in DOMAIN old \cup DOMAIN new |-> IF l \in DOMAIN new THEN new[l] ELSE old[l]]

\* _merge_history: a time is replaced by a time only; laps of either are kept.
MergeHistory(old, new) ==
    [l \in DOMAIN old \cup DOMAIN new |->
        IF l \notin DOMAIN new THEN old[l]
        ELSE IF new[l].ms = 0 /\ l \in DOMAIN old THEN [new[l] EXCEPT !.ms = old[l].ms] ELSE new[l]]

\* A history up to lap n, with no time for the laps in "gaps": the one under way.
HistoryOf(v, n, gaps) ==
    [l \in 1..n |-> [ms |-> IF l \in gaps THEN 0 ELSE LapMs[v][l], valid |-> <<v, l>> \notin Spoilt]]

UpdateHistory(v, n, gaps) ==
    /\ capturing
    /\ LET old == IF v \in DOMAIN histories THEN histories[v] ELSE <<>>
       IN  histories' = [c \in DOMAIN histories \cup {v} |->
                            IF c = v THEN MergeHistory(old, HistoryOf(v, n, gaps)) ELSE histories[c]]
    /\ told' = told \cup {<<<<v, l>>, "history">> : l \in (1..n) \ gaps}
    /\ UNCHANGED <<capturing, latestLap, placed, taken, lapTimes, snapshot, syncAt, sessions, captured, known>>

-----------------------------------------------------------------------------
(* The end of a race.                                                       *)

HistoryTime(v, l) ==
    IF v \in DOMAIN histories /\ l \in DOMAIN histories[v] THEN histories[v][l].ms ELSE 0

\* Mutated form: only lap data gives a lap its time.
TimesWithoutHistory(k) == IF k \in DOMAIN lapTimes THEN lapTimes[k] ELSE 0

\* finalize: a lap without a time takes that of the history.
FinalTime(k) == IF k \in DOMAIN lapTimes THEN lapTimes[k] ELSE HistoryTime(k[1], k[2])

\* stop_and_snapshot: laps without samples are dropped.
Finalized == [laps |-> [k \in taken |-> FinalTime(k)], histories |-> histories]

HasData(s) == DOMAIN s.laps # {} \/ DOMAIN s.histories # {}

\* In personal mode a snapshot with anything in it is synced, by a thread of its own.
FinishRace ==
    /\ capturing
    /\ syncAt = "none"
    /\ capturing' = FALSE
    /\ snapshot' = Finalized
    /\ known' = [taken |-> taken, told |-> told]
    /\ syncAt' = IF HasData(Finalized) THEN "create" ELSE "none"
    /\ ClearBuffer
    /\ UNCHANGED <<sessions, captured>>

\* A rollover or a shutdown.
DropRace ==
    /\ capturing
    /\ capturing' = FALSE
    /\ ClearBuffer
    /\ UNCHANGED <<snapshot, syncAt, sessions, captured, known>>

-----------------------------------------------------------------------------
(* The practice session.                                                    *)

CarsOf(s) == DOMAIN s.histories \cup {k[1] : k \in DOMAIN s.laps}

\* Car 0 when it has any data, else one of the others that have.
SelectVehicle(s) == CHOOSE v \in CarsOf(s) : (0 \in CarsOf(s) => v = 0) /\ \A c \in CarsOf(s) : v <= c

\* _build_laps: the laps of the history, then those that only the buffer knows;
\* laps without any time are left out.
BuildLaps(s) ==
    LET v    == SelectVehicle(s)
        past == IF v \in DOMAIN s.histories THEN s.histories[v] ELSE <<>>
        own(l) == IF <<v, l>> \in DOMAIN s.laps THEN s.laps[<<v, l>>] ELSE 0
        ms(l)  == IF l \in DOMAIN past /\ past[l].ms > 0 THEN past[l].ms ELSE own(l)
    IN  {[lap |-> l, ms |-> ms(l), valid |-> l \in DOMAIN past => past[l].valid] :
            l \in {n \in LapsOf(v) : ms(n) > 0}}

\* POST /sessions.  A request may be answered, fail, or be done and not answered.
CreateSession(done, answered) ==
    /\ syncAt = "create"
    /\ sessions' = IF done /\ BuildLaps(snapshot) # {}
                   THEN [i \in DOMAIN sessions \cup {Cardinality(DOMAIN sessions) + 1} |->
                           IF i \in DOMAIN sessions THEN sessions[i]
                           ELSE [laps |-> {}, total |-> 0, best |-> 0, ended |-> FALSE, car |-> SelectVehicle(snapshot)]]
                   ELSE sessions
    /\ syncAt' = IF done /\ answered /\ BuildLaps(snapshot) # {} THEN "laps" ELSE "none"
    /\ UNCHANGED <<capturing, racing, snapshot, captured, known>>

\* The session this sync has made, the last one.
Mine == Cardinality(DOMAIN sessions)

MinOf(S) == CHOOSE x \in S : \A y \in S : x <= y

\* POST /sessions/{id}/laps: the rows, and the totals computed from them.
AddLaps(done, answered) ==
    /\ syncAt = "laps"
    /\ LET laps  == BuildLaps(snapshot)
           valid == {r.ms : r \in {x \in laps : x.valid}}
       IN  sessions' = IF ~done THEN sessions
                       ELSE [sessions EXCEPT ![Mine].laps = laps, ![Mine].total = Cardinality(laps),
                                             ![Mine].best = IF valid = {} THEN 0 ELSE MinOf(valid)]
    /\ syncAt' = IF done /\ answered THEN "end" ELSE "none"
    /\ UNCHANGED <<capturing, racing, snapshot, captured, known>>

EndSession(done) ==
    /\ syncAt = "end"
    /\ sessions' = IF done THEN [sessions EXCEPT ![Mine].ended = TRUE] ELSE sessions
    /\ syncAt' = "none"
    /\ UNCHANGED <<capturing, racing, snapshot, captured, known>>

CaptureNext ==
    \/ StartCollecting \/ SampleCars \/ FinishRace \/ DropRace
    \/ \E v \in CaptureCars :
          \/ UpdateMotion(v)
          \/ \E ms \in {0} \cup {LapMs[v][l] : l \in LapsOf(v)} : UpdateLap(v, ms)
          \/ \E n \in LapsOf(v) : \E gaps \in {{}, {n}} : UpdateHistory(v, n, gaps)
    \/ \E done, answered \in BOOLEAN : CreateSession(done, answered) \/ AddLaps(done, answered)
    \/ \E done \in BOOLEAN : EndSession(done)

CaptureSpec == CaptureInit /\ [][CaptureNext]_captureVars

-----------------------------------------------------------------------------

\* In whatever order the packets came, the snapshot has the laps that were sampled,
\* each with its time if lap data or a history ever told it, and none otherwise.
SnapshotExact ==
    \A k \in DOMAIN snapshot.laps \cup (known.taken \cap LapKeys) :
        /\ k \in DOMAIN snapshot.laps
        /\ snapshot.laps[k] = IF \E source \in {"lap", "history"} : <<k, source>> \in known.told
                              THEN LapMs[k[1]][k[2]] ELSE 0

\* A practice session lists laps of one car, each once and as long as it took, and
\* its totals are those of its laps; one that is ended lists some.
PracticeExact ==
    \A i \in DOMAIN sessions :
        LET s == sessions[i]
        IN  /\ \A r \in s.laps : r.ms = LapMs[s.car][r.lap]
            /\ \A r, q \in s.laps : r.lap = q.lap => r = q
            /\ s.total = Cardinality(s.laps)
            /\ \A r \in s.laps : r.valid => 0 < s.best /\ s.best <= r.ms
            /\ s.ended => s.laps # {}

CaptureSound == CaptureTypeOK /\ SnapshotExact /\ PracticeExact
=============================================================================
