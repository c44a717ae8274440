----------------------------- MODULE RaceSubmit -----------------------------
(***************************************************************************)
(* POST /api/race/submit (backend/routers/races.py) and the round detector *)
(* (backend/services/round_detector.py).                                   *)
(*                                                                         *)
(* Agents send the result of a session, and send it again when they got no *)
(* answer; handlers of the same and of other sessions run concurrently,    *)
(* each in a transaction of its own.  A SELECT sees what is committed when *)
(* it runs; an INSERT of a session_uid that another transaction has        *)
(* inserted waits for that transaction to end, and fails if it commits.    *)
(* The handler that creates the race schedules the background jobs, which  *)
(* run in its process after the reply.                                     *)
(*                                                                         *)
(* All requests are for one season, which exists.                          *)
(***************************************************************************)
EXTENDS Naturals, FiniteSets

CONSTANTS Requests,    \* calls of the handler
          Uids,        \* session_uid values
          Tracks,      \* track_id values
          Calendar,    \* the season's calendar: the round of each of its tracks
          RaceIds,     \* primary keys of races
          NoRace,      \* no primary key
          MaxCrashes   \* bound: crashes of the backend

ASSUME ConstantsAssumption ==
    /\ DOMAIN Calendar \subseteq Tracks
    /\ \A t \in DOMAIN Calendar : Calendar[t] \in Nat
    /\ NoRace \notin RaceIds
    /\ MaxCrashes \in Nat

VARIABLES
    races,      \* the races table, as committed
    track,      \* the track each session was driven on
    pc,         \* what each handler does next
    uid,        \* the session of each request
    round,      \* the round its handler has detected
    row,        \* the id of the row it has inserted, or NoRace
    reply,      \* what it replied
    ran,        \* history: <<request, race>> whose background jobs were run
    crashes

vars == <<races, track, pc, uid, round, row, reply, ran, crashes>>

Labels   == {"new", "check", "detect", "round", "insert", "reload", "commit",
             "broken", "reply", "jobs", "done"}
Row      == [id : RaceIds, uid : Uids, track : Tracks, round : Nat, recent : BOOLEAN]
Statuses == {"none", "ok", "duplicate", "error"}

TypeOK ==
    /\ races \subseteq Row /\ IsFiniteSet(races)
    /\ track \in [Uids -> Tracks]
    /\ pc \in [Requests -> Labels]
    /\ uid \in [Requests -> Uids]
    /\ round \in [Requests -> Nat]
    /\ row \in [Requests -> RaceIds \cup {NoRace}]
    /\ reply \in [Requests -> [status : Statuses, id : RaceIds \cup {NoRace}]]
    /\ ran \subseteq Requests \X RaceIds
    /\ crashes \in 0..MaxCrashes

NoReply == [status |-> "none", id |-> NoRace]

Init ==
    /\ races = {}
    /\ track \in [Uids -> Tracks]
    /\ pc = [r \in Requests |-> "new"]
    /\ uid \in [Requests -> Uids]
    /\ round = [r \in Requests |-> 0]
    /\ row = [r \in Requests |-> NoRace]
    /\ reply = [r \in Requests |-> NoReply]
    /\ ran = {}
    /\ crashes = 0

-----------------------------------------------------------------------------
(* Queries.                                                                *)

Goto(r, label) == pc' = [pc EXCEPT ![r] = label]

\* _load_existing_race_by_session_uid.
RacesOf(u) == {race \in races : race.uid = u}
Known(u)   == RacesOf(u) # {}
IdOf(u)    == IF Known(u) THEN (CHOOSE race \in RacesOf(u) : TRUE).id ELSE NoRace

Held(t) == \E race \in races : race.track = t

\* Mutated form: a recent race on any track is taken for a reconnect.
ReconnectsAnywhere(t) == \E race \in races : race.recent

\* The same track within 30 minutes, under another session_uid.
Reconnects(t) == \E race \in races : race.track = t /\ race.recent

\* detect_round; submit_race makes 1 of the None of "reconnect" and "new_season".
DetectedRound(t) ==
    IF Reconnects(t) THEN 1
    ELSE IF t \in DOMAIN Calendar /\ ~Held(t) THEN Calendar[t]
    ELSE IF DOMAIN Calendar # {} /\ \A c \in DOMAIN Calendar : Held(c) THEN 1
    ELSE Cardinality(races) + 1

Answer(r, status, id) ==
    /\ reply' = [reply EXCEPT ![r] = [status |-> status, id |-> id]]
    /\ Goto(r, IF status = "ok" THEN "jobs" ELSE "done")

-----------------------------------------------------------------------------
(* submit_race.                                                            *)

Send(r) ==
    /\ pc[r] = "new"
    /\ Goto(r, "check")
    /\ UNCHANGED <<races, track, uid, round, row, reply, ran, crashes>>

CheckDuplicate(r) ==
    /\ pc[r] = "check"
    /\ IF Known(uid[r]) THEN Answer(r, "duplicate", IdOf(uid[r]))
       ELSE Goto(r, "detect") /\ UNCHANGED reply
    /\ UNCHANGED <<races, track, uid, round, row, ran, crashes>>

\* detect_round looks for the session again.
DetectDuplicate(r) ==
    /\ pc[r] = "detect"
    /\ Goto(r, IF Known(uid[r]) THEN "reload" ELSE "round")
    /\ UNCHANGED <<races, track, uid, round, row, reply, ran, crashes>>

\* ... and reads the season's races; then the players are looked up, which
\* may take long and commits nothing about races.
DetectRound(r) ==
    /\ pc[r] = "round"
    /\ round' = [round EXCEPT ![r] = DetectedRound(track[uid[r]])]
    /\ Goto(r, "insert")
    /\ UNCHANGED <<races, track, uid, row, reply, ran, crashes>>

\* Mutated form: session_uid is not unique.
InsertAnyway(r, id) ==
    /\ pc[r] = "insert"
    /\ \A race \in races : race.id # id
    /\ \A q \in Requests : row[q] # id
    /\ row' = [row EXCEPT ![r] = id]
    /\ Goto(r, "commit")
    /\ UNCHANGED <<races, track, uid, round, reply, ran, crashes>>

\* flush: the row is inserted, and its session_uid is locked until the end of
\* the transaction.
Insert(r, id) ==
    /\ pc[r] = "insert"
    /\ ~Known(uid[r])
    /\ \A q \in Requests : row[q] # NoRace => uid[q] # uid[r]
    /\ \A race \in races : race.id # id
    /\ \A q \in Requests : row[q] # id
    /\ row' = [row EXCEPT ![r] = id]
    /\ Goto(r, "commit")
    /\ UNCHANGED <<races, track, uid, round, reply, ran, crashes>>

\* IntegrityError: roll back and look for the race that is in the way.
InsertConflicts(r) ==
    /\ pc[r] = "insert"
    /\ Known(uid[r])
    /\ Goto(r, "reload")
    /\ UNCHANGED <<races, track, uid, round, row, reply, ran, crashes>>

\* Mutated form: the duplicate is reported without its race.
ReloadNothing(r) ==
    /\ pc[r] = "reload"
    /\ Answer(r, "duplicate", NoRace)
    /\ UNCHANGED <<races, track, uid, round, row, ran, crashes>>

\* Mutated form: the race found is reported as if this handler had created it.
ReloadAsCreated(r) ==
    /\ pc[r] = "reload"
    /\ Answer(r, IF Known(uid[r]) THEN "ok" ELSE "error", IdOf(uid[r]))
    /\ UNCHANGED <<races, track, uid, round, row, ran, crashes>>

\* The race in the way is looked up again; races are never deleted.  If there is none, the
\* error goes on.
Reload(r) ==
    /\ pc[r] = "reload"
    /\ IF Known(uid[r]) THEN Answer(r, "duplicate", IdOf(uid[r]))
       ELSE Answer(r, "error", NoRace)
    /\ UNCHANGED <<races, track, uid, round, row, ran, crashes>>

\* The race, its results and its events become visible together.
CommitRow(r) ==
    races' = races \cup {[id |-> row[r], uid |-> uid[r], track |-> track[uid[r]],
                          round |-> round[r], recent |-> TRUE]}

Commit(r) ==
    /\ pc[r] = "commit"
    /\ CommitRow(r)
    /\ Goto(r, "reply")
    /\ UNCHANGED <<track, uid, round, row, reply, ran, crashes>>

\* Mutated form: a failed handler leaves its transaction open.
FailsWithoutRollback(r) ==
    /\ pc[r] \in {"check", "detect", "round", "insert", "reload", "commit"}
    /\ Answer(r, "error", NoRace)
    /\ UNCHANGED <<races, track, uid, round, row, ran, crashes>>

\* The connection is lost during COMMIT, after the database has committed.
CommitUnanswered(r) ==
    /\ pc[r] = "commit"
    /\ CommitRow(r)
    /\ row' = [row EXCEPT ![r] = NoRace]
    /\ Goto(r, "broken")
    /\ UNCHANGED <<track, uid, round, reply, ran, crashes>>

CommitRaises(r) ==
    /\ pc[r] = "broken"
    /\ Answer(r, "error", NoRace)
    /\ UNCHANGED <<races, track, uid, round, row, ran, crashes>>

\* IntegrityError on COMMIT, of a row of its results: roll back, and look for the race
\* that another handler may have recorded meanwhile.
CommitConflicts(r) ==
    /\ pc[r] = "commit"
    /\ row' = [row EXCEPT ![r] = NoRace]
    /\ Goto(r, "reload")
    /\ UNCHANGED <<races, track, uid, round, reply, ran, crashes>>

\* Any other error: 500, and the transaction is rolled back.
Fails(r) ==
    /\ pc[r] \in {"check", "detect", "round", "insert", "reload", "commit"}
    /\ Answer(r, "error", NoRace)
    /\ row' = [row EXCEPT ![r] = NoRace]
    /\ UNCHANGED <<races, track, uid, round, ran, crashes>>

\* The reply; the background jobs are scheduled with it.
ReplyCreated(r) ==
    /\ pc[r] = "reply"
    /\ Answer(r, "ok", row[r])
    /\ row' = [row EXCEPT ![r] = NoRace]
    /\ UNCHANGED <<races, track, uid, round, ran, crashes>>

\* recalc_standings, _update_ratings and notify_race_uploaded, one after the
\* other; a job that fails is logged and the next one runs.
RunJobs(r) ==
    /\ pc[r] = "jobs"
    /\ ran' = ran \cup {<<r, reply[r].id>>}
    /\ Goto(r, "done")
    /\ UNCHANGED <<races, track, uid, round, row, reply, crashes>>

-----------------------------------------------------------------------------
\* Half an hour has passed since a race was recorded.
Age(race) ==
    /\ race.recent
    /\ races' = (races \ {race}) \cup {[race EXCEPT !.recent = FALSE]}
    /\ UNCHANGED <<track, pc, uid, round, row, reply, ran, crashes>>

\* The backend dies: its transactions are rolled back, its jobs are gone.
Crash ==
    /\ crashes < MaxCrashes
    /\ crashes' = crashes + 1
    /\ pc' = [r \in Requests |-> IF pc[r] = "new" THEN "new" ELSE "done"]
    /\ row' = [r \in Requests |-> NoRace]
    /\ UNCHANGED <<races, track, uid, round, reply, ran>>

Handler(r) ==
    \/ CheckDuplicate(r) \/ DetectDuplicate(r) \/ DetectRound(r)
    \/ InsertConflicts(r) \/ Reload(r) \/ Commit(r) \/ CommitRaises(r)
    \/ ReplyCreated(r) \/ RunJobs(r)
    \/ \E id \in RaceIds : Insert(r, id)

Next ==
    \/ \E r \in Requests : Send(r) \/ Handler(r) \/ CommitUnanswered(r) \/ CommitConflicts(r) \/ Fails(r)
    \/ \E race \in races : Age(race)
    \/ Crash

Spec == Init /\ [][Next]_vars

\* The event loop runs every handler; the database answers or fails.
LiveSpec == Spec /\ \A r \in Requests : WF_vars(Handler(r))

-----------------------------------------------------------------------------
(* Properties.                                                             *)

\* A session becomes one race however many handlers insert it at once, and one
\* reply at most says so: the promise that Delivery's RecordRace relies on.
Registry == INSTANCE RaceRegistry
            WITH recorded <- [u \in Uids |-> IdOf(u)], replies <- reply

ImplementsRegistry == Registry!RegistrySpec

\* Whichever way a handler came to know that its session is recorded already, it
\* names that race, which the agent binds its telemetry to.
RepliesTrue ==
    \A r \in Requests : reply[r].status \in {"ok", "duplicate"} =>
        \E race \in races : race.uid = uid[r] /\ race.id = reply[r].id

\* The jobs of a race run once, so no player is rated twice for it.
JobsOnce == \A a, b \in ran : a[2] = b[2] => a = b

\* A track of the calendar that has been raced on has been given its own round,
\* whatever was submitted at the same time or shortly before.
CalendarKept ==
    \A t \in DOMAIN Calendar :
        Held(t) => \E race \in races : race.track = t /\ race.round = Calendar[t]

\* Rows on their way to the table: each is of a session of its own that is not
\* in the table yet, under an id of its own.
RowsApart ==
    /\ \A r \in Requests : row[r] # NoRace <=> pc[r] \in {"commit", "reply"}
    /\ \A q, r \in Requests : row[r] # NoRace /\ row[q] = row[r] => q = r
    /\ \A q, r \in Requests : pc[r] = "commit" /\ pc[q] = "commit" /\ uid[q] = uid[r] => q = r
    /\ \A r \in Requests : pc[r] = "commit" =>
          \A race \in races : race.uid # uid[r] /\ race.id # row[r]

\* Rows in the table.
RacesApart ==
    \A a, b \in races : a.id = b.id \/ a.uid = b.uid => a = b

\* A handler that has still to say that it created a race did, and nobody else
\* has said so.
CreatedTrue ==
    /\ \A r \in Requests : pc[r] = "reply" =>
          \E race \in races : race.id = row[r] /\ race.uid = uid[r]
    /\ \A r \in Requests : pc[r] = "jobs" => reply[r].status = "ok"
    /\ \A q, r \in Requests : reply[q].status = "ok" /\ row[r] # NoRace => reply[q].id # row[r]
    /\ \A q, r \in Requests :
          reply[q].status = "ok" /\ reply[r].status = "ok" /\ reply[q].id = reply[r].id => q = r
    /\ \A r \in Requests : pc[r] \notin {"jobs", "done"} => reply[r] = NoReply

\* Jobs are run by the handler that created the race, after its reply.
RanTrue == \A a \in ran : pc[a[1]] = "done" /\ reply[a[1]].status = "ok" /\ reply[a[1]].id = a[2]

\* A round that was detected and not yet committed is the calendar's unless its
\* track has a race.
RoundsTrue ==
    \A r \in Requests :
        LET t == track[uid[r]]
        IN  pc[r] \in {"insert", "commit"} /\ t \in DOMAIN Calendar => Held(t) \/ round[r] = Calendar[t]

\* The inductive invariant.
SubmitInv ==
    /\ TypeOK
    /\ RacesApart
    /\ RowsApart
    /\ CreatedTrue
    /\ RanTrue
    /\ RoundsTrue
    /\ RepliesTrue
    /\ CalendarKept

\* No handler waits for ever: whoever holds a session_uid commits or rolls back.
Answered == \A r \in Requests : pc[r] = "check" ~> pc[r] = "done"

\* Every recorded race gets into the standings: "saves to PostgreSQL; backend:
\* recalculates WDC + WCC points" (F1_LEAGUE_SYSTEM_SPEC_v4.md, steps 15 and 16).
RecordedIsProcessed ==
    \A id \in RaceIds :
        (\E race \in races : race.id = id) ~> (\E r \in Requests : <<r, id>> \in ran)
=============================================================================
