---------------------------- MODULE LeagueTables ----------------------------
(***************************************************************************)
(* What follows a race: the standings (services/standings_service.py,      *)
(* shared/points_system.py), the ratings (services/glicko2.py) and the     *)
(* stewards' penalties (routers/stewards.py).                              *)
(*                                                                         *)
(* A job is the background jobs of one committed race, which run one after *)
(* the other, or one call of the penalty handler.  Jobs interleave between *)
(* statements.  A SELECT sees what is committed when it runs, a DELETE     *)
(* that meets rows another transaction has deleted waits for it to end,    *)
(* and an INSERT of a key in use fails.  The flush and the COMMIT that     *)
(* follows it are one step: a conflicting flush waits for that commit.     *)
(*                                                                         *)
(* One season, in whose every race all drivers take part.                  *)
(***************************************************************************)
EXTENDS Integers, FiniteSets, Functions

CONSTANTS Races, Penalties,   \* the jobs: of a race, of the penalty handler
          Drivers, Humans,    \* and those of them that are players
          Constructors, TeamOf,      \* the team of each driver
          Outcomes,           \* results a race may be submitted with
          Corrections,        \* seconds a steward adds or removes
          NoTime,             \* no time was recorded
          Ratings,            \* rating values
          Unrated,            \* a player without a rating row
          MaxRestarts         \* bound: restarts of the backend

Finished == 3
BaseRating == 1500
Jobs   == Races \cup Penalties
Places == 1..Cardinality(Drivers)
Times  == Int \cup {NoTime}
Result == [pos : Places, time : Times, status : 0..7, fastest : BOOLEAN, points : Nat, flag : Times]
RatingRow == [rating : Ratings, rated : Nat, peak : Ratings]

ASSUME LeagueAssumption ==
    /\ Races \cap Penalties = {} /\ IsFiniteSet(Races)
    /\ Drivers # {} /\ IsFiniteSet(Drivers) /\ Humans \subseteq Drivers
    /\ TeamOf \in [Drivers -> Constructors]
    /\ Outcomes \subseteq [Drivers -> Result]
    /\ \A o \in Outcomes, d \in Drivers : o[d].flag = o[d].time
    /\ Corrections \subseteq Int \ {0} /\ NoTime \notin Int
    /\ Ratings \subseteq Int /\ BaseRating \in Ratings
    /\ Unrated \notin RatingRow
    /\ MaxRestarts \in Nat

VARIABLES
    results,      \* race_results, by race: the committed races and their rows
    penalties,    \* penalty_corrections: <<the call, its race, its driver, the seconds>>
    wdc, wcc,     \* championship_standings and constructor_standings
    rating,       \* player_ratings
    history,      \* rating_history: <<race, player, before, after>>
    step,         \* what each job does next
    ids,          \* the races a job has listed
    view,         \* the results it has loaded
    doomed,       \* the recalculations whose rows its DELETE concerns
    seen,         \* the rating rows it has loaded
    target,       \* the race, driver and seconds of each penalty call
    overlapped,   \* history: what two jobs were at work on at once
    reboots

tables == <<results, penalties, wdc, wcc, rating, history>>
loaded == <<ids, view, doomed>>
local  == <<loaded, seen, target>>
leagueVars == <<tables, step, local, overlapped, reboots>>

Steps == {"new", "list", "read", "delete", "wait", "insert", "rate", "flush", "rated",
          "fix", "order", "place", "done"}
WdcRow == [driver : Drivers, points : Nat, wins : Nat, best : Nat, position : Nat, by : Jobs]
WccRow == [team : Constructors, points : Nat, wins : Nat, by : Jobs]
Target == [race : Races, driver : Humans, sec : Corrections]
IsResults(f) == DOMAIN f \subseteq Races /\ f \in [DOMAIN f -> [Drivers -> Result]]
NoResults == [r \in {} |-> {}]

LeagueTypeOK ==
    /\ IsResults(results)
    /\ penalties \subseteq Penalties \X Target
    /\ wdc \subseteq WdcRow /\ wcc \subseteq WccRow
    /\ rating \in [Humans -> RatingRow \cup {Unrated}]
    /\ history \subseteq Races \X Humans \X Ratings \X Ratings
    /\ step \in [Jobs -> Steps]
    /\ ids \in [Jobs -> SUBSET Races]
    /\ DOMAIN view = Jobs /\ \A j \in Jobs : IsResults(view[j])
    /\ doomed \in [Jobs -> SUBSET Jobs]
    /\ seen \in [Races -> [Humans -> RatingRow \cup {Unrated}]]
    /\ target \in [Penalties -> Target]
    /\ overlapped \subseteq {"standings", "ratings"} \cup Races
    /\ reboots \in 0..MaxRestarts

LeagueInit ==
    /\ results = NoResults /\ penalties = {} /\ wdc = {} /\ wcc = {}
    /\ rating = [h \in Humans |-> Unrated] /\ history = {}
    /\ step = [j \in Jobs |-> "new"]
    /\ ids = [j \in Jobs |-> {}]
    /\ view = [j \in Jobs |-> NoResults]
    /\ doomed = [j \in Jobs |-> {}]
    /\ seen = [r \in Races |-> [h \in Humans |-> Unrated]]
    /\ target \in [Penalties -> Target]
    /\ overlapped = {} /\ reboots = 0

At(j, s) == step[j] = s
To(j, s) == step' = [step EXCEPT ![j] = s]
Reload(f, j, x) == f' = [f EXCEPT ![j] = x]
Forget(j) == Reload(ids, j, {}) /\ Reload(view, j, NoResults) /\ Reload(doomed, j, {})
Unseen == [h \in Humans |-> Unrated]

-----------------------------------------------------------------------------
(* Points. *)

PointsMap == [p \in 1..10 |-> CASE p = 1 -> 25 [] p = 2 -> 18 [] p = 3 -> 15 [] p = 4 -> 12
                              [] p = 5 -> 10 [] p = 6 -> 8 [] p = 7 -> 6 [] p = 8 -> 4
                              [] p = 9 -> 2 [] OTHER -> 1]

CalcPoints(r) ==
    IF r.status # Finished \/ r.pos > 10 THEN 0
    ELSE PointsMap[r.pos] + (IF r.fastest THEN 1 ELSE 0)

Lowest(S)  == CHOOSE x \in S : \A y \in S : x =< y

\* A driver's line of the drivers' championship after the races of res.
CalcWdc(res, d) ==
    [points |-> SumFunctionOnSet([r \in DOMAIN res |-> CalcPoints(res[r][d])], DOMAIN res),
     wins   |-> Cardinality({r \in DOMAIN res : res[r][d].pos = 1}),
     best   |-> Lowest({res[r][d].pos : r \in DOMAIN res})]

Ahead(a, b) == a.points > b.points \/ (a.points = b.points /\ a.best < b.best)

\* The orders Python's stable sort may leave: ties are in the order of an unordered SELECT.
Rankings(less(_, _)) ==
    {f \in Bijection(Drivers, Places) : \A a, b \in Drivers : less(a, b) => f[a] < f[b]}

WdcRows(line, order, j) ==
    {[driver |-> d, points |-> line[d].points, wins |-> line[d].wins, best |-> line[d].best,
      position |-> order[d], by |-> j] : d \in Drivers}

\* A team's line sums its drivers' lines.
CalcWcc(rows, t, j) ==
    LET own == {row \in rows : TeamOf[row.driver] = t}
    IN  [team |-> t, points |-> SumFunctionOnSet([row \in own |-> row.points], own),
         wins |-> SumFunctionOnSet([row \in own |-> row.wins], own), by |-> j]

WccRows(rows, j) == {CalcWcc(rows, t, j) : t \in {TeamOf[row.driver] : row \in rows}}

-----------------------------------------------------------------------------
(* recalc_standings *)

Recalculating(j) == step[j] \in {"read", "delete", "wait", "insert"}
AfterStandings(j) == IF j \in Races THEN "rate" ELSE "done"
Holders(j) == {k \in Jobs \ {j} : At(k, "insert") /\ doomed[k] \cap doomed[j] # {}}

ListRaces(j) ==
    /\ At(j, "list") /\ To(j, "read") /\ Reload(ids, j, DOMAIN results)
    /\ overlapped' = overlapped \cup
           (IF \E k \in Jobs \ {j} : Recalculating(k) THEN {"standings"} ELSE {})
    /\ UNCHANGED <<tables, view, doomed, seen, target, reboots>>

ReadResults(j) ==
    /\ At(j, "read") /\ To(j, "delete")
    /\ Reload(view, j, [r \in ids[j] |-> results[r]])
    /\ UNCHANGED <<tables, ids, doomed, seen, target, overlapped, reboots>>

\* The DELETE finds the rows of its snapshot ...
BeginDelete(j) ==
    /\ At(j, "delete") /\ To(j, "wait")
    /\ Reload(doomed, j, {row.by : row \in wdc})
    /\ UNCHANGED <<tables, ids, view, seen, target, overlapped, reboots>>

\* ... waits for those who have deleted some of them, and deletes what is left.
EndDelete(j) ==
    /\ At(j, "wait") /\ Holders(j) = {} /\ To(j, "insert")
    /\ Reload(doomed, j, doomed[j] \cap {row.by : row \in wdc})
    /\ UNCHANGED <<tables, ids, view, seen, target, overlapped, reboots>>

Left(j)      == {row \in wdc : row.by \notin doomed[j]}

\* Mutated form: without the primary key.
NoKeys(j) == FALSE
Conflicts(j) == \E row \in Left(j) : row.driver \in Drivers

InsertStandings(j) ==
    /\ At(j, "insert") /\ ~Conflicts(j) /\ To(j, AfterStandings(j)) /\ Forget(j)
    /\ LET line == [d \in Drivers |-> CalcWdc(view[j], d)]
       IN  \E order \in Rankings(LAMBDA a, b : Ahead(line[a], line[b])) :
             LET rows == WdcRows(line, order, j)
             IN  /\ wdc' = Left(j) \cup rows
                 /\ wcc' = {row \in wcc : row.by \notin doomed[j]} \cup WccRows(rows, j)
    /\ UNCHANGED <<results, penalties, rating, history, seen, target, overlapped, reboots>>

\* The primary key is in use: rolled back, logged, and dropped.
InsertFails(j) ==
    /\ At(j, "insert") /\ Conflicts(j) /\ To(j, AfterStandings(j)) /\ Forget(j)
    /\ UNCHANGED <<tables, seen, target, overlapped, reboots>>

Standings(j) == ListRaces(j) \/ ReadResults(j) \/ BeginDelete(j) \/ EndDelete(j)
                \/ InsertStandings(j) \/ InsertFails(j)

-----------------------------------------------------------------------------
(* recalc_ratings_after_race *)

Rating(r) == step[r] \in {"flush", "rated"}
Missing(r) == {h \in Humans : seen[r][h] = Unrated}

\* A race with fewer than two players is not rated.
LoadRatings(r) ==
    /\ At(r, "rate")
    /\ IF Cardinality(Humans) > 1 THEN To(r, "flush") /\ Reload(seen, r, rating)
       ELSE To(r, "done") /\ UNCHANGED seen
    /\ overlapped' = overlapped \cup
           (IF \E k \in Races \ {r} : Rating(k) THEN {"ratings"} ELSE {})
    /\ UNCHANGED <<tables, ids, view, doomed, target, reboots>>

\* The rows of new players are inserted ahead; others who insert them wait.
FlushRatings(r) ==
    /\ At(r, "flush") /\ \A h \in Missing(r) : rating[h] = Unrated
    /\ \A k \in Races \ {r} : At(k, "rated") => Missing(k) \cap Missing(r) = {}
    /\ To(r, "rated")
    /\ UNCHANGED <<tables, local, overlapped, reboots>>

FlushFails(r) ==
    /\ At(r, "flush") /\ \E h \in Missing(r) : rating[h] # Unrated
    /\ To(r, "done") /\ Reload(seen, r, Unseen)
    /\ UNCHANGED <<tables, loaded, target, overlapped, reboots>>

Greater(a, b) == IF a > b THEN a ELSE b
RowSeen(r, h) == IF h \in Missing(r) THEN [rating |-> BaseRating, rated |-> 0, peak |-> BaseRating]
                 ELSE seen[r][h]

\* Mutated form: the peak is the rating before.
RatedLow(r, h, new) == [rating |-> new, rated |-> RowSeen(r, h).rated + 1, peak |-> RowSeen(r, h).rating]

\* UPDATE writes the columns that differ from what was loaded.
Rated(r, h, new) ==
    LET old == RowSeen(r, h)
        now == IF h \in Missing(r) THEN old ELSE rating[h]
    IN  [rating |-> IF new = old.rating THEN now.rating ELSE new,
         rated  |-> old.rated + 1,
         peak   |-> IF Greater(old.peak, new) = old.peak THEN now.peak ELSE Greater(old.peak, new)]

\* update_rating may give any rating.
SaveRatings(r) ==
    /\ At(r, "rated") /\ To(r, "done") /\ Reload(seen, r, Unseen)
    /\ \E new \in [Humans -> Ratings] :
         /\ rating' = [h \in Humans |-> Rated(r, h, new[h])]
         /\ history' = history \cup {<<r, h, RowSeen(r, h).rating, new[h]>> : h \in Humans}
    /\ UNCHANGED <<results, penalties, wdc, wcc, loaded, target, overlapped, reboots>>

-----------------------------------------------------------------------------
(* submit_race and apply_penalty_correction *)

CommitRace(r) ==
    /\ At(r, "new") /\ To(r, "list")
    /\ \E o \in Outcomes :
         results' = [q \in DOMAIN results \cup {r} |->
                        IF q = r THEN [d \in Drivers |-> [o[d] EXCEPT !.points = CalcPoints(o[d])]]
                        ELSE results[q]]
    /\ UNCHANGED <<penalties, wdc, wcc, rating, history, local, overlapped, reboots>>

Correcting(p) == step[p] \in {"fix", "order", "place"}

LoadResult(p) ==
    /\ At(p, "new") /\ target[p].race \in DOMAIN results /\ To(p, "fix")
    /\ Reload(view, p, [r \in {target[p].race} |-> results[r]])
    /\ overlapped' = overlapped \cup
           (IF \E k \in Penalties \ {p} : Correcting(k) /\ target[k].race = target[p].race
            THEN {target[p].race} ELSE {})
    /\ UNCHANGED <<tables, ids, doomed, seen, target, reboots>>

\* Mutated form: the seconds are taken off.
TakenOff(row, sec) == IF row.time = NoTime THEN row ELSE [row EXCEPT !.time = @ - sec]

Corrected(row, sec) == IF row.time = NoTime THEN row ELSE [row EXCEPT !.time = @ + sec]

\* First transaction: the time the handler has loaded, plus the seconds, and the record of it.
FixTime(p) ==
    LET r == target[p].race  d == target[p].driver
        row == Corrected(view[p][r][d], target[p].sec)
    IN  /\ At(p, "fix") /\ To(p, "order")
        /\ results' = [results EXCEPT ![r][d].time = IF row = view[p][r][d] THEN @ ELSE row.time]
        /\ penalties' = penalties \cup {<<p, target[p]>>}
        /\ view' = [view EXCEPT ![p][r][d] = row]
        /\ UNCHANGED <<wdc, wcc, rating, history, ids, doomed, seen, target, overlapped, reboots>>

\* _recalc_positions reads the race again; the session keeps the row it already holds.
ReadOrder(p) ==
    LET r == target[p].race  d == target[p].driver
    IN  /\ At(p, "order") /\ To(p, "place")
        /\ view' = [view EXCEPT ![p][r] = [results[r] EXCEPT ![d] = view[p][r][d]]]
        /\ UNCHANGED <<tables, ids, doomed, seen, target, overlapped, reboots>>

\* A time of 0 counts as none here, though it takes corrections.
Classified(row) == row.status = Finished /\ row.time \notin {NoTime, 0}
Before(a, b) == /\ Classified(a)
                /\ Classified(b) => a.time < b.time

\* Mutated form: the standings are left as they are.
PlacesOnly == "done"
AfterPlaces == "list"

\* The rows as they are now, where the places and points that differ from the rows
\* loaded are written.
Replaced(now, old, order) ==
    [d \in Drivers |->
        LET points == CalcPoints([old[d] EXCEPT !.pos = order[d]])
        IN  [now[d] EXCEPT !.pos    = IF order[d] = old[d].pos THEN @ ELSE order[d],
                           !.points = IF points = old[d].points THEN @ ELSE points]]

\* Second transaction: positions by time, the others behind in any order, and their points;
\* the standings are recalculated when it has committed.
PlaceAll(p) ==
    LET r == target[p].race
        old == view[p][r]
    IN  /\ At(p, "place") /\ To(p, AfterPlaces)
        /\ \E order \in Rankings(LAMBDA a, b : Before(old[a], old[b])) :
              results' = [results EXCEPT ![r] = Replaced(@, old, order)]
        /\ UNCHANGED <<penalties, wdc, wcc, rating, history, local, overlapped, reboots>>

\* The jobs of the backend are in its memory only.
RestartBackend ==
    /\ reboots < MaxRestarts /\ reboots' = reboots + 1
    /\ step' = [j \in Jobs |-> IF At(j, "new") THEN "new" ELSE "done"]
    /\ ids' = [j \in Jobs |-> {}] /\ view' = [j \in Jobs |-> NoResults]
    /\ doomed' = [j \in Jobs |-> {}] /\ seen' = [r \in Races |-> Unseen]
    /\ UNCHANGED <<tables, target, overlapped>>

PenaltyCall(p) == LoadResult(p) \/ FixTime(p) \/ ReadOrder(p) \/ PlaceAll(p)
RatingJob(r)   == LoadRatings(r) \/ FlushRatings(r) \/ FlushFails(r) \/ SaveRatings(r)

LeagueNext ==
    \/ \E r \in Races : CommitRace(r) \/ RatingJob(r)
    \/ \E p \in Penalties : PenaltyCall(p)
    \/ \E j \in Jobs : Standings(j)
    \/ RestartBackend

LeagueSpec == LeagueInit /\ [][LeagueNext]_leagueVars

-----------------------------------------------------------------------------
LeagueQuiet == reboots = 0 /\ \A j \in Jobs : step[j] \in {"new", "done"}

\* The tables always hold one recalculation, never parts of two: the constructors'
\* table sums the drivers' table, whose positions follow the points.
TablesAgree ==
    /\ \A a \in wdc, b \in wdc \cup wcc : a.by = b.by
    /\ \A a, b \in wdc : a.driver = b.driver => a = b
    /\ \A t \in wcc : t = CalcWcc(wdc, t.team, t.by)
    /\ \A a, b \in wdc : Ahead(a, b) => a.position < b.position

\* ... and no job takes a table or a loaded row out of what the handlers expect.
LeagueSound == LeagueTypeOK /\ TablesAgree

Current ==
    \A d \in Drivers : \E row \in wdc :
        row.driver = d /\ row.points = SumFunctionOnSet([r \in DOMAIN results |-> results[r][d].points],
                                                        DOMAIN results)

\* When the jobs are done the drivers' table counts every race, with the penalties in
\* it, unless two recalculations were at work at once.
StandingsCurrent ==
    LeagueQuiet /\ results # NoResults /\ overlapped \cap ({"standings"} \cup Races) = {} => Current

\* recalc_standings "recalculates ... after every race": when the jobs are done.
RecalculatedAfterEveryRace == LeagueQuiet /\ results # NoResults => Current

\* A race is in the rating history of all its players or of none; a player's row exists
\* once he has some and counts no more races than that.  Unless races were rated at once,
\* it counts every one, and its peak is not below its rating.
RatingsBooked ==
    \A h \in Humans :
        LET own == {x \in history : x[2] = h}
        IN  /\ {x[1] : x \in own} = {x[1] : x \in history}
            /\ rating[h] = Unrated <=> own = {}
            /\ rating[h] # Unrated =>
                 /\ rating[h].rated =< Cardinality(own)
                 /\ "ratings" \notin overlapped =>
                        /\ rating[h].rated = Cardinality(own)
                        /\ rating[h].rating =< rating[h].peak

SecondsOf(r, d) ==
    LET own == {x \in penalties : x[2].race = r /\ x[2].driver = d}
    IN  SumFunctionOnSet([x \in own |-> x[2].sec], own)

\* Unless two calls for a race overlap, its times are those it was submitted with plus
\* the recorded corrections, and its positions and points follow the times.
PenaltiesCounted ==
    \A r \in DOMAIN results \ overlapped :
        /\ \A d \in Drivers : results[r][d].time # NoTime =>
               results[r][d].time = results[r][d].flag + SecondsOf(r, d)
        /\ LeagueQuiet /\ (\E x \in penalties : x[2].race = r) =>
               /\ \A a, b \in Drivers : Before(results[r][a], results[r][b]) =>
                                        results[r][a].pos < results[r][b].pos
               /\ \A d \in Drivers : results[r][d].points = CalcPoints(results[r][d])
=============================================================================
