---------------------------- MODULE Achievements ----------------------------
(***************************************************************************)
(* Achievements (services/achievement_engine.py), unlocked by the last     *)
(* background job of a submitted race.                                     *)
(*                                                                         *)
(* A job loads its race, awaits one checker after the other for one player *)
(* after the other, looks up each code it is given, and commits what is    *)
(* new in one transaction.  Every query is READ COMMITTED: other races are *)
(* committed and other jobs run and save between any two of them, so a     *)
(* later checker sees races an earlier one did not.  Nothing in the        *)
(* database keeps a player from having an achievement twice.  Two queries  *)
(* of one checker read at one moment, and every participant called human   *)
(* has a user.                                                             *)
(***************************************************************************)
EXTENDS Integers, Sequences, FiniteSets, FiniteSetsExt, Functions, SequencesExt

CONSTANTS Players,      \* users
          Verstappen,   \* the AI drivers 18 and 33
          Record,       \* what is recorded of each race
          NewRaces,     \* the races to submit
          Careers,      \* races that may have been run before, oldest first
          Breaks,       \* bound: the checkers after which others may act in the middle of a player
          AwardRestarts \* bound: restarts of the backend

RaceOf == Record      \* TLC evaluates a definition once
RaceIds == DOMAIN RaceOf
Row(r, d) == RaceOf[r].rows[d]
Entered(r) == DOMAIN RaceOf[r].rows
Field(r) == Entered(r) \cap Players

ASSUME AwardsAssumption ==
    /\ NewRaces \subseteq RaceIds /\ Careers \subseteq Seq(RaceIds \ NewRaces) /\ AwardRestarts \in Nat
    /\ \A r \in RaceIds :
          /\ Field(r) # {} /\ RaceOf[r].round \in Int
          /\ \A d \in Entered(r) : Row(r, d).pos \in Nat /\ Row(r, d).grid \in Nat /\ Row(r, d).points \in Nat

VARIABLES
    career,     \* the races run before
    raced,      \* the races committed since, oldest first
    jobStep,    \* what the job of each race does next
    ran,        \* how many of its checkers have run for each player
    returned,   \* the codes of a player that it has still to look up
    pending,    \* the unlocks it has not committed: <<player, code>>
    unlocked,   \* player_achievements: <<player, code, race>>
    rushed,     \* history: players checked while another race of theirs was waiting for its check
    rebooted

awardVars == <<career, raced, jobStep, ran, returned, pending, unlocked, rushed, rebooted>>

-----------------------------------------------------------------------------
(* What the queries select.  "all" is the races in the order of their ids; *)
(* "newest" tells in which order a query returns rows that tie.            *)

Dnf(row) == row.status \in {4, 6}
Podium(row) == row.pos \in 1..3
InPoints(row) == row.pos \in 1..10
Wet(r) == RaceOf[r].weather >= 3
Mine(p, all) == {r \in Range(all) : p \in Entered(r)}
InSeason(S, r) == {q \in S : RaceOf[q].season = RaceOf[r].season}
OnDay(S, r) == {q \in S : RaceOf[q].day = RaceOf[r].day}

Id(all, r) == CHOOSE i \in DOMAIN all : all[i] = r
RoundBefore(a, b, all, newest) ==
    \/ RaceOf[a].round < RaceOf[b].round
    \/ /\ RaceOf[a].round = RaceOf[b].round
       /\ IF newest THEN Id(all, a) < Id(all, b) ELSE Id(all, b) < Id(all, a)

\* Mutated form: one race short.
RecentShort(S, n, all, newest) ==
    {r \in S : Cardinality({q \in S : RoundBefore(r, q, all, newest)}) < n - 1}

\* ORDER BY round_number DESC LIMIT n
Recent(S, n, all, newest) ==
    {r \in S : Cardinality({q \in S : RoundBefore(r, q, all, newest)}) < n}

\* The last n races of S are n and all among the good ones.
Streak(S, n, all, newest, good) ==
    LET last == Recent(S, n, all, newest) IN Cardinality(last) = n /\ last \subseteq good

SeasonPoints(p, r, all) ==
    LET season == InSeason(Mine(p, all), r)
    IN  SumFunctionOnSet([q \in season |-> Row(q, p).points], season)

\* Who may lead standings calculated from these races.
Leaders(r, all) ==
    LET drove == {d \in Players : InSeason(Mine(d, all), r) # {}}
    IN  {d \in drove : \A e \in drove : SeasonPoints(d, r, all) >= SeasonPoints(e, r, all)}

Awarded(rules) == {code \in DOMAIN rules : rules[code]}

OriginalAwards(p, r, all, leader, newest) ==
    LET me == Row(r, p)
        season == InSeason(Mine(p, all), r)
        Beats(d) == d \in Entered(r) /\ Row(r, d).pos # 0 /\ me.pos # 0 /\ me.pos < Row(r, d).pos
        records == UNION {{Row(q, d).best : d \in {e \in Entered(q) : Row(q, e).fastest}} :
                              q \in InSeason(Range(all), r) \ {r}}
    IN Awarded([
        FIRST_BLOOD      |-> me.pos = 1 /\ \A q \in Mine(p, all) \ {r} : Row(q, p).pos # 1,
        ROCKET_START     |-> me.grid # 0 /\ me.pos # 0 /\ me.grid - me.pos >= 3,
        RAIN_MASTER      |-> me.pos = 1 /\ Wet(r),
        WRECKING_BALL    |-> me.penalties >= 3,
        LAST_TO_FIRST    |-> me.pos = 1 /\ me.grid >= Cardinality(Entered(r)),
        CLEAN_SWEEP      |-> me.pos = 1 /\ me.grid = 1 /\ me.fastest,
        COMEBACK_KID     |-> Podium(me) /\ me.grid >= 10,
        PHOTO_FINISH     |-> /\ me.time # 0 /\ me.pos # 0
                             /\ \E d \in Field(r) \ {p} :
                                   Row(r, d).time # 0 /\ Row(r, d).time - me.time \in -4..4,
        SURVIVOR         |-> /\ me.status = 3
                             /\ Cardinality({d \in Field(r) \ {p} : Dnf(Row(r, d))}) >= 2,
        PIT_MASTER       |-> me.pits > 0 /\ me.pos # 0 /\ me.pos < me.grid,
        GIANT_KILLER     |-> leader # p /\ Beats(leader),
        DOMINATOR        |-> /\ me.pos = 1
                             /\ Streak(season, 3, all, newest, {q \in season : Row(q, p).pos = 1}),
        CONSISTENCY_KING |-> /\ Podium(me)
                             /\ Streak(season, 5, all, newest, {q \in season : Podium(Row(q, p))}),
        WEEKEND_WARRIOR  |-> Cardinality(OnDay(Mine(p, all), r)) >= 3,
        CENTURION        |-> SeasonPoints(p, r, all) >= 100,
        BOT_SLAYER       |-> (\E d \in Verstappen : Beats(d)) /\ Cardinality(season) >= 5,
        HEARTBREAKER     |-> Dnf(me) /\ me.grid \in 1..5,
        SPEED_DEMON      |-> me.fastest /\ me.best # 0 /\ \A b \in records : me.best < b])

RaceAwards(p, r, all, newest) ==
    LET me == Row(r, p)
        mine == Mine(p, all)
        season == InSeason(mine, r)
        Second == {d \in Entered(r) : Row(r, d).pos = 2}
        rivals == {Row(r, d).pos : d \in Field(r) \ {p}} \ {0}
    IN Awarded([
        UNDERDOG      |-> me.pos = 1 /\ me.grid >= 15,
        RAIN_DANCE    |-> /\ Podium(me) /\ Wet(r)
                          /\ Cardinality({q \in season : Row(q, p).pos =< 3 /\ Wet(q)}) >= 3,
        LATE_BRAKER   |-> Podium(me) /\ me.grid > 3,
        DOUBLE_POINTS |-> Podium(me) /\ Cardinality({q \in OnDay(mine, r) : Row(q, p).pos =< 3}) >= 2,
        MARATHON_MAN  |-> /\ InPoints(me)
                          /\ Streak(season, 4, all, newest, {q \in season : InPoints(Row(q, p))}),
        PENALTY_FREE  |-> Streak(mine, 10, all, newest, {q \in mine : Row(q, p).penalties = 0}),
        TEAM_ORDERS   |-> Podium(me) /\ \E d \in Entered(r) \ {p} :
                              Row(r, d).team = me.team /\ Podium(Row(r, d)),
        THE_STIG      |-> me.pos = 1 /\ me.time # 0 /\ \E d \in Second : Row(r, d).time - me.time >= 100,
        BULLDOZER     |-> me.pos # 0 /\ rivals # {} /\ \A x \in rivals : me.pos < x])

ProgressAwards(p, r, all, newest) ==
    LET me == Row(r, p)
        mine == Mine(p, all)
        season == InSeason(mine, r)
        last5 == Recent(season, 5, all, newest)
    IN Awarded([
        RISING_STAR     |-> /\ Cardinality(last5) = 5 /\ \A q \in last5 : Row(q, p).pos # 0
                            /\ \A a, b \in last5 : RoundBefore(a, b, all, newest) =>
                                                       Row(a, p).pos > Row(b, p).pos,
        HOT_STREAK      |-> me.pos = 1 /\ Cardinality({q \in OnDay(mine, r) : Row(q, p).pos = 1}) >= 3,
        FIFTY_RACES     |-> Cardinality(mine) >= 50,
        HUNDRED_RACES   |-> Cardinality(mine) >= 100,
        POINTS_MACHINE  |-> /\ InPoints(me)
                            /\ Streak(mine, 10, all, newest, {q \in mine : InPoints(Row(q, p))}),
        TWO_HUNDRED_PTS |-> SeasonPoints(p, r, all) >= 200,
        VETERAN         |-> Cardinality({RaceOf[q].season : q \in mine}) >= 3])

FunAwards(p, r, all, newest) ==
    LET me == Row(r, p)
        mine == Mine(p, all)
        Worse(row) == row.grid # 0 /\ row.pos > row.grid
        laps == {Row(r, d).best : d \in Field(r)} \ {0}
        humans == {Row(r, d).pos : d \in Field(r)} \ {0}
        prev == mine \ {r}
    IN Awarded([
        TORPEDO         |-> me.crashes >= 3,
        GLASS_CANNON    |-> me.fastest /\ Dnf(me),
        REVERSE_GRID    |-> Worse(me) /\ Streak(mine, 5, all, newest, {q \in mine : Worse(Row(q, p))}),
        SUNDAY_DRIVER   |-> me.best # 0 /\ \A b \in laps : b =< me.best,
        LAST_NOT_LEAST  |-> /\ me.pos # 0 /\ \A x \in humans : x =< me.pos
                            /\ Cardinality({d \in Entered(r) \ Players : Row(r, d).pos > me.pos}) >= 10,
        JINXED          |-> Dnf(me) /\ Streak(mine, 3, all, newest, {q \in mine : Dnf(Row(q, p))}),
        PHOENIX         |-> Podium(me) /\ Streak(prev, 3, all, newest, {q \in prev : Dnf(Row(q, p))}),
        GENTLEMAN       |-> /\ Cardinality(InSeason(mine, r)) >= 5
                            /\ \A q \in InSeason(mine, r) : \A d \in Entered(q) :
                                   Row(q, d).crashes = 0,
        FOUNDING_FATHER |-> all[1] = r])

-----------------------------------------------------------------------------
\* The checkers of _check_player in their order, each by the code it may return; the one
\* of GRAND_CHELEM returns none.
Checkers == <<
    "FIRST_BLOOD", "ROCKET_START", "RAIN_MASTER", "WRECKING_BALL", "LAST_TO_FIRST",
    "CLEAN_SWEEP", "COMEBACK_KID", "PHOTO_FINISH", "SURVIVOR", "PIT_MASTER", "GIANT_KILLER",
    "DOMINATOR", "CONSISTENCY_KING", "WEEKEND_WARRIOR", "CENTURION", "BOT_SLAYER",
    "HEARTBREAKER", "SPEED_DEMON", "UNDERDOG", "RAIN_DANCE", "LATE_BRAKER", "DOUBLE_POINTS",
    "MARATHON_MAN", "PENALTY_FREE", "TEAM_ORDERS", "THE_STIG", "BULLDOZER", "RISING_STAR",
    "HOT_STREAK", "FIFTY_RACES", "HUNDRED_RACES", "POINTS_MACHINE", "TWO_HUNDRED_PTS",
    "VETERAN", "TORPEDO", "GLASS_CANNON", "REVERSE_GRID", "SUNDAY_DRIVER", "LAST_NOT_LEAST",
    "JINXED", "PHOENIX", "GENTLEMAN", "FOUNDING_FATHER">>
AwardCodes == Range(Checkers)
NumCheckers == Len(Checkers)

ASSUME BreaksAssumption == Breaks \subseteq 1..(NumCheckers - 1)

AwardsTypeOK ==
    /\ career \in Careers /\ raced \in Seq(NewRaces)
    /\ jobStep \in [NewRaces -> {"new", "check", "done"}]
    /\ ran \in [NewRaces -> [Players -> 0..NumCheckers]]
    /\ returned \in [NewRaces -> [Players -> SUBSET AwardCodes]]
    /\ pending \in [NewRaces -> SUBSET (Players \X AwardCodes)]
    /\ unlocked \subseteq Players \X AwardCodes \X NewRaces
    /\ rushed \subseteq Players /\ rebooted \in 0..AwardRestarts

AwardsInit ==
    /\ career \in Careers /\ raced = <<>>
    /\ jobStep = [r \in NewRaces |-> "new"]
    /\ ran = [r \in NewRaces |-> [p \in Players |-> 0]]
    /\ returned = [r \in NewRaces |-> [p \in Players |-> {}]]
    /\ pending = [r \in NewRaces |-> {}] /\ unlocked = {} /\ rushed = {} /\ rebooted = 0

\* submit_race commits a race and leaves a job behind.
SubmitRace(r) ==
    /\ jobStep[r] = "new"
    /\ raced' = Append(raced, r)
    /\ jobStep' = [jobStep EXCEPT ![r] = "check"]
    /\ UNCHANGED <<career, ran, returned, pending, unlocked, rushed, rebooted>>

Earned(p, r, leader, newest) ==
    LET all == career \o raced
    IN  OriginalAwards(p, r, all, leader, newest) \cup RaceAwards(p, r, all, newest)
        \cup ProgressAwards(p, r, all, newest) \cup FunAwards(p, r, all, newest)

Has(p, code) == \E r \in NewRaces : <<p, code, r>> \in unlocked
Waiting(p, r) == \E q \in NewRaces \ {r} : jobStep[q] = "check" /\ p \in Field(q)

\* The leader of the standings table, which may lag behind the races, or lack the season:
\* then nobody else leads.
MayLead(p, r) ==
    {p} \cup UNION {Leaders(r, career \o SubSeq(raced, 1, n)) : n \in 0..Len(raced)}

\* What the checkers may return of the races committed now.
MayEarn(p, r) == {Earned(p, r, leader, newest) : leader \in MayLead(p, r), newest \in BOOLEAN}

\* _check_player and _unlock, as far as the checkers run before others act: what they
\* return is unlocked if it is not there, the last of it perhaps only later.
CheckPlayer(r, p) ==
    /\ jobStep[r] = "check" /\ p \in Field(r) /\ ran[r][p] < NumCheckers
    /\ \A d \in Field(r) \ {p} : ran[r][d] \in {0, NumCheckers}
    /\ \E earned \in MayEarn(p, r), upto \in Breaks \cup {NumCheckers}, late \in BOOLEAN :
         LET found == earned \cap {Checkers[i] : i \in (ran[r][p] + 1)..upto}
             later == IF late THEN found \cap {Checkers[upto]} ELSE {}
         IN  /\ ran[r][p] < upto /\ (late => upto < NumCheckers)
             /\ ran' = [ran EXCEPT ![r][p] = upto]
             /\ returned' = [returned EXCEPT ![r][p] = later]
             /\ pending' = [pending EXCEPT ![r] = @ \cup {<<p, code>> :
                               code \in {c \in returned[r][p] \cup (found \ later) : ~Has(p, c)}}]
    /\ rushed' = rushed \cup (IF Waiting(p, r) THEN {p} ELSE {})
    /\ UNCHANGED <<career, raced, jobStep, unlocked, rebooted>>

SaveUnlocks(r) ==
    /\ jobStep[r] = "check" /\ \A p \in Field(r) : ran[r][p] = NumCheckers
    /\ jobStep' = [jobStep EXCEPT ![r] = "done"]
    /\ unlocked' = unlocked \cup {<<x[1], x[2], r>> : x \in pending[r]}
    /\ pending' = [pending EXCEPT ![r] = {}]
    /\ UNCHANGED <<career, raced, ran, returned, rushed, rebooted>>

\* The jobs are in the memory of the backend only.
LoseJobs ==
    /\ rebooted < AwardRestarts /\ rebooted' = rebooted + 1
    /\ jobStep' = [r \in NewRaces |-> IF jobStep[r] = "check" THEN "done" ELSE jobStep[r]]
    /\ ran' = [r \in NewRaces |-> [p \in Players |-> 0]]
    /\ returned' = [r \in NewRaces |-> [p \in Players |-> {}]]
    /\ pending' = [r \in NewRaces |-> {}]
    /\ UNCHANGED <<career, raced, unlocked, rushed>>

AwardsNext ==
    \/ \E r \in NewRaces : SubmitRace(r) \/ SaveUnlocks(r) \/ \E p \in Players : CheckPlayer(r, p)
    \/ LoseJobs

AwardsSpec == AwardsInit /\ [][AwardsNext]_awardVars

-----------------------------------------------------------------------------
AwardsQuiet == rebooted = 0 /\ \A r \in NewRaces : jobStep[r] # "check"

Won(p, r) == p \in Field(r) /\ Row(r, p).pos = 1

\* The last three rounds of a season that p drove.
LastThree(p, r) ==
    LET season == InSeason(Mine(p, raced), r)
    IN  {q \in season : Cardinality({s \in season : RaceOf[s].round > RaceOf[q].round}) < 3}

\* A code whose rule holds another's: of the same race, or by a count of races or points.
Includes == {<<"UNDERDOG", "COMEBACK_KID">>, <<"UNDERDOG", "LATE_BRAKER">>,
             <<"UNDERDOG", "ROCKET_START">>, <<"HOT_STREAK", "DOUBLE_POINTS">>,
             <<"HOT_STREAK", "WEEKEND_WARRIOR">>, <<"TWO_HUNDRED_PTS", "CENTURION">>,
             <<"HUNDRED_RACES", "FIFTY_RACES">>}

\* Whatever order races are committed and checked in, and wherever between two checkers
\* another is committed: nobody has an achievement twice, and a first win gives
\* FIRST_BLOOD, unless another race of the player was waiting.  When all jobs have ended,
\* even if they overlapped, a season whose last three rounds are wins has given DOMINATOR,
\* and who has an achievement has those it includes: what a checker of one job missed,
\* the job of the race committed meanwhile has found.
AwardsSound ==
    /\ AwardsTypeOK
    /\ \A x, y \in unlocked : x[1] = y[1] /\ x[2] = y[2] => x = y \/ x[1] \in rushed
    /\ \A p \in Players \ rushed :
          AwardsQuiet /\ (\E r \in Range(raced) : Won(p, r)) /\ (\A r \in Range(career) : ~Won(p, r))
              => Has(p, "FIRST_BLOOD")
    /\ AwardsQuiet => \A p \in Players, r \in Range(raced) :
          LET last == LastThree(p, r)
          IN  Cardinality(last) = 3 /\ (\A q \in last : Won(p, q))
              /\ (\A q \in Range(career) : RaceOf[q].season # RaceOf[r].season) => Has(p, "DOMINATOR")
    /\ AwardsQuiet => \A x \in unlocked, c \in Includes : x[2] = c[1] => Has(x[1], c[2])

\* "DNF 3 races in a row" (achievement_definitions.py:68): JINXED is for three
\* successive races.
JinxedInARow ==
    \A x \in unlocked : x[2] = "JINXED" =>
        LET mine == SelectSeq(career \o raced, LAMBDA r : x[1] \in Field(r))
        IN  \E i \in 1..(Len(mine) - 2) : \A k \in i..(i + 2) : Dnf(Row(mine[k], x[1]))
=============================================================================
