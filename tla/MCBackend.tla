----------------------------- MODULE MCBackend -----------------------------
(***************************************************************************)
(* The backend's components on small instances, in one run.  They share no *)
(* state, so a behaviour belongs to one of them, its scene, and the others *)
(* stay at their initial state: the run checks what a run of each would.   *)
(***************************************************************************)
EXTENDS LeagueTables, TelemetryIngest, Lobby, Contracts, Accounts, Achievements, LiveHub,
        UserMerge

\* What the actors in a set of numbers may ask, together, of a list; who of them asks
\* what makes no difference.
Mixtures(actors, list) ==
    {[a \in actors |-> list[pick[a]]] :
        pick \in {f \in [actors -> DOMAIN list] : \A a, b \in actors : a < b => f[a] =< f[b]}}

-----------------------------------------------------------------------------
(* LeagueTables: two players and a driver of the game.                      *)

CONSTANTS h1, h2, ai, red, blue

Line(place, ms, status, fastest) ==
    [pos |-> place, time |-> ms, status |-> status, fastest |-> fastest, points |-> 0, flag |-> ms]
MCTeamOf == [d \in Drivers |-> IF d = h2 THEN blue ELSE red]
MCOutcomes ==
    {[d \in Drivers |-> CASE d = h1 -> Line(1, 100, Finished, FALSE)
                          [] d = h2 -> Line(2, 103, Finished, TRUE)
                          [] OTHER  -> Line(3, NoTime, 4, FALSE)]}

-----------------------------------------------------------------------------
(* TelemetryIngest: laps of one car, of three requests.                     *)

CONSTANTS v1, v2

MCLapTime == [v \in Vehicles |-> [l \in Laps |-> 80 + l]]
LapOf(v, lap, ms, samples) ==
    [kind |-> "lap", vehicle |-> v, lap |-> lap, time |-> ms, samples |-> samples]
LapMsgs == <<LapOf(v1, 1, 0, 0), LapOf(v1, 1, 0, 1), LapOf(v1, 1, 81, 2), LapOf(v1, 1, 0, 3)>>
Part(ms, sector) == [time |-> ms, sector |-> sector]
CarOf(best, a, b) == [best |-> best, laps |-> [l \in Laps |-> IF l = 1 THEN a ELSE b]]
HistOf(one, two) == [kind |-> "history", rows |-> [v \in Vehicles |-> IF v = v1 THEN one ELSE two]]
HistoryMsgs == <<HistOf(CarOf(0, Part(81, 0), NoRow), NoRow),
                 HistOf(CarOf(1, Part(81, 27), Part(0, 0)), NoRow),
                 HistOf(CarOf(0, Part(0, 27), Part(82, 0)), CarOf(0, Part(81, 0), NoRow)),
                 HistOf(CarOf(0, NoRow, NoRow), CarOf(0, Part(0, 0), NoRow))>>
MCBodies == Mixtures(Requests, LapMsgs \o HistoryMsgs)

-----------------------------------------------------------------------------
(* Lobby: its creator, a second member and a third.                         *)

CONSTANTS ann, bob, cid

Ask(kind, user, whom, arg) == [kind |-> kind, user |-> user, target |-> whom, arg |-> arg]
MCLobbyScripts == Mixtures(Calls, <<
          Ask("join", bob, bob, "c1"), Ask("joinByCode", bob, bob, "c1"),
          Ask("joinByCode", cid, cid, "c1"), Ask("leave", bob, bob, "c1"),
          Ask("leave", ann, ann, "c1"), Ask("setRole", ann, bob, "moderator"),
          Ask("setRole", ann, bob, "member"), Ask("setRole", ann, bob, "admin"),
          Ask("setRole", bob, ann, "member"), Ask("kick", bob, cid, "c1"),
          Ask("kick", ann, bob, "c1"), Ask("kick", bob, ann, "c1"),
          Ask("rename", bob, bob, "c1"), Ask("reset", ann, ann, "c1"),
          Ask("season", bob, bob, "c1"), Ask("show", bob, bob, "c1")>>)

-----------------------------------------------------------------------------
(* Contracts: an admin and a player, two seasons, three deals.              *)

WishOf(kind, user, pilot, team, season) ==
    [kind |-> kind, user |-> user, pilot |-> pilot, team |-> team, season |-> season]
MCDealScripts == Mixtures(Deals, <<
             WishOf("accept", ann, ann, 2, 1), WishOf("accept", bob, bob, 2, 1),
             WishOf("accept", ann, bob, 7, 1), WishOf("accept", bob, ann, 7, 1),
             WishOf("accept", bob, bob, 3, 1), WishOf("accept", ann, ann, 2, 2),
             WishOf("generate", ann, ann, 0, 1), WishOf("generate", bob, ann, 0, 1),
             WishOf("get", ann, ann, 0, 1), WishOf("get", ann, ann, 0, 2)>>)
MCDriven == [s \in Seasons |-> IF s = 1 THEN {ann, bob} ELSE {}]
MCMerit == [p \in Pilots |-> IF p = ann THEN 0 ELSE 2]

-----------------------------------------------------------------------------
(* Accounts: five requests of one person, in four mixtures.                 *)

CONSTANTS mail, google, bare, steam, tab1, tab2

Request(kind, poll, from) ==
    [kind |-> kind, email |-> mail, google |-> google, steam |-> steam, code |-> from, poll |-> poll]
Plainly(kind) == Request(kind, tab1, 1)
Bare          == [Plainly("google") EXCEPT !.google = bare]
Redeem(from)  == Request("exchange", tab1, from)
Done(poll)    == Request("complete", poll, 1)
PollOf(poll)  == Request("poll", poll, 1)
MCScripts ==
    {<<Plainly("register"), Plainly("google"), Plainly("google"), Plainly("login"), PollOf(tab1)>>,
     <<Plainly("steam"), Plainly("steam"), Redeem(1), Redeem(1), Redeem(2)>>,
     <<Plainly("register"), Done(tab1), Done(tab2), Done(tab1), PollOf(tab1)>>,
     <<Bare, Bare, Done(tab1), Done(tab1), PollOf(tab1)>>}
MCMailOf == [g \in Googles |-> IF g = bare THEN Nothing ELSE mail]

-----------------------------------------------------------------------------
(* Achievements: three wins of p in a row, after two older races.           *)

Driver(place, grid, status) ==
    [pos |-> place, grid |-> grid, status |-> status, fastest |-> FALSE, best |-> 90,
     time |-> IF status = 3 THEN 50000 + 100 * place ELSE 0,
     points |-> IF status # 3 THEN 0 ELSE IF place = 1 THEN 25 ELSE 5,
     penalties |-> 0, pits |-> 1, team |-> place, crashes |-> 0]
Raced(season, round, day, weather, rows) ==
    [season |-> season, round |-> round, day |-> day, weather |-> weather, rows |-> rows]
Duel(mine, his) == [p |-> mine, q |-> his, a1 |-> Driver(3, 3, 3), a2 |-> Driver(16, 5, 3)]
Solo(mine)      == [p |-> mine, a1 |-> Driver(3, 3, 3), a2 |-> Driver(5, 5, 3)]
MCRecord == [
    first  |-> Raced(3, 1, 5, 0, Duel(Driver(1, 16, 3), Driver(4, 4, 3))),
    second |-> Raced(3, 2, 5, 3, Solo(Driver(1, 1, 3))),
    third  |-> Raced(3, 3, 5, 0, Solo(Driver(1, 4, 3))),
    old1   |-> Raced(1, 9, 1, 0, Duel(Driver(14, 14, 4), Driver(2, 2, 3))),
    old2   |-> Raced(2, 8, 2, 0, Duel(Driver(14, 14, 3), Driver(1, 2, 3)))]
MCNewRaces == {"first", "second", "third"}
MCCareers  == {<<"old1", "old2">>}

-----------------------------------------------------------------------------
(* LiveHub: two pages and room for one, an agent that reconnects.           *)

CONSTANTS agent, one, two

Amount(statuses, lives, links, ones, twos, waiting, restarts) ==
    [messages |-> [k \in MessageKinds |-> IF k = "status" THEN statuses ELSE lives], links |-> links,
     connections |-> [v \in Viewers |-> IF v = one THEN ones ELSE twos],
     polls |-> [v \in Viewers |-> IF v = one THEN waiting ELSE 0], restarts |-> restarts]
MCLoads == {Amount(2, 0, 2, 1, 1, 0, 0), Amount(1, 1, 2, 1, 0, 1, 1), Amount(1, 1, 1, 2, 0, 1, 0)}

-----------------------------------------------------------------------------
VARIABLE scene

vars == <<leagueVars, ingestVars, lobbyVars, contractVars, accountVars, awardVars, hubVars,
          mergeVars, scene>>

Scenes == {"league", "ingest", "lobby", "contracts", "accounts", "awards", "hub",
           "merge"}

\* Out of its scene a component starts in any one of its initial states.
Init ==
    /\ scene \in Scenes
    /\ IF scene = "league" THEN TRUE ELSE target = CHOOSE t \in [Penalties -> Target] : TRUE
    /\ LeagueInit
    /\ IF scene = "ingest" THEN TRUE ELSE body = CHOOSE b \in Bodies : TRUE
    /\ IngestInit
    /\ IF scene = "lobby" THEN TRUE ELSE op = CHOOSE o \in LobbyScripts : TRUE
    /\ IF scene = "lobby" THEN TRUE ELSE invite = CHOOSE c \in Codes : TRUE
    /\ LobbyInit
    /\ IF scene = "contracts" THEN TRUE ELSE wish = CHOOSE w \in DealScripts : TRUE
    /\ ContractsInit
    /\ IF scene = "accounts" THEN TRUE ELSE form = CHOOSE f \in Scripts : TRUE
    /\ AccountsInit
    /\ IF scene = "awards" THEN TRUE ELSE career = CHOOSE c \in Careers : TRUE
    /\ AwardsInit
    /\ IF scene = "hub" THEN TRUE ELSE load = CHOOSE l \in Loads : TRUE
    /\ HubInit
    /\ MergeInit

LeagueScene ==
    scene = "league" /\ LeagueNext
    /\ UNCHANGED <<ingestVars, lobbyVars, contractVars, accountVars, awardVars, hubVars,
                   mergeVars, scene>>
IngestScene ==
    scene = "ingest" /\ IngestNext
    /\ UNCHANGED <<leagueVars, lobbyVars, contractVars, accountVars, awardVars, hubVars, mergeVars, scene>>
LobbyScene ==
    scene = "lobby" /\ LobbyNext
    /\ UNCHANGED <<leagueVars, ingestVars, contractVars, accountVars, awardVars, hubVars, mergeVars, scene>>
ContractsScene ==
    scene = "contracts" /\ ContractsNext
    /\ UNCHANGED <<leagueVars, ingestVars, lobbyVars, accountVars, awardVars, hubVars, mergeVars, scene>>
AccountsScene ==
    scene = "accounts" /\ AccountsNext
    /\ UNCHANGED <<leagueVars, ingestVars, lobbyVars, contractVars, awardVars, hubVars, mergeVars, scene>>
AwardsScene ==
    scene = "awards" /\ AwardsNext
    /\ UNCHANGED <<leagueVars, ingestVars, lobbyVars, contractVars, accountVars, hubVars, mergeVars, scene>>
HubScene ==
    scene = "hub" /\ HubNext
    /\ UNCHANGED <<leagueVars, ingestVars, lobbyVars, contractVars, accountVars, awardVars, mergeVars,
                   scene>>
MergeScene ==
    scene = "merge" /\ MergeNext
    /\ UNCHANGED <<leagueVars, ingestVars, lobbyVars, contractVars, accountVars, awardVars, hubVars,
                   scene>>

Next == \/ LeagueScene \/ IngestScene \/ LobbyScene \/ ContractsScene \/ AccountsScene
        \/ AwardsScene \/ HubScene \/ MergeScene

Spec == Init /\ [][Next]_vars
=============================================================================
