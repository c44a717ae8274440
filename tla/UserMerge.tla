------------------------------ MODULE UserMerge ------------------------------
(***************************************************************************)
(* The merge of web_users and players into users (backend/migrations/      *)
(* versions/0013 to 0017, scripts/analyze_user_player_merge.py).           *)
(*                                                                         *)
(* The operator runs the analysis with the application up, stops it, and   *)
(* migrates: 0013 and 0014 copy every identity and leave triggers that     *)
(* mirror later writes; 0015 keys the other tables by users.id; 0016 and   *)
(* 0017 drop the old columns and tables.  A migration that fails is rolled *)
(* back whole.                                                             *)
(*                                                                         *)
(* The application of that time is not in the repository: it inserts and   *)
(* updates web_users (a Steam id, a link to a player) and players (a Steam *)
(* id), in transactions that overlap.  A trigger reads when its statement  *)
(* runs; its writes are one step with the COMMIT, since whoever meets them *)
(* waits for it.  race_results and lobby_members stand for the tables that *)
(* refer to players without ON DELETE and to web_users with CASCADE.       *)
(***************************************************************************)
EXTENDS Integers, FiniteSets, Functions

CONSTANTS WebIds, ProfileIds,  \* ids of web_users and of players, given in order
          MaxIdentities,       \* bound: rows of the two
          SteamIds,
          Writers,             \* bound: transactions at once
          Null

ASSUME MergeAssumption ==
    /\ WebIds \cup ProfileIds \subseteq Int /\ MaxIdentities \in Nat
    /\ WebIds \cap ProfileIds = {} /\ Null \notin WebIds \cup ProfileIds \cup SteamIds
    /\ IsFiniteSet(WebIds) /\ IsFiniteSet(ProfileIds) /\ IsFiniteSet(Writers)

VARIABLES
    schema,       \* the migrations applied
    running,      \* the application is up
    verdict,      \* what the analysis has said so far, and whether a write followed it
    webUsers, profiles,        \* web_users and players, by id
    merged,       \* users, by id
    resultUser, lobbyUser,             \* the user_id of a player's results, of a web user's lobby rows
    writing,      \* open transactions
    contested,    \* history: who was linked twice, or relinked
    dirty         \* history: players whose write a link transaction did not see

legacyRows == <<webUsers, profiles>>
keys       == <<resultUser, lobbyUser>>
troubles   == <<contested, dirty>>
mergeVars  == <<schema, running, verdict, legacyRows, merged, keys, writing, troubles>>

Steam   == SteamIds \cup {Null}
WebRow  == [steam : Steam, link : ProfileIds \cup {Null}]
Profile == [steam : Steam]
UserRow == [web : WebIds \cup {Null}, player : ProfileIds \cup {Null}, steam : Steam]
UserNumbers == Nat \ {0}
NoRef   == 0
Absent  == -1
Gone    == -2     \* went with its row of users
Quiet   == [kind |-> "none"]
WebTx   == [kind : {"web"}, id : WebIds, row : WebRow, seen : Steam, mine : UserNumbers \cup {NoRef},
            other : UserNumbers \cup {NoRef}]
PlayerTx == [kind : {"player"}, id : ProfileIds, row : Profile, mine : UserNumbers \cup {NoRef}]

Partial(f, S, T) == DOMAIN f \subseteq S /\ f \in [DOMAIN f -> T]
NoRows == [x \in {} |-> Null]

MergeTypeOK ==
    /\ schema \in {"legacy", "mirrored", "keyed", "merged"} /\ running \in BOOLEAN
    /\ verdict \in {"none", "links", "late", "ok", "stale", "blocked"}
    /\ Partial(webUsers, WebIds, WebRow) /\ Partial(profiles, ProfileIds, Profile)
    /\ Partial(merged, UserNumbers, UserRow)
    /\ resultUser \in [ProfileIds -> UserNumbers \cup {Absent, NoRef}]
    /\ lobbyUser \in [WebIds -> UserNumbers \cup {Absent, Gone, NoRef}]
    /\ writing \in [Writers -> WebTx \cup PlayerTx \cup {Quiet}]
    /\ contested \subseteq WebIds \cup ProfileIds /\ dirty \subseteq ProfileIds

MergeInit ==
    /\ schema = "legacy" /\ running = TRUE /\ verdict = "none"
    /\ webUsers = NoRows /\ profiles = NoRows /\ merged = NoRows
    /\ resultUser = [p \in ProfileIds |-> Absent] /\ lobbyUser = [w \in WebIds |-> Absent]
    /\ writing = [x \in Writers |-> Quiet]
    /\ contested = {} /\ dirty = {}

Coalesce(a, b) == IF a # Null THEN a ELSE b
Linkers(p)     == {w \in DOMAIN webUsers : webUsers[w].link = p}
LookUp(rows, field, x) ==
    LET those == {i \in DOMAIN rows : rows[i][field] = x}
    IN  IF those = {} THEN NoRef ELSE CHOOSE i \in those : TRUE
UserOf(field, x) == LookUp(merged, field, x)
SteamOf(p)     == IF p = Null THEN Null ELSE profiles[p].steam
Mirroring      == schema \in {"mirrored", "keyed"}
ByPlayer(p)    == IF p = Null THEN NoRef ELSE UserOf("player", p)
Set(f, x, v)   == [y \in DOMAIN f \cup {x} |-> IF y = x THEN v ELSE f[y]]
Drop(f, x)     == Restrict(f, DOMAIN f \ {x})

\* The uniqueness of a column: of rows that have a value there.
Unique(f, field) ==
    \A i, j \in DOMAIN f : f[i][field] = f[j][field] /\ f[i][field] # Null => i = j

\* A number no row has and no transaction has read: the sequence gives none twice.
Readings(t) ==
    IF t.kind = "web" THEN {t.mine, t.other} ELSE IF t.kind = "player" THEN {t.mine} ELSE {}
NumbersTaken == DOMAIN merged \cup UNION {Readings(writing[x]) : x \in Writers}
Fresh == CHOOSE i \in 1..(Cardinality(NumbersTaken) + 1) : i \notin NumbersTaken

-----------------------------------------------------------------------------
(* The application's writes.                                                *)

Idle(kind, id) == \A x \in Writers : writing[x].kind = kind => writing[x].id # id

\* The row is there, or is the next to be inserted.
Known(id, kind, all, rows) ==
    \/ id \in rows
    \/ /\ \A v \in all : v < id => v \in rows \/ ~Idle(kind, v)
       /\ Cardinality(DOMAIN webUsers \cup DOMAIN profiles
                      \cup {writing[x].id : x \in {y \in Writers : writing[y] # Quiet}})
          < MaxIdentities

\* An INSERT or UPDATE of web_users, and what sync_web_user_to_users reads.
WriteWeb(x) ==
    /\ running /\ schema # "merged" /\ writing[x] = Quiet
    /\ \E w \in WebIds, row \in WebRow :
        /\ Idle("web", w) /\ Known(w, "web", WebIds, DOMAIN webUsers)
        /\ row.link # Null => row.link \in DOMAIN profiles
        /\ w \in DOMAIN webUsers =>
               /\ row # webUsers[w]
               /\ webUsers[w].steam # Null => row.steam = webUsers[w].steam
               /\ webUsers[w].link # Null => row.link # Null
        /\ Unique(Set(webUsers, w, row), "steam")
        /\ \A y \in Writers : writing[y].kind = "web" =>
               row.steam = Null \/ writing[y].row.steam # row.steam
        /\ writing' = [writing EXCEPT ![x] =
               [kind |-> "web", id |-> w, row |-> row, seen |-> SteamOf(row.link),
                mine |-> UserOf("web", w), other |-> ByPlayer(row.link)]]
    /\ UNCHANGED <<schema, running, verdict, legacyRows, merged, keys, troubles>>

\* An INSERT or UPDATE of players, and what sync_player_to_users reads.
WritePlayer(x) ==
    /\ running /\ schema # "merged" /\ writing[x] = Quiet
    /\ \E p \in ProfileIds, row \in Profile :
        /\ Idle("player", p) /\ Known(p, "player", ProfileIds, DOMAIN profiles)
        /\ p \in DOMAIN profiles => row # profiles[p] /\ profiles[p].steam = Null
        /\ Unique(Set(profiles, p, row), "steam")
        /\ \A y \in Writers : writing[y].kind = "player" =>
               row.steam = Null \/ writing[y].row.steam # row.steam
        /\ \E mine \in IF Linkers(p) = {} THEN {NoRef} ELSE {UserOf("web", w) : w \in Linkers(p)} :
               writing' = [writing EXCEPT ![x] =
                   [kind |-> "player", id |-> p, row |-> row, mine |-> mine]]
    /\ UNCHANGED <<schema, running, verdict, legacyRows, merged, keys, troubles>>

\* The row as the web trigger leaves it: the player's Steam id wins.
Joined(row, t) ==
    [web |-> t.id, player |-> t.row.link,
     steam |-> Coalesce(t.seen, Coalesce(t.row.steam, row.steam))]

\* Case A: the web user has a row; a row of its player's own goes.
KeepOwn(t) ==
    LET rest == IF t.other \in {NoRef, t.mine} THEN merged ELSE Drop(merged, t.other)
    IN  IF t.mine \in DOMAIN rest THEN [rest EXCEPT ![t.mine] = Joined(@, t)] ELSE rest

\* Case B: only the player has one; it takes the web user in.
TakeIn(t) ==
    IF t.other \in DOMAIN merged
    THEN [merged EXCEPT ![t.other] = [Joined(@, t) EXCEPT !.player = merged[t.other].player]]
    ELSE merged

\* Case C: neither has.
AddRow(t) == Set(merged, Fresh, Joined([steam |-> Null], t))

\* Mutated form: what 0014 calls the naive trigger, which inserts beside a player's row.
NaiveAfterWeb(t) == IF t.mine # NoRef THEN KeepOwn(t) ELSE AddRow(t)

AfterWeb(t) ==
    IF t.mine # NoRef THEN KeepOwn(t) ELSE IF t.other # NoRef THEN TakeIn(t) ELSE AddRow(t)

\* The player trigger: the row of a linked web user, or its own, or a new one.
AfterPlayer(t) ==
    LET own == IF t.mine # NoRef THEN t.mine ELSE UserOf("player", t.id)
    IN  IF own = NoRef
        THEN Set(merged, Fresh, [web |-> Null, player |-> t.id, steam |-> t.row.steam])
        ELSE IF own \notin DOMAIN merged THEN merged
        ELSE [merged EXCEPT ![own] = [@ EXCEPT !.player = t.id,
                                               !.steam = Coalesce(t.row.steam, merged[own].steam)]]

After(t) == IF t.kind = "web" THEN AfterWeb(t) ELSE AfterPlayer(t)

\* PostgreSQL refuses rows that share a value of a unique column, or leave a result
\* without its row.
Clash(rows)     == ~Unique(rows, "web") \/ ~Unique(rows, "player")
Bereaves(rows)  == \E p \in ProfileIds : resultUser[p] \in DOMAIN merged \ DOMAIN rows
Refused(t) ==
    Mirroring /\ LET rows == After(t)
                 IN  Clash(rows) \/ ~Unique(rows, "steam") \/ Bereaves(rows)

\* What the trigger commits, with the lobby rows of a row that goes.
Mirror(t) ==
    IF Mirroring
    THEN LET rows == After(t)
         IN  /\ merged' = rows
             /\ lobbyUser' = [w \in WebIds |->
                    IF lobbyUser[w] \in DOMAIN merged \ DOMAIN rows THEN Gone ELSE lobbyUser[w]]
    ELSE UNCHANGED <<merged, lobbyUser>>

\* Whom a link concerns that is one of two: someone else has the player, or the web user
\* had another, or it is a link with somebody of such a link.
Contenders(t) ==
    LET before == IF t.id \in DOMAIN webUsers THEN webUsers[t.id].link ELSE Null
        others == (IF t.row.link = Null THEN {} ELSE Linkers(t.row.link)) \ {t.id}
        whom   == ({t.id, t.row.link, before} \cup others) \ {Null}
    IN  IF others # {} \/ before \notin {Null, t.row.link} \/ whom \cap contested # {}
        THEN whom ELSE {}

Abort(x) == Refused(writing[x]) /\ UNCHANGED <<verdict, legacyRows, merged, lobbyUser, troubles>>

CommitWebRow(t) ==
    /\ t.kind = "web" /\ ~Refused(t) /\ Mirror(t)
    /\ webUsers' = Set(webUsers, t.id, t.row)
    /\ contested' = IF Mirroring THEN contested \cup Contenders(t) ELSE {}
    /\ dirty' = IF Mirroring /\ SteamOf(t.row.link) # t.seen THEN dirty \cup {t.row.link} ELSE dirty
    /\ UNCHANGED profiles

CommitProfile(t) ==
    /\ t.kind = "player" /\ ~Refused(t) /\ Mirror(t)
    /\ profiles' = Set(profiles, t.id, t.row)
    /\ dirty' = dirty \ {t.id}
    /\ UNCHANGED <<webUsers, contested>>

\* A write makes stale what has been read.
Older(said) == IF said = "links" THEN "late" ELSE IF said = "ok" THEN "stale" ELSE said

\* The end of a transaction: refused, or committed.
EndWrite(x) ==
    /\ writing[x] # Quiet
    /\ \/ Abort(x)
       \/ /\ CommitWebRow(writing[x]) \/ CommitProfile(writing[x])
          /\ verdict' = Older(verdict)
    /\ writing' = [writing EXCEPT ![x] = Quiet]
    /\ UNCHANGED <<schema, running, resultUser>>

\* A result of a player, a lobby row of a web user: 0015's triggers look the row up.
Race(p) ==
    /\ running /\ schema # "merged" /\ p \in DOMAIN profiles /\ resultUser[p] = Absent
    /\ resultUser' = [resultUser EXCEPT ![p] = IF schema = "keyed" THEN ByPlayer(p) ELSE NoRef]
    /\ UNCHANGED <<schema, running, verdict, legacyRows, merged, lobbyUser, writing, troubles>>

Join(w) ==
    /\ running /\ schema # "merged" /\ w \in DOMAIN webUsers
    /\ lobbyUser[w] \in {Absent, Gone}
    /\ schema = "keyed" => UserOf("web", w) # NoRef
    /\ lobbyUser' = [lobbyUser EXCEPT ![w] = IF schema = "keyed" THEN UserOf("web", w) ELSE NoRef]
    /\ UNCHANGED <<schema, running, verdict, legacyRows, merged, resultUser, writing, troubles>>

-----------------------------------------------------------------------------
(* The operator.                                                            *)

\* The analysis reads while the application writes.  Blockers are a player of two web
\* users ...
AnalyseLinks ==
    /\ schema = "legacy" /\ running
    /\ verdict' = IF \E p \in ProfileIds : Cardinality(Linkers(p)) > 1 THEN "blocked" ELSE "links"
    /\ UNCHANGED <<schema, running, legacyRows, merged, keys, writing, troubles>>

\* ... and a pair that differs on its Steam id, which it reads later.
AnalyseSteam ==
    /\ verdict \in {"links", "late"}
    /\ verdict' = IF \E w \in DOMAIN webUsers :
                        LET sid == SteamOf(webUsers[w].link)
                        IN  Null \notin {sid, webUsers[w].steam} /\ sid # webUsers[w].steam
                  THEN "blocked" ELSE IF verdict = "links" THEN "ok" ELSE "stale"
    /\ UNCHANGED <<schema, running, legacyRows, merged, keys, writing, troubles>>

\* docker compose stop, and start.
Stop ==
    /\ running /\ schema # "merged" /\ \A x \in Writers : writing[x] = Quiet
    /\ running' = FALSE
    /\ UNCHANGED <<schema, verdict, legacyRows, merged, keys, writing, troubles>>
Start ==
    /\ ~running /\ running' = TRUE
    /\ UNCHANGED <<schema, verdict, legacyRows, merged, keys, writing, troubles>>

\* 0013's rows: linked pairs, web users alone, players alone.
Pairs     == {[web |-> w, player |-> webUsers[w].link,
               steam |-> Coalesce(SteamOf(webUsers[w].link), webUsers[w].steam)] :
                  w \in {v \in DOMAIN webUsers : webUsers[v].link # Null}}
WebOnly   == {[web |-> w, player |-> Null, steam |-> webUsers[w].steam] :
                  w \in {v \in DOMAIN webUsers : webUsers[v].link = Null}}
PlayerOnly == {[web |-> Null, player |-> p, steam |-> profiles[p].steam] :
                  p \in {q \in DOMAIN profiles : Linkers(q) = {}}}
Backfill  == Pairs \cup WebOnly \cup PlayerOnly
Numbered(rows) == CHOOSE f \in [1..Cardinality(rows) -> rows] : IsInjective(f)

\* 0013 and 0014, which fail on a unique column.
CreateUsers ==
    /\ schema = "legacy" /\ ~running /\ verdict \in {"ok", "stale"}
    /\ LET rows == Numbered(Backfill)
       IN  /\ ~Clash(rows) /\ Unique(rows, "steam")
           /\ merged' = rows
    /\ schema' = "mirrored" /\ verdict' = "none"
    /\ contested' = {} /\ dirty' = {}
    /\ UNCHANGED <<running, legacyRows, keys, writing>>

\* 0015, which fails when a lobby row finds no user.
KeyTables ==
    /\ schema = "mirrored" /\ ~running
    /\ \A w \in WebIds : lobbyUser[w] # Absent => UserOf("web", w) # NoRef
    /\ schema' = "keyed"
    /\ resultUser' = [p \in ProfileIds |-> IF resultUser[p] = Absent THEN Absent ELSE ByPlayer(p)]
    /\ lobbyUser' = [w \in WebIds |-> IF lobbyUser[w] = Absent THEN Absent ELSE UserOf("web", w)]
    /\ UNCHANGED <<running, verdict, legacyRows, merged, writing, troubles>>

\* 0016 and 0017; the ids in the rows stay, as 0017 says, for audit.
DropLegacy ==
    /\ schema = "keyed" /\ ~running
    /\ schema' = "merged"
    /\ UNCHANGED <<running, verdict, legacyRows, merged, keys, writing, troubles>>

\* alembic downgrade: 0015 drops its columns, 0014 and 0013 the triggers and the table.
Downgrade ==
    /\ ~running /\ schema \in {"mirrored", "keyed"}
    /\ resultUser' = [p \in ProfileIds |-> IF resultUser[p] = Absent THEN Absent ELSE NoRef]
    /\ lobbyUser' = [w \in WebIds |-> IF lobbyUser[w] \in {Absent, Gone} THEN Absent ELSE NoRef]
    /\ IF schema = "keyed"
       THEN schema' = "mirrored" /\ UNCHANGED <<merged, troubles>>
       ELSE schema' = "legacy" /\ merged' = NoRows /\ contested' = {} /\ dirty' = {}
    /\ UNCHANGED <<running, verdict, legacyRows, writing>>

MergeNext ==
    \/ \E x \in Writers : WriteWeb(x) \/ WritePlayer(x) \/ EndWrite(x)
    \/ \E p \in ProfileIds : Race(p)
    \/ \E w \in WebIds : Join(w)
    \/ AnalyseLinks \/ AnalyseSteam \/ Stop \/ Start \/ CreateUsers \/ KeyTables \/ DropLegacy \/ Downgrade

MergeSpec == MergeInit /\ [][MergeNext]_mergeVars

-----------------------------------------------------------------------------
(* Properties.                                                              *)

\* Two identities, of a web user and of a player he is not linked to, share a Steam id.
SharedSteam(web, players) ==
    \E w \in DOMAIN web, p \in DOMAIN players :
        web[w].link # p /\ web[w].steam = players[p].steam /\ web[w].steam # Null

\* Every web user and every player has one row of users, one together when linked, with
\* the player's Steam id before the web user's; but for those linked twice, and for a
\* player's write that a link transaction did not see, until the player's next.
Mirrored ==
    /\ \A w \in DOMAIN webUsers \ contested :
          LET i == UserOf("web", w)
          IN  /\ i # NoRef /\ merged[i].player = webUsers[w].link
              /\ merged[i].steam = Coalesce(SteamOf(webUsers[w].link), webUsers[w].steam)
                    \/ webUsers[w].link \in dirty
    /\ \A p \in DOMAIN profiles \ contested :
          Linkers(p) = {} =>
              \E i \in DOMAIN merged : merged[i] = [web |-> Null, player |-> p, steam |-> profiles[p].steam]

\* A result and a lobby row refer to the row of the player and web user they were of, and
\* no lobby row has gone with a row but those of contested identities.
Referred ==
    /\ \A p \in ProfileIds : resultUser[p] \notin {Absent, NoRef} =>
          resultUser[p] \in DOMAIN merged /\ (p \notin contested => merged[resultUser[p]].player = p)
    /\ \A w \in WebIds : lobbyUser[w] \notin {Absent, Gone, NoRef} =>
          lobbyUser[w] \in DOMAIN merged /\ (w \notin contested => merged[lobbyUser[w]].web = w)
    /\ \A w \in WebIds : lobbyUser[w] = Gone => w \in contested

Peaceful(t) ==
    IF t.kind = "web" THEN Contenders(t) = {} ELSE ({t.id} \cup Linkers(t.id)) \cap contested = {}

\* The mirror refuses a write for nothing but a Steam id shared or a player who has raced.
Accepted ==
    \A x \in Writers : LET t == writing[x] IN
        t # Quiet /\ Mirroring /\ Peaceful(t)
        => /\ ~Clash(After(t))
           /\ Unique(After(t), "steam")
              \/ SharedSteam(IF t.kind = "web" THEN Set(webUsers, t.id, t.row) ELSE webUsers,
                             IF t.kind = "player" THEN Set(profiles, t.id, t.row) ELSE profiles)

\* What the analysis allows 0013 can copy, but for an unlinked pair of one Steam id,
\* unless a write followed it.
Allowed ==
    schema = "legacy" /\ verdict = "ok" =>
        LET rows == Numbered(Backfill)
        IN  ~Clash(rows) /\ (Unique(rows, "steam") \/ SharedSteam(webUsers, profiles))

\* The merge keeps every identity, and everything that refers to one, through writes
\* that overlap, failures and downgrades (migrations 0013 to 0017).
MergeSound == MergeTypeOK /\ (Mirroring => Mirrored) /\ Referred /\ Accepted /\ Allowed
=============================================================================
