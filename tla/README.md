# F1 league system: verification project

The repository is a league system for the F1 racing game. An **agent** on every
player's PC listens to the game's UDP telemetry, recognises sessions, and sends
the result and the telemetry of every finished race to a **backend** (FastAPI,
PostgreSQL), which keeps races, standings, ratings, lobbies and contracts and
serves a web site, live pages and a Telegram bot.

This directory holds TLA+ models of the parts whose correctness depends on the
order of steps of several actors, TLC configurations that check them on small
instances, and TLAPS proofs of their main properties for every value of the
constants. `PROJECT.json` is the index: components, runs, mutants, the map
from definitions to source lines, findings, hazards and theorems.

Paths below are relative to the repository (`src/`).

## 1. Inventory

| component | state | operations | hard behaviour | what must hold | model |
|---|---|---|---|---|---|
| Agent runtime: `agent/main.py`, `state_machine.py`, `telemetry_buffer.py` | session_uid, state machine, session context, lap buffers, `_uploading_uids`, `_uploaded_uids` | one handler per packet type, sampler loop, upload threads, shutdown | packets in any order and of old sessions; upload threads that end long after their session; repeated FinalClassification | no data crosses sessions; a late thread leaves the running capture alone; the agent never stays finished; one upload per result | `AgentRuntime` |
| Delivery: `agent/uploader.py`, `telemetry_delivery.py`, `launcher.py` (retries), `main.py` (upload thread) | two caches on disk, threads with their local copies, the runtime's guard sets | `upload_race`, `flush_pending`, start-up retry, "retry now", start, stop | several threads over the same caches; requests handled after their sender gave up; crashes between any two steps; lists that are stale when used | nothing on disk is given up or recorded twice; telemetry belongs to its race; nothing is forgotten before it is stored | `Delivery`, `DeliveryLedger` |
| Pending caches: `agent/local_cache.py`, `telemetry_delivery.py` | primary, backup and temporary JSON file | load (with quarantine and restore), save, mark, remove | death within a write, failed writes, damaged files | atomic updates; entries survive | `DurableCache`, `AtomicCache` |
| Race submit: `backend/routers/races.py`, `services/round_detector.py` | table `races`, open transactions, background jobs | `submit_race`, `detect_round` | concurrent and repeated submits, a COMMIT whose answer is lost, death before the jobs ran | one race per session, true replies, jobs once, the calendar's rounds | `RaceSubmit`, `RaceRegistry` |
| Standings, ratings, penalties: `services/standings_service.py`, `glicko2.py`, `routers/stewards.py`, `shared/points_system.py` | tables of results, standings, ratings and their history, penalties | the background jobs of a race: recalculation, rating; a penalty in three commits | overlapping recalculations and ratings, failure between commits, restarts | a table is one recalculation, never parts of two; after the jobs it counts every race; a race is rated for all its players or none; times are what was submitted plus the penalties | `LeagueTables` |
| Telemetry ingest: `routers/telemetry.py` | tables of lap telemetry and session histories | submit of a lap, of a history | any order, repeats, partial data, handlers that interleave between SELECT and COMMIT, rollback and retry | what is stored is the union of what was accepted; no time is lost | `TelemetryIngest` |
| Launcher runtime: `agent/launcher.py`, `udp_listener.py`, `ws_client.py` | flags and handles of several threads, unlocked; the lines of the retry panel | start, stop, retry now, exit, status, refresh | a stop during start-up, a quick restart, two launch threads, three threads that refresh the panel | the status is true, one agent is at work; the panel shows what is pending | `LauncherRuntime`, `RetryPanel` |
| Live hub: `routers/ws.py`, `agent/ws_client.py`, `frontend/lib/ws.ts` | list of clients, snapshot file, the agent's queue | connect, greet, push, broadcast, poll, disconnect | a list walked across awaits; pages that are let in together; handlers of an old and a new connection; restarts; answers out of order | a broadcast passes unsent at most one page for each that leaves; no more pages are listed than are allowed and were let in together; what is shown is on disk; status goes back only where two broadcasts overlap | `LiveHub` |
| Lobbies: `routers/lobby.py` | members, roles, invite code, seasons | join, leave, change role, kick, settings | roles read, checked and changed in separate statements | the creator is the only admin and stays; no member twice; no role outlives its membership | `Lobby` |
| Contracts: `services/contract_generator.py`, `routers/contracts.py` | contracts, cache of offers in memory | generate, accept, get | two acceptances of a seat or by a player; generation twice | one contract per seat and player; offers from fitting teams | `Contracts` |
| Achievements: `services/achievement_engine.py` | unlocked achievements | the last job of a race | jobs of several races overlap; races committed but not checked | unlocked once; nothing earned is missed | `Achievements` |
| Accounts, login: `routers/web_auth.py` | users, one-time codes, login polls (in memory, bounded) | register, log in, Google, Steam, exchange, poll, complete | poll racing completion, expiry, full stores, two first sign-ins | one user per identity; a code is used once and not lost | `Accounts` |
| Merge of identities: `backend/migrations/versions/0013`-`0017`, `scripts/` | `web_users`, `players`, `users`, referring tables | analysis, five migrations up and down, mirror triggers | an application that goes on writing meanwhile | every identity has its row; referring rows follow; the mirror refuses nothing it should take | `UserMerge` |
| Personal sessions: `agent/personal_session_sync.py`, `telemetry_buffer.py`, `routers/practice.py` | lap buffer, its snapshot, practice sessions | collect, snapshot, start, laps, finish | packets late and with gaps, three requests that are not retried | the snapshot has each sampled lap with its time; a session is consistent | `LapCapture` |
| UDP listener: `agent/udp_listener.py` | socket | bind, receive, end | a bind that fails, a late end | - | `LauncherRuntime`, `AgentRuntime` |
| Parser, raw log, replay harness; overlay, auto scan; Telegram bot; read-only API; web site | - | decoding, display, queries | - | - | not modelled |

How they interact: the UDP thread calls the runtime's handlers, which hold the
agent's lock; `_handle_final_classification_locked` detaches the buffer, writes
it to the telemetry cache and starts an upload thread. That thread and the
launcher's retry threads call the uploader and the telemetry delivery, which
share the two caches (each with its own lock) and talk HTTP to the backend.
`submit_race` answers with the race id that telemetry is bound to, and
schedules standings, ratings and the announcement.

## 2. Plan

Written in this order, most important behaviour first:

1. `DeliveryLedger`, `Delivery`, `DeliveryProofs` - **done**
2. `AgentRuntime`, `AgentRuntimeProofs` - **done**
3. `AtomicCache`, `DurableCache`; `RetryPanel`, `LauncherRuntime`, `LapCapture`; `DesktopProofs` - **done**
4. `RaceRegistry`, `RaceSubmit`, `RaceSubmitProofs` - **done**
5. `LeagueTables`, `LeagueProofs` - **done** (with the points as functions of the results)
6. `TelemetryIngest`, `LiveHub`, `StreamProofs` - **done**
7. `Lobby`, `Contracts`, `Accounts`, `RequestProofs` - **done**
8. `Achievements`, also in `LeagueProofs` - **done**
9. `UserMerge`, `MergeProofs` - **done**

Left: a refinement of `LiveHub` to "the last message of each kind".

Composition: `Delivery` uses the atomic caches that `DurableCache` implements
and the registry that `RaceSubmit` implements; `AgentRuntime` uses of `Delivery`
that upload threads return; the jobs that `RaceSubmit` schedules once are those of
`LeagueTables` and `Achievements`; the parts `Delivery` posts are the requests of `TelemetryIngest`. Each interface is a refinement or a property
checked on its provider's side (section 3).

## 3. Modules and code

### Delivery

One action per stretch of code between two points where another thread, the network or a
crash can interfere. A thread is an upload thread (`F1Agent._upload_race`), the
launcher's start-up retry or its "retry now"; `pc` is where it is, `job` its
local variables.

| actions | code |
|---|---|
| `FinishSession` | `_handle_final_classification_locked` and `_cache_pending_telemetry`: snapshot to the cache (or its removal, if empty), guard set, upload thread |
| `SaveRace`, `SubmitRace`, `SubmitAnswered`, `SubmitFailed`, `SubmitUnauthorized`, `BindRaceId`, `UncacheRace` | `uploader.upload_race` |
| `SettleUpload` | the guard sets after it, in `F1Agent._upload_race` |
| `ReadSnapshot`, `LookupRace`, `LookupFailed`, `AttemptFlush`, `PostPart`, `PostFailed`, `PostUnauthorized`, `ForgetTelemetry` | `telemetry_delivery.flush_pending`, `_resolve_race_id_from_backend`, `_post_snapshot` |
| `BootRetry`, `NextRace`, `LoadTelemetry`, `NextTelemetry`, `EndRetry` | both retry passes over lists that are read once |
| `StartRuntime`, `StopRuntime`, `RetryNow` | `launcher.py` |
| `RecordRace`, `SubmitUnanswered`, `SubmitLost` | the backend's side of a submit, the timeout of its sender, the loss of a request. A request whose sender gave up stays in `wire` and may be handled later |
| `Crash` | death of the agent's process; the disk stays |

Abstractions. A race result is its session; a snapshot is a set of `Parts`, the
requests it is posted as: the history and one per lap with samples (a lap without
samples is answered "skipped" and stores nothing). A
read-modify-write of a cache is one step: it holds the cache's lock, and
`DurableCache` shows that a crash within it leaves the cache as before or as
after. A cache write that raises (disk full) is not in `Delivery`. Delays between attempts
are left out, since any time may pass between two steps. A thread is started only if
one of `Threads` is idle, so `Threads` bounds how many run at once. `RecordRace`
is the promise of `RaceSubmit`. A stop during the start-up retry and
two launcher threads at once belong to `LauncherRuntime`.
`MayRefinish` says whether the game sends another FinalClassification of a session
that is over; `tests/test_agent_runtime_lifecycle.py:47` expects the agent to cope with that.

### AgentRuntime

Handlers hold the agent's lock, so each is one action: `SessionPacket`,
`ParticipantsPacket`, `EventPacket`, `RacePacket` (motion, car, lap and history packets), `FinalPacket`.
`Sample` is the sampler's loop, `UploadReturns` and `WorkerEnds` the
two halves of an upload thread around the delivery of its telemetry,
`StopListening` and `StopCapture` the shutdown. What a packet says is
abstracted to its session_uid: `context`, `latest` and `buffer` hold the
uids of the packets that left something there, which is what "no data crosses
sessions" is about. `NoUid` stands for 0, which the game sends outside sessions.

### DurableCache

Both caches have the same code for their files. `Load`, `Quarantine`, `Apply`,
`OpenTemp`, `CloseTemp`, `OpenBackup`, `CloseBackup`, `Rename` follow
`_load_entries_locked` and `_write_entries_locked`; a file that is open for writing is torn
until it is closed. `Crash` happens between any two of them. `TempFails`,
`BackupFails`, `RenameFails` and the second disjunct of `Quarantine` are I/O
errors, swallowed or raised as the code does; `Damage` is a file found corrupt.
`save_snapshot`, `attach_race_id` and `quarantine` change the list of sessions as
`save`, a mark and `remove` do.

### RaceSubmit

`submit_race` cut where it awaits the database: `CheckDuplicate`,
`DetectDuplicate`, `DetectRound`, `Insert` or `InsertConflicts`, `Commit` or
`CommitUnanswered`, `ReplyCreated`, `RunJobs`; `CommitConflicts` is an IntegrityError that comes with
the COMMIT and is handled as one of the INSERT is (rollback, another look for the race); `Fails` is any
other exception before, with the rollback of `get_db`. A SELECT sees what is committed (READ COMMITTED, PostgreSQL's
default); the unique index on `races.session_uid` makes an INSERT wait for
the transaction that holds the same value, which is the guard of `Insert`.
`Age` is the passing of the reconnect window of half an hour. All requests are
for one season that exists; the players' rows that the handler may also
create are left out.

### LeagueTables

A job is what follows one committed race (`Standings`, then `RatingJob`), or a call of the penalty handler (`PenaltyCall`),
statement by statement. `Begin`-to-`COMMIT` windows are kept where another
job can get in: a SELECT sees what is committed when it runs, a DELETE that meets deleted rows waits,
an INSERT of a key in use fails and the job is rolled back and dropped. A submitted row has its flag time in
`total_time`; what is added since are penalties. No time (`NoTime`) takes no penalty and is unlike 0,
which takes one but counts as no time when the order is made (`Classified`). `CalcPoints`, `CalcWdc` and
`CalcWcc` are `shared/points_system.py`. What Glicko-2 computes is any rating of
`Ratings`. `overlapped` notes which jobs were at work at once; that is the
exception the properties make, since the code has no lock there.

### TelemetryIngest

`ReadHistory`, `ReadLap`, `InsertLap` (or `InsertLapFails`), `UpdateLap` are `submit_telemetry`; `BeginHistory`,
`ReadRow`, `ReadLaps` (the backfill), `CommitHistory`, `RetryHistory`, `HistoryFails` are
`submit_session_history`. A commit writes only the columns that differ from what
was loaded, as SQLAlchemy does. After the rollback in `InsertLapFails` the handler goes on with the time
it computed before; the code uses the history again only for the time it replies, which the model leaves out. The game gives a lap one time, which requests carry or omit: that
assumption (`TimesTrue`) is what makes the merge commutative. `clobbered` notes an update
over a row that has changed since it was loaded: the code takes no lock, and
this is the one case in which something accepted can be lost.

### Lobby, Contracts, Accounts, Achievements

One module per router, each handler cut at its statements, so that two requests interleave between
a check and what it allows. `Lobby`: `CheckRole`, `LoadTarget`, then the write by primary
key; the unique constraint refuses a second membership (`JoinTwice`). `Contracts`: `PickDriver`,
`ReadFormer`, `SignContract`; no constraint keeps a seat unique, so `signedOver` notes acceptances that overlap.
`Accounts`: what a sign-in finds (`FindGoogle`, `FindMail`), `SaveUser` against the unique columns, and the two stores in memory with their age and
size limits; a Google account tells one e-mail address, or none, at every sign-in.
`Achievements`: a job awaits one checker after another (`Checkers`, in the code's order), and each
queries the races committed when it runs, so another race may come between two of them. `CheckPlayer` is as many checkers as run before somebody
else acts: it ends after any of `Breaks`, with the last code returned but perhaps not yet looked up. Each rule has the ORDER BY and LIMIT of its query
(`Recent`, with ties in either order); the leader is that of a standings table that may lag behind the races (`MayLead`).
`SaveUnlocks` commits; `rushed` notes players whose races were checked while another was waiting.

### LiveHub

The agent's queue (`Enqueue`; it has no limit in the code, `MaxQueue` is a bound of the run), its connections (`LinkUp`;
`LinkDown` splits what was waiting into what had arrived, what is lost and what stays), the hub, pages and their polls, whose answers
arrive in any order, and `RestartHub`. Every connection has a handler of its own in the one event loop. The handler of a link
writes the snapshot and starts a broadcast (`Hear`; `HearLate` when its link is down already), sends to one place of the list after
the other (`CastNext`) and takes out whom it found gone (`CastEnds`); the handlers of an old and a new link may be in a
broadcast at once, which `crossed` notes. A page is let in if there is room (`ClientConnects`), its handler awaits
`accept` and only then appends it to the list (`ClientListed`), so pages let in together can exceed `_MAX_CLIENTS` by the others that were
waiting; `atOnce` is the most that ever waited at once. A page that leaves moves those behind it one place forward, past the place a
broadcast has come to: `owed` and `left` of the broadcast say who has still to be served and how many such moves there were.
Messages are numbers in the order the hub heard them.

### UserMerge

The analysis script, migrations 0013 to 0017 as actions up and down, and the triggers of 0014 (`AfterWeb`, `AfterPlayer`). The
application that writes meanwhile is the one of the old schema, which is not in the repository: its two writes
are external. `contested` and `dirty` note identities linked twice and a player's
write that a link did not see. The analysis reads the two blockers one after the other while the application is up
(`AnalyseLinks`, `AnalyseSteam`); a write since makes its verdict stale. A transaction keeps what its trigger has read (`mine`, `other`, `seen`) until it commits;
`Fresh` is the sequence of `users.id`, which gives no number twice that is still in use or in flight.
Of the tables that refer to the old ones, `race_results` stands for those whose key refuses the deletion of a row and `lobby_members` for those
that go along with it (`Gone`). `player_ratings` and `rating_history` go along with a player's row too (0015, lines 45-46), but only
a player with results has any, and his results refuse the deletion first.

### LauncherRuntime, RetryPanel, LapCapture

`LauncherRuntime` has a launch thread per start (`Launch`), the sockets' threads (`Sockets`) and the page's calls, with
every unlocked write of `agent_running`, `agent_instance` and the lifecycle a step of its own. `RetryPanel` has
the lines of the panel, which each of its threads refreshes by reading flag and caches and
writing the line. `LapCapture` has the lap buffer, the snapshot at the end of a race and the three
unretried requests of the practice session. `DurableCache` runs beside them.

## 4. Runs

| run | question | instance |
|---|---|---|
| `delivery_shared` | do the guard sets stay exact, and is no result given up or recorded twice, when two threads share a session? | 1 session, 2 threads, 2 race ids, 2 attempts, 1 crash |
| `delivery_sessions` | can race ids or lists read earlier mix sessions up? | 2 sessions, 1 thread, 3 race ids, 1 attempt, 1 crash |
| `delivery_once` | is every captured part cached or stored at any time? | 1 session finished once, 2 parts, 2 threads, 2 attempts, 1 crash |
| `delivery_live` | does every thread end, and does everything on disk get delivered? | 1 session, 1 part, 2 threads, 2 attempts |
| `delivery_twice` | violation, see findings | 1 session, 2 parts, 2 threads, 1 attempt, 1 crash |
| `runtime` | data of one session, the sampler, late threads; is every finished session left? | 2 sessions, 2 upload threads |
| `runtime_stale` | violation, see findings | 2 sessions, 1 upload thread |
| `submit` | one race per session, true replies, jobs once, calendar kept; does every handler end? | 2 requests, 2 sessions, 3 tracks of which 2 in the calendar, 1 crash |
| `submit_lost` | violation, see findings | 2 requests, 1 session, 1 crash |
| `desktop` | is the cache atomic until the disk fails; do status, panel and lap snapshot tell the truth? | cache: 3 sessions, 2 crashes, 2 faults; 2 launches; 1 retry pass and 1 result; 2 cars, 1 race |
| `launcher_status` | violation, see findings | 2 launches |
| `backend` | each backend component: do its tables and stores stay right whatever requests and jobs overlap? | see below |

`backend` and `desktop` put several components that share no state into one run: a
behaviour belongs to one of them, its *scene*, and the others stay at their initial
states. The run checks exactly what a run of each component would (@TOTAL@ distinct states in `backend`: hub 331k,
league 195k, merge 178k, awards 62k, contracts 49k, lobby 37k, ingest 25k, accounts 21k; 638,502 in `desktop`).
`MCBackend.tla` says what the actors of each scene may ask: two races and a penalty of a season with
one restart; three requests of every mixture of eight bodies for one car; three
lobby calls of sixteen; three deals of ten; five sign-ins in four mixtures, one of them of a Google account without an e-mail address, with one restart;
three wins in a row after two older races, with other actors between WEEKEND_WARRIOR and the checkers behind it, where HOT_STREAK is; two web users and two players, three
identities, two writers. The hub has one agent, two pages and room for one, and one of three loads: two statuses over two links to
two pages; a status and live data over two links with a poll and a restart; a status and live data over one link to a page that connects twice
and polls. `Mixtures` lists requests up to their numbering only.

Why these bounds are enough to be interesting. Two threads on one session make
every pair of their steps overlap; two sessions in one thread make a list
outlive what it was read from; the second attempt makes an answer late. A crash
separates a step from its successor; what a crash leaves is a state of the disk
and the backend like any other, and the proofs have no bound on crashes.
`delivery_sessions` has one more race id than sessions, so a second race of a
session would be possible. The liveness run has no crash, since a crash only
ends threads, and one part: posting part by part is what `delivery_once` is
about. Two requests of `submit` make a winner and a loser of the
unique index, and a repetition after the winner has ended; the theorems cover
any number of requests. In the backend two jobs or requests make every
check-then-act window overlap and a third makes a stale copy meet a later row; the theorems of section 6 lift
the bounds. Two web users and two players without the bound on identities were also
explored, to 11 million states, without a violation. `SafeEntriesSurvive` is stated for one
fault with at most one crash, or none with any number of crashes, and the run goes one
beyond each: two crashes with one fault, or two faults, can lose an entry. The restore writes through the
temporary file, which may be the only good copy left, and a failed backup
copy is swallowed.

Deadlock is checked except where the system may stop: the agent shuts down
(`AgentRuntime`) and a finite number of requests is answered (`RaceSubmit`, `backend`, `desktop`).

Mutants: every property of a passing run is broken by a mutated definition that stands
beside the definition it replaces ("Mutated form: ...").

### Fairness

- `ThreadSpec` (`delivery_live`): the operating system runs the threads of
  a live process. A thread that waits for an answer can always time out, so this assumes
  nothing of the network. `ThreadsReturn` holds under it alone.
- `ResultDelivered` and `TelemetryDelivered` have two premises. `NetworkHeals`:
  some time the network and the backend stop failing (404 for a race that does
  not exist is an answer, not a failure). `RetryFairness`: somebody asks for a
  retry while something is pending, since the code retries on its own only at
  a start; without it, entries wait on the disk, as they should.
- `LiveSpec` of `AgentRuntime`: an upload thread returns, which is
  `ThreadsReturn` of `Delivery`. Nothing is assumed of the game's packets.
- `LiveSpec` of `RaceSubmit`: the event loop runs every handler and the
  database answers. Failures, timeouts and crashes are never fair.

## 5. Findings

Four places where a document says more than the code does:

- `delivery_twice`: "Failed telemetry flushes remain durably cached"
  (`agent/telemetry_delivery.py:5`). When a FinalClassification of the
  session is accepted again, for instance after a restart, the cached snapshot is
  removed if the buffer is empty and replaced otherwise, delivered or not.
- `runtime_stale`: "stale packets from an old session_uid are ignored after
  rollover" (`docs/core_reliability_sessions/02_agent_runtime_and_state_machine.md:54`). SESSION packets are
  excepted from the check: a late one makes the agent return to the old session
  and drop the running capture.
- `submit_lost`: the specification has the standings recalculated after the
  race is saved (`docs/F1_LEAGUE_SYSTEM_SPEC_v4.md:233-234`). The jobs live
  only in the handler that created the race; if it dies after COMMIT or loses
  the answer, the repeated request is a duplicate and schedules nothing.
- `launcher_status`: the launcher's checklist asks that start and stop do not lie
  to the user about the status (`docs/launcher_sessions/01_runtime_qa_and_bug_bash.md:33`). A stop
  during the start-up retries finds no agent to shut down; the launch thread then
  creates one and listens, while the page says it is stopped (`agent/launcher.py:1665`).

Weaker statements that were met while modelling, without a run of their own:
two rating jobs at once can leave `peak_rating` below the rating, since an update writes only the columns
it has changed (`glicko2.py:210`; found as a step the proof of `RatingsBooked` could not make);
`standings_service.py:2` recalculates "after every race", but of two overlapping
recalculations one is dropped (`RecalculatedAfterEveryRace` in `LeagueTables`);
the hub's snapshot file is there for restarts, but live data heard after one
overwrites the status in it (`routers/ws.py:49-60`, `StatusSurvivesRestart` in `LiveHub`);
JINXED is "DNF 3 races in a row" (`achievement_definitions.py:68`), but the code takes the three highest
round numbers of all seasons, which need not be successive races (`JinxedInARow` in `Achievements`); a new token reaches the websocket only at its next connection
(`ws_client.py:153`, `launcher.py:1109-1116`); practice sessions take car 0
whatever the player's index (`personal_session_sync.py:57`). The analysis before the
merge of identities says it is safe to proceed although an unlinked web user and player with one
Steam id make 0013 fail; a linked player who has raced can no longer be merged
after 0015 (`UserMerge`, `SharedSteam`, `Accepted`); a link to a player of another web user deletes a row of `users`, and
with it the lobby rows of whoever was there (ON DELETE CASCADE, `Gone`). Pages that are being let in at one moment can exceed
`_MAX_CLIENTS` (`routers/ws.py:146-151`), and a page that leaves during a broadcast makes it miss another one.

## 6. Proofs

All proofs are for every value of the constants under the named assumptions of
the modules (`NoRace` is no race id, bounds are natural numbers, the calendar's tracks
are tracks); finiteness is assumed of the races and drivers of the league, the
vehicles of a session and the identities and writers of the merge, and proved of `races` and `members`.

- `DeliveryProofs`. The invariants about telemetry and guard sets are not
  inductive, since threads act on copies. `DeliveryInv` adds what the copies
  mean: a race id held anywhere is the one of its session (`IdsTrue`, because a race
  once recorded never changes), acknowledged parts are stored (`SentStored`),
  what is submitted is durable (`SubmittedDurable`), and the guard sets name
  the uploading threads in every state of the runtime (`GuardExact`). Each part
  has its step lemma with one case per action. From it follow `TypeOK`,
  `TelemetryBelongs`, `PostedBeforeForgotten`, `UploadGuard` and the refinement
  of `DeliveryLedger`. Where no session finishes twice (`~MayRefinish`), a thread that has a snapshot in hand
  has all that was captured (`CapturedOnce`), so whatever leaves the cache is stored (`KeptInv`): `TelemetryKept`, and
  `FailedFlushStaysCached`, which `delivery_twice` shows false without that condition.
- `AgentRuntimeProofs`. `RuntimeInv` adds to the checked invariants that, while a session is
  known, everything gathered is about it (`Gathered`), and that a finished session
  is current and its sampler stopped (`OverIsStill`). `WorkersSpareCapture`
  follows: a reset needs a finished session, which collects nothing.
- `DesktopProofs`, *files*. Until the disk fails, the primary is never torn, what
  the rename installs is the whole new list (`RenamesTarget`), and that list
  differs from the primary's by the operation's own entry (`WritesOwnChange`); a restore
  happens only before there is a primary (`FirstSave`, `RestoresFirstSave`).
  So each rename is a step of `AtomicCache` and every other step stutters, for
  any number of crashes; the first fault is the step that ends the promise. After it, what
  is safe is in a second file, or in memory until a file has it (`SafeInv`), from which
  `SafeEntriesSurvive` follows.
  *Panel*: while nothing has changed since a poll began, a refresh under way
  has read the present state and will write it (`PanelInv`); so the first
  undisturbed poll is true (`PanelSound`).
  *Launcher*: while nobody starts or stops in the middle of a launch, one thread at a
  time has an agent and every other agent is deaf for good; hence `LauncherSound`.
  *Capture*: the buffer holds exactly what was told (`BufferTrue`), so a snapshot is exact, and
  what was posted of a practice session is a part of it without repetitions (`SyncTrue`); hence `CaptureSound`.
- `RaceSubmitProofs`. A row is inserted only if no other row of its session is in
  the table or on its way to it (`RowsApart`); so sessions and ids are
  unique in the table (`RacesApart`), and whoever finds a race names the right one. `RoundsTrue`
  carries the calendar across the window between reading and committing. From
  `SubmitInv` follow `RepliesTrue`, `CalendarKept`, `JobsOnce` and the refinement of
  `RaceRegistry`.
- `LeagueProofs`, *tables*. `SumFunctionOnSet` is a fold, hence recursive; what the proofs need of it (`SumEmpty`,
  `SumTakesOut`, `SumRemove`, `SumSame`, `SumType`) is proved by an induction over subsets of a finite set that is
  an instance of the library's well-foundedness (`SetInduction`), since its induction theorems cannot be
  applied here. `LeagueInv` then says: the primary key lets a recalculation insert only into a table it has
  emptied (`TablesInv`), so a table is one recalculation; one without a rival empties all of it (`DeletesAll`) and
  a race that it misses has a later one waiting (`NothingMissed`); a rating job that commits books its race for
  all players at once (`RatingsInv`); a penalty call that no other crosses still sees the rows of the table
  (`CallsInv`), so a time is what was submitted plus the seconds of the recorded penalties (`PenaltiesInv`).
  From it follow `LeagueSound`, `StandingsCurrent`, `RatingsBooked` and `PenaltiesCounted`.
  *Achievements*: `AwardsSound` for any record of the races. A job saves only what its player does not have
  (`OnceEach`). A checker that runs before a race is committed may miss what that race completes, so nothing is claimed of one job
  alone; the job of the last race of those that count sees all of them in each of its checkers. That gives a first win
  (`FirstWins`) and a season that ends with three wins (`Dominations`: three races with fewer
  than three rounds above them are what LIMIT 3 finds whatever the order of ties, `LimitIsLast`, `LastRoundsStay`). For a code that includes
  another (`Included`): a code that was returned is deserved by the races of its time and stays so (`ReturnedIsDeserved`), what
  it includes is deserved then too, and a job whose race is the last to count returns what is deserved
  (`DeservedIsReturned`). CONSISTENCY_KING does not include MARATHON_MAN in this sense: both look at the last rounds only.
- `StreamProofs`, *telemetry*. What a handler has loaded is at any time covered by what is stored
  (`Loaded`), and both come from accepted requests (`Comes`); an accepted request is
  covered by what is stored (`StoredLap`, `StoredHistory`), unless a noted update wrote over a
  changed row. `StoresMore` is what every commit does, and carries all of it at once: a
  merge covers both what it merges (`MergeCovers`), and a write that would take
  something away is a noted one. From `IngestInv` follow `IngestSound` (so the run's property is
  proved whole, for any number of requests) and `LapTimesKept`.
  *Live messages*: what any broadcast, greeting or poll still carries was heard and is on disk (`HubKnows`,
  `CastsReal`); only two broadcasts at once break the order (`CastAlone`). A page that was listed when a broadcast began and
  is passed without being sent to stands at a place the broadcast has passed, where only a page that left can have moved
  it (`MovedUp`), so there are no more of them than pages that left (`SkipsCounted`). The list exceeds its limit only by handlers that
  waited for their accept together (`RoomKept`). Hence `HubSound`.
- `RequestProofs`, *lobby*. An id belongs to the call that made it, in the table and in what
  calls have loaded; so a write by primary key cannot hit the creator's row
  however stale its check (`LobbyInv`), from which `RolesSound` follows.
  *Contracts*: two acceptances at work at once that could meet have been noted
  when the second picked its seat; what one has picked or read is stale only
  if noted (`DealsInv`). No driver is of two teams (`DriversApart`), which is why a seat is
  named by its driver. `PickedSensibly` is proved from the table of tiers.
  *Accounts*: the unique columns (e-mail address, Google account, Steam account) make every identity one row, whichever sign-in inserts it
  (`RowsTrue`), and a store throws out only what has expired or what newer entries push out (`StoresTrue`); from
  `AccountsInv` follows `LoginsSound`.
- `MergeProofs`. `MergeSound` holds step by step only together with what transactions in flight have read, since a trigger
  writes at COMMIT to rows it looked up before. `MergeInv` adds that: what was read is still what a
  lookup would find (`ReadsFit`), and what is to be written collides with nothing (`FlightsFit`). It stays
  so because one transaction at a time writes to an identity, and a row is written to by its own identities'
  transactions only, but for links: two transactions may link one player, or move one. Whom such a link concerns is
  contested from then on, and a row of a contested identity has no other than contested ones (`Tainted`, `Taints`,
  `ContestedTaints`), so everyone else's rows stay as they were (`ContestedInv`), and so do the lobby rows that refer to them. A link that nobody contests has read both
  rows and leaves one, in each of the trigger's three cases (`PeacefulAfterWeb`, `PeacefulWebInv`); a player's write changes
  the one row of the two (`OwnRow`, `PlayerEndsMirror`). `SteamOwned`, a row's Steam id is of an identity of its own, gives that
  the unique column refuses nothing but what is shared (`Accepted`). For the migration, `NumberedRows`: the rows 0013
  makes have one number each (`MigratedRows`, `CreateUsersInv`, `Allowed`).

Model-checked only: the liveness properties (`ThreadsReturn`, `ResultDelivered`,
`TelemetryDelivered`, `FinishedIsLeft`, `Answered`), because liveness under fairness and ENABLED
are out of the prover's reach. Every invariant and
action property of the passing runs, and every refinement, is a theorem.

## 7. Not modelled, and why

- Exceptions of the caches inside an upload (disk full): `DurableCache` has the failed write,
  `Delivery` assumes it does not happen; the thread would die with its session still guarded.
- The Glicko-2 formulas: real arithmetic. Passwords, tokens and hashes: a request is made
  as a user. `players_admin`: handlers that update single rows.
- Deadlocks between the triggers of `UserMerge` and the code around the old schema, which is
  not in the repository. The queries and the web site only read.
- A missing position is counted as 0 by `calc_points`, which then gives the point for the fastest lap
  (`points_system.py:17`): `CalcPoints` has the clause, no recorded result reaches it.
- Quarantine of orphaned telemetry: a tool started by hand (`agent/postmortem.py`).
- Live snapshots, overlay, tray, raw log, parser, web site, bot, queries:
  display and I/O without state that steps of several actors could put at odds.
