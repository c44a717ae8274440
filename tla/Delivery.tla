------------------------------ MODULE Delivery ------------------------------
(***************************************************************************)
(* Delivery of finished sessions from the agent's disk to the backend.     *)
(*                                                                         *)
(* An upload thread (agent/main.py, F1Agent._upload_race) or a retry pass  *)
(* (the launcher's start-up retry and its "retry now" button) runs         *)
(* uploader.upload_race, which caches the race result on disk, submits it, *)
(* binds the returned race_id to the cached telemetry and forgets the      *)
(* result, and telemetry_delivery.flush_pending, which posts the cached    *)
(* telemetry of a race part by part and forgets it.  Threads share the two *)
(* on-disk caches; every read-modify-write of a cache holds its lock and   *)
(* is one step here, and a thread may be interrupted between any two.      *)
(*                                                                         *)
(* The network loses requests and replies and may let a request arrive     *)
(* long after its sender gave up.  The agent's process may crash between   *)
(* any two steps and be started again; the disk survives.                  *)
(***************************************************************************)
EXTENDS Naturals, FiniteSets

CONSTANTS Sessions,      \* session_uid values of the game
          Parts,         \* what a snapshot is posted as: the history request, one request per lap
          Threads,       \* threads of the agent process that deliver
          RaceIds,       \* primary keys of the races table
          NoRace,        \* no race id (None)
          NoSession,     \* no session
          MaxAttempts,   \* len(RETRY_DELAYS) + 1
          MaxCrashes,    \* bound: crashes of the process in a behaviour
          MayRefinish    \* does a FinalClassification of a session come again?

ASSUME ConstantsAssumption ==
    /\ NoRace \notin RaceIds
    /\ NoSession \notin Sessions
    /\ MaxAttempts \in Nat \ {0}
    /\ MaxCrashes \in Nat
    /\ MayRefinish \in BOOLEAN

VARIABLES
    cachedRaces,  \* local_cache: sessions with an entry
    teleParts,    \* telemetry_delivery cache: parts cached per session; {} is "no entry"
    teleRid,      \* ... and the race_id of the entry
    races,        \* backend: the race of each session, NoRace if none
    stored,       \* backend: telemetry rows <<race id, session they were recorded in, part>>
    wire,         \* submit requests on their way, as <<thread, session>>
    pc,           \* what each thread does next
    job,          \* its local variables
    runtime,      \* launcher: "stopped", "starting" (start-up retry) or "listening"
    retrying,     \* launcher: _pending_retry_running
    uploading,    \* F1Agent._uploading_uids of the current runtime
    uploaded,     \* F1Agent._uploaded_uids of the current runtime
    crashes,      \* number of crashes so far
    captured,     \* history: parts of every snapshot written to the telemetry cache
    failedFlush   \* history: sessions whose flush has failed at least once

disk    == <<cachedRaces, teleParts, teleRid>>
backend == <<races, stored>>
threads == <<pc, job>>
agent   == <<runtime, retrying, uploading, uploaded>>
history == <<captured, failedFlush>>
vars    == <<disk, backend, wire, threads, agent, crashes, history>>

Roles  == {"upload", "startup", "manual"}
Labels == {"idle", "boot", "races", "save", "attempt", "await", "attach",
           "uncache", "settle", "teles", "flush", "lookup", "tattempt",
           "post", "forget"}
RidOrNone == RaceIds \cup {NoRace}
Entries == Sessions \X RidOrNone             \* of the telemetry cache, as listed by a retry

Job == [role   : Roles,
        own    : BOOLEAN,                     \* belongs to the current runtime's F1Agent
        uid    : Sessions \cup {NoSession},   \* the session being delivered
        n      : 0..MaxAttempts,              \* attempts made in the current loop
        rid    : RidOrNone,                   \* race_id known to the thread
        copy   : SUBSET Parts,                \* the snapshot read by flush_pending
        sent   : SUBSET Parts,                \* parts acknowledged in this attempt
        races  : SUBSET Sessions,             \* entries retry_pending_uploads still has to do
        teles  : SUBSET Entries]              \* ... and retry_pending

Idle == [role |-> "manual", own |-> FALSE, uid |-> NoSession, n |-> 0,
         rid |-> NoRace, copy |-> {}, sent |-> {}, races |-> {}, teles |-> {}]

TypeOK ==
    /\ cachedRaces \subseteq Sessions
    /\ teleParts \in [Sessions -> SUBSET Parts]
    /\ teleRid \in [Sessions -> RidOrNone]
    /\ races \in [Sessions -> RidOrNone]
    /\ stored \subseteq RaceIds \X Sessions \X Parts
    /\ wire \subseteq Threads \X Sessions
    /\ pc \in [Threads -> Labels]
    /\ job \in [Threads -> Job]
    /\ runtime \in {"stopped", "starting", "listening"}
    /\ retrying \in BOOLEAN
    /\ uploading \subseteq Sessions
    /\ uploaded \subseteq Sessions
    /\ crashes \in 0..MaxCrashes
    /\ captured \in [Sessions -> SUBSET Parts]
    /\ failedFlush \subseteq Sessions

Init ==
    /\ cachedRaces = {}
    /\ teleParts = [s \in Sessions |-> {}]
    /\ teleRid = [s \in Sessions |-> NoRace]
    /\ races = [s \in Sessions |-> NoRace]
    /\ stored = {}
    /\ wire = {}
    /\ pc = [t \in Threads |-> "idle"]
    /\ job = [t \in Threads |-> Idle]
    /\ runtime = "stopped"
    /\ retrying = FALSE
    /\ uploading = {}
    /\ uploaded = {}
    /\ crashes = 0
    /\ captured = [s \in Sessions |-> {}]
    /\ failedFlush = {}

-----------------------------------------------------------------------------
(* Helpers.  No cache entry means no parts and no race id.                 *)

Goto(t, label) == pc' = [pc EXCEPT ![t] = label]

\* The keys of the telemetry cache; an entry without data is never kept.
HasTelemetry(s) == teleParts[s] # {}

RemoveTelemetry(s) ==
    /\ teleParts' = [teleParts EXCEPT ![s] = {}]
    /\ teleRid' = [teleRid EXCEPT ![s] = NoRace]

\* Sessions whose result is on the agent's disk or in the league.
Durable == cachedRaces \cup {s \in Sessions : races[s] # NoRace}

\* attach_race_id: nothing to do for an unknown id or a session without an entry.
AttachRaceId(s, id) ==
    teleRid' = IF id # NoRace /\ HasTelemetry(s)
               THEN [teleRid EXCEPT ![s] = id] ELSE teleRid

\* upload_race returns to F1Agent._upload_race or to retry_pending_uploads.
AfterUpload(t) == IF job[t].role = "upload" THEN "settle" ELSE "races"

\* flush_pending returns: an upload thread ends, a retry goes on with its list.
LeaveFlush(t) ==
    /\ Goto(t, IF job[t].role = "upload" THEN "idle" ELSE "teles")
    /\ job' = [job EXCEPT ![t] =
                 IF @.role = "upload" THEN Idle
                 ELSE [Idle EXCEPT !.role = job[t].role, !.teles = job[t].teles]]

\* ... with False: the snapshot stays cached for a later retry.
FailFlush(t) ==
    /\ LeaveFlush(t)
    /\ failedFlush' = failedFlush \cup {job[t].uid}

-----------------------------------------------------------------------------
(* F1Agent and the launcher.                                               *)

\* A FinalClassification of s is accepted: the capture is detached and cached
\* (an empty one removes what is cached), and if the participants are known an
\* upload thread is started with the result in its memory.
FinishSession(s, parts, listed) ==
    /\ runtime = "listening"
    /\ s \notin uploading \cup uploaded
    /\ MayRefinish \/ (captured[s] = {} /\ s \notin Durable)
    /\ IF parts # {}
       THEN /\ teleParts' = [teleParts EXCEPT ![s] = parts]
            /\ UNCHANGED teleRid
       ELSE RemoveTelemetry(s)
    /\ captured' = [captured EXCEPT ![s] = @ \cup parts]
    /\ IF listed
       THEN \E t \in Threads :
              /\ pc[t] = "idle"
              /\ Goto(t, "save")
              /\ job' = [job EXCEPT ![t] = [Idle EXCEPT !.role = "upload", !.own = TRUE, !.uid = s]]
              /\ uploading' = uploading \cup {s}
       ELSE UNCHANGED <<threads, uploading>>
    /\ UNCHANGED <<cachedRaces, backend, wire, runtime, retrying, uploaded, crashes, failedFlush>>

\* start_agent: the launcher thread runs both retries before there is an F1Agent.
StartRuntime(t) ==
    /\ runtime = "stopped"
    /\ pc[t] = "idle"
    /\ runtime' = "starting"
    /\ retrying' = TRUE
    /\ Goto(t, "races")
    /\ job' = [job EXCEPT ![t] = [Idle EXCEPT !.role = "startup", !.races = cachedRaces]]
    /\ UNCHANGED <<disk, backend, wire, uploading, uploaded, crashes, history>>

\* stop_agent: the runtime goes, its daemon upload threads go on, and so does a manual
\* pass; the launcher thread, ending, clears the flag that is also that pass's.
StopRuntime ==
    /\ runtime = "listening"
    /\ runtime' = "stopped"
    /\ retrying' = FALSE
    /\ UNCHANGED <<disk, backend, wire, threads, uploading, uploaded, crashes, history>>

\* The process dies: no thread is left, requests on the wire are not recalled.
Crash ==
    /\ crashes < MaxCrashes
    /\ crashes' = crashes + 1
    /\ pc' = [t \in Threads |-> "idle"]
    /\ job' = [t \in Threads |-> Idle]
    /\ runtime' = "stopped"
    /\ retrying' = FALSE
    /\ uploading' = {}
    /\ uploaded' = {}
    /\ UNCHANGED <<disk, backend, wire, history>>

\* retry_pending_uploads_now: the flag is read here and set by the new thread.
RetryNow(t) ==
    /\ ~retrying
    /\ cachedRaces # {} \/ \E s \in Sessions : HasTelemetry(s)
    /\ pc[t] = "idle"
    /\ Goto(t, "boot")
    /\ job' = [job EXCEPT ![t] = Idle]
    /\ UNCHANGED <<disk, backend, wire, agent, crashes, history>>

\* Mutated form: only the telemetry is retried.
BootRetryTelemetryOnly(t) ==
    /\ pc[t] = "boot"
    /\ retrying' = TRUE
    /\ job' = [job EXCEPT ![t].races = {}]
    /\ Goto(t, "races")
    /\ UNCHANGED <<disk, backend, wire, runtime, uploading, uploaded, crashes, history>>

BootRetry(t) ==
    /\ pc[t] = "boot"
    /\ retrying' = TRUE
    /\ job' = [job EXCEPT ![t].races = cachedRaces]
    /\ Goto(t, "races")
    /\ UNCHANGED <<disk, backend, wire, runtime, uploading, uploaded, crashes, history>>

\* retry_pending_uploads: the next entry of the list loaded at the start.
NextRace(t, s) ==
    /\ pc[t] = "races"
    /\ s \in job[t].races
    /\ job' = [job EXCEPT ![t].races = @ \ {s}, ![t].uid = s, ![t].n = 0, ![t].rid = NoRace]
    /\ Goto(t, "save")
    /\ UNCHANGED <<disk, backend, wire, agent, crashes, history>>

\* Mutated form: only the results are retried.
LoadNoTelemetry(t) ==
    /\ pc[t] = "races"
    /\ job[t].races = {}
    /\ Goto(t, "teles")
    /\ UNCHANGED <<disk, backend, wire, job, agent, crashes, history>>

\* All entries done: retry_pending loads its own list, with the race ids of now.
LoadTelemetry(t) ==
    /\ pc[t] = "races"
    /\ job[t].races = {}
    /\ job' = [job EXCEPT ![t].teles = {<<s, teleRid[s]>> : s \in {u \in Sessions : HasTelemetry(u)}}]
    /\ Goto(t, "teles")
    /\ UNCHANGED <<disk, backend, wire, agent, crashes, history>>

\* Mutated form: the race_id of the entry before it is kept.
NextTelemetryKeepsId(t, e) ==
    /\ pc[t] = "teles"
    /\ e \in job[t].teles
    /\ job' = [job EXCEPT ![t].teles = @ \ {e}, ![t].uid = e[1], ![t].n = 0,
                          ![t].rid = IF e[2] # NoRace THEN e[2] ELSE @]
    /\ Goto(t, "flush")
    /\ UNCHANGED <<disk, backend, wire, agent, crashes, history>>

\* The next entry of that list; its snapshot is read again, its race_id is not.
NextTelemetry(t, e) ==
    /\ pc[t] = "teles"
    /\ e \in job[t].teles
    /\ job' = [job EXCEPT ![t].teles = @ \ {e}, ![t].uid = e[1], ![t].n = 0, ![t].rid = e[2]]
    /\ Goto(t, "flush")
    /\ UNCHANGED <<disk, backend, wire, agent, crashes, history>>

\* Mutated form: the sets of the old F1Agent are carried over.
EndRetryKeepsSets(t) ==
    /\ pc[t] = "teles"
    /\ job[t].teles = {}
    /\ Goto(t, "idle")
    /\ retrying' = FALSE
    /\ runtime' = IF job[t].role = "startup" THEN "listening" ELSE runtime
    /\ job' = [u \in Threads |-> IF u = t THEN Idle ELSE
                  [job[u] EXCEPT !.own = @ /\ job[t].role # "startup"]]
    /\ UNCHANGED <<disk, backend, wire, uploading, uploaded, crashes, history>>

\* A manual pass only clears the flag; after the start-up pass a new F1Agent,
\* which has uploaded nothing yet, starts to listen.
EndRetry(t) ==
    /\ pc[t] = "teles"
    /\ job[t].teles = {}
    /\ Goto(t, "idle")
    /\ retrying' = FALSE
    /\ IF job[t].role = "startup"
       THEN /\ runtime' = "listening"
            /\ uploading' = {}
            /\ uploaded' = {}
            /\ job' = [u \in Threads |-> IF u = t THEN Idle ELSE [job[u] EXCEPT !.own = FALSE]]
       ELSE /\ job' = [job EXCEPT ![t] = Idle]
            /\ UNCHANGED <<runtime, uploading, uploaded>>
    /\ UNCHANGED <<disk, backend, wire, crashes, history>>

-----------------------------------------------------------------------------
(* uploader.upload_race.                                                   *)

\* local_cache.save of the payload the thread holds, even if another thread
\* has delivered and removed the entry since this one read it.
SaveRace(t) ==
    /\ pc[t] = "save"
    /\ cachedRaces' = cachedRaces \cup {job[t].uid}
    /\ Goto(t, "attempt")
    /\ UNCHANGED <<teleParts, teleRid, backend, wire, job, agent, crashes, history>>

\* Mutated form: the attempt counter is not advanced.
SubmitRaceUncounted(t) ==
    /\ pc[t] = "attempt"
    /\ wire' = wire \cup {<<t, job[t].uid>>}
    /\ Goto(t, "await")
    /\ UNCHANGED <<disk, backend, job, agent, crashes, history>>

\* mark_attempt and the POST.
SubmitRace(t) ==
    /\ pc[t] = "attempt"
    /\ wire' = wire \cup {<<t, job[t].uid>>}
    /\ job' = [job EXCEPT ![t].n = @ + 1]
    /\ Goto(t, "await")
    /\ UNCHANGED <<disk, backend, agent, crashes, history>>

\* Mutated form: the insert does not look for the session first.
RecordRaceAgain(s) ==
    \E id \in RaceIds :
        /\ \A u \in Sessions : races[u] # id
        /\ races' = [races EXCEPT ![s] = id]

\* POST /api/race/submit: the first request of a session inserts its race, a
\* later one is answered "duplicate" with the same id.
RecordRace(s) ==
    IF races[s] # NoRace THEN UNCHANGED races
    ELSE \E id \in RaceIds :
           /\ \A u \in Sessions : races[u] # id
           /\ races' = [races EXCEPT ![s] = id]

\* The backend handles a request and its sender, still waiting, gets the answer.
SubmitAnswered(t) ==
    /\ pc[t] = "await"
    /\ <<t, job[t].uid>> \in wire
    /\ wire' = wire \ {<<t, job[t].uid>>}
    /\ RecordRace(job[t].uid)
    /\ job' = [job EXCEPT ![t].rid = races'[job[t].uid]]
    /\ Goto(t, "attach")
    /\ UNCHANGED <<disk, stored, agent, crashes, history>>

\* The backend handles a request but the answer is lost, or nobody waits for it.
SubmitUnanswered(m) ==
    /\ m \in wire
    /\ wire' = wire \ {m}
    /\ RecordRace(m[2])
    /\ UNCHANGED <<disk, stored, threads, agent, crashes, history>>

\* The request never reaches the handler, or the handler fails and rolls back.
SubmitLost(m) ==
    /\ m \in wire
    /\ wire' = wire \ {m}
    /\ UNCHANGED <<disk, backend, threads, agent, crashes, history>>

\* Mutated form: a result is dropped once its attempts are used up.
SubmitFailedGivesUp(t) ==
    /\ pc[t] = "await"
    /\ Goto(t, IF job[t].n < MaxAttempts THEN "attempt" ELSE "uncache")
    /\ UNCHANGED <<disk, backend, wire, job, agent, crashes, history>>

\* Error status, broken connection or the 30 s timeout: up to MaxAttempts tries.
SubmitFailed(t) ==
    /\ pc[t] = "await"
    /\ Goto(t, IF job[t].n < MaxAttempts THEN "attempt" ELSE AfterUpload(t))
    /\ UNCHANGED <<disk, backend, wire, job, agent, crashes, history>>

\* 401: the token is wrong, no further attempt is made.
SubmitUnauthorized(t) ==
    /\ pc[t] = "await"
    /\ <<t, job[t].uid>> \in wire
    /\ wire' = wire \ {<<t, job[t].uid>>}
    /\ Goto(t, AfterUpload(t))
    /\ UNCHANGED <<disk, backend, job, agent, crashes, history>>

BindRaceId(t) ==
    /\ pc[t] = "attach"
    /\ AttachRaceId(job[t].uid, job[t].rid)
    /\ Goto(t, "uncache")
    /\ UNCHANGED <<cachedRaces, teleParts, backend, wire, job, agent, crashes, history>>

UncacheRace(t) ==
    /\ pc[t] = "uncache"
    /\ cachedRaces' = cachedRaces \ {job[t].uid}
    /\ Goto(t, AfterUpload(t))
    /\ UNCHANGED <<teleParts, teleRid, backend, wire, job, agent, crashes, history>>

\* F1Agent._upload_race after upload_race; rid is known iff it succeeded.  A
\* thread of an earlier runtime changes the sets of its own F1Agent only.
SettleUpload(t) ==
    LET s == job[t].uid
        ok == job[t].rid # NoRace
    IN  /\ pc[t] = "settle"
        /\ uploading' = IF job[t].own THEN uploading \ {s} ELSE uploading
        /\ uploaded' = IF job[t].own /\ ok THEN uploaded \cup {s} ELSE uploaded
        /\ job' = [job EXCEPT ![t] = IF ok THEN [@ EXCEPT !.n = 0] ELSE Idle]
        /\ Goto(t, IF ok THEN "flush" ELSE "idle")
        /\ UNCHANGED <<disk, backend, wire, runtime, retrying, crashes, history>>

-----------------------------------------------------------------------------
(* telemetry_delivery.flush_pending.                                       *)

\* Reads the entry, and binds the race_id the caller passed, under the lock.
ReadSnapshot(t) ==
    LET s == job[t].uid
        id == IF job[t].rid # NoRace THEN job[t].rid ELSE teleRid[s]
    IN  /\ pc[t] = "flush"
        /\ IF HasTelemetry(s)
           THEN /\ AttachRaceId(s, job[t].rid)
                /\ job' = [job EXCEPT ![t].copy = teleParts[s], ![t].rid = id]
                /\ Goto(t, IF id = NoRace THEN "lookup" ELSE "tattempt")
           ELSE LeaveFlush(t) /\ UNCHANGED teleRid
        /\ UNCHANGED <<cachedRaces, teleParts, backend, wire, agent, crashes, history>>

\* GET /api/race/session/{uid}; races are never deleted, so answering and
\* binding are one step.
LookupRace(t) ==
    LET s == job[t].uid
    IN  /\ pc[t] = "lookup"
        /\ races[s] # NoRace
        /\ AttachRaceId(s, races[s])
        /\ job' = [job EXCEPT ![t].rid = races[s]]
        /\ Goto(t, "tattempt")
        /\ UNCHANGED <<cachedRaces, teleParts, backend, wire, agent, crashes, history>>

\* 404, an error or a timeout: "blocked_no_race_id".
LookupFailed(t) ==
    /\ pc[t] = "lookup"
    /\ FailFlush(t)
    /\ UNCHANGED <<disk, backend, wire, agent, crashes, captured>>

\* An attempt starts only if the entry is still there.
AttemptFlush(t) ==
    /\ pc[t] = "tattempt"
    /\ IF HasTelemetry(job[t].uid)
       THEN /\ job' = [job EXCEPT ![t].n = @ + 1, ![t].sent = {}]
            /\ Goto(t, "post")
       ELSE LeaveFlush(t)
    /\ UNCHANGED <<disk, backend, wire, agent, crashes, history>>

StorePart(t, p) == stored' = stored \cup {<<job[t].rid, job[t].uid, p>>}

\* Mutated form: the snapshot is forgotten after its first request.
PostPartForgets(t, p) ==
    /\ pc[t] = "post"
    /\ p \in job[t].copy \ job[t].sent
    /\ StorePart(t, p)
    /\ job' = [job EXCEPT ![t].sent = @ \cup {p}]
    /\ Goto(t, "forget")
    /\ UNCHANGED <<disk, races, wire, agent, crashes, history>>

\* One request of _post_snapshot is answered 200.
PostPart(t, p) ==
    LET sent == job[t].sent \cup {p}
    IN  /\ pc[t] = "post"
        /\ p \in job[t].copy \ job[t].sent
        /\ StorePart(t, p)
        /\ job' = [job EXCEPT ![t].sent = sent]
        /\ Goto(t, IF sent = job[t].copy THEN "forget" ELSE "post")
        /\ UNCHANGED <<disk, races, wire, agent, crashes, history>>

\* Mutated form: a snapshot is dropped once its attempts are used up.
PostFailedDrops(t, p) ==
    /\ pc[t] = "post"
    /\ p \in job[t].copy \ job[t].sent
    /\ StorePart(t, p) \/ UNCHANGED stored
    /\ Goto(t, IF job[t].n < MaxAttempts THEN "tattempt" ELSE "forget")
    /\ UNCHANGED <<disk, races, wire, job, agent, crashes, history>>

\* One request fails, or is stored and its answer is lost.
PostFailed(t, p) ==
    /\ pc[t] = "post"
    /\ p \in job[t].copy \ job[t].sent
    /\ StorePart(t, p) \/ UNCHANGED stored
    /\ IF HasTelemetry(job[t].uid) /\ job[t].n < MaxAttempts
       THEN Goto(t, "tattempt") /\ UNCHANGED <<job, failedFlush>>
       ELSE FailFlush(t)
    /\ UNCHANGED <<disk, races, wire, agent, crashes, captured>>

PostUnauthorized(t) ==
    /\ pc[t] = "post"
    /\ FailFlush(t)
    /\ UNCHANGED <<disk, backend, wire, agent, crashes, captured>>

\* remove(session_uid): whatever snapshot the cache holds under this key now.
ForgetTelemetry(t) ==
    /\ pc[t] = "forget"
    /\ RemoveTelemetry(job[t].uid)
    /\ LeaveFlush(t)
    /\ UNCHANGED <<cachedRaces, backend, wire, agent, crashes, history>>

-----------------------------------------------------------------------------
Upload(t) ==
    \/ SaveRace(t) \/ SubmitRace(t) \/ SubmitAnswered(t) \/ SubmitFailed(t)
    \/ SubmitUnauthorized(t) \/ BindRaceId(t) \/ UncacheRace(t) \/ SettleUpload(t)

Flush(t) ==
    \/ ReadSnapshot(t) \/ LookupRace(t) \/ LookupFailed(t) \/ AttemptFlush(t)
    \/ \E p \in Parts : PostPart(t, p) \/ PostFailed(t, p)
    \/ PostUnauthorized(t) \/ ForgetTelemetry(t)

Retry(t) ==
    \/ BootRetry(t) \/ LoadTelemetry(t) \/ EndRetry(t)
    \/ \E s \in Sessions : NextRace(t, s)
    \/ \E e \in Entries : NextTelemetry(t, e)

Next ==
    \/ \E s \in Sessions, parts \in SUBSET Parts, listed \in BOOLEAN :
           FinishSession(s, parts, listed)
    \/ StopRuntime \/ Crash
    \/ \E t \in Threads : StartRuntime(t) \/ RetryNow(t)
    \/ \E t \in Threads : Upload(t) \/ Flush(t) \/ Retry(t)
    \/ \E m \in Threads \X Sessions : SubmitUnanswered(m) \/ SubmitLost(m)

Spec == Init /\ [][Next]_vars

(***************************************************************************)
(* Fairness.  The operating system runs every thread of a live process; a  *)
(* thread in "await" can always give up, so this says nothing about the    *)
(* network.                                                                *)
(***************************************************************************)
ThreadFairness == \A t \in Threads : WF_vars(Upload(t) \/ Flush(t) \/ Retry(t))

ThreadSpec == Spec /\ ThreadFairness

\* What delivery needs besides: some time the network and the backend stop
\* failing ("no such race" is an answer) ...
NetworkFails ==
    \E t \in Threads :
        \/ SubmitFailed(t) \/ SubmitUnauthorized(t) \/ PostUnauthorized(t)
        \/ \E p \in Parts : PostFailed(t, p)
        \/ LookupFailed(t) /\ races[job[t].uid] # NoRace

NetworkHeals == <>[][~NetworkFails]_vars

\* ... and somebody asks for a retry while something is pending: the code itself
\* retries only at a start and on request.
RetryFairness == WF_vars(\E t \in Threads : RetryNow(t))

-----------------------------------------------------------------------------
(* The ledger this pipeline implements: no result on disk is ever given up *)
(* before the league has it, every session becomes at most one race, that  *)
(* race never changes, and no result is submitted that a crash could       *)
(* still erase.                                                            *)
Ledger == INSTANCE DeliveryLedger WITH kept <- Durable, recorded <- races

ImplementsLedger == Ledger!LedgerSpec

\* Threads of the current F1Agent that are inside upload_race or about to
\* report its result.
Uploaders ==
    {t \in Threads : /\ job[t].role = "upload"
                     /\ job[t].own
                     /\ pc[t] \in {"save", "attempt", "await", "attach", "uncache", "settle"}}

\* _uploading_uids names exactly the sessions this runtime is uploading, each in
\* one thread only, and _uploaded_uids only sessions the league has recorded: a
\* repeated FinalClassification is ignored exactly while its upload runs or
\* after it succeeded, across stops, restarts and threads of older runtimes.
UploadGuard ==
    runtime = "listening" =>
        /\ uploading = {job[t].uid : t \in Uploaders}
        /\ \A t, u \in Uploaders : job[t].uid = job[u].uid => t = u
        /\ \A s \in uploaded : races[s] # NoRace

\* Telemetry is filed under the race of the session it was recorded in, however
\* late a thread learnt the race_id and whatever it delivered before.
TelemetryBelongs == \A row \in stored : races[row[2]] = row[1]

\* A thread forgets a session's cached telemetry only when the backend holds
\* every part of the snapshot the thread read.
PostedBeforeForgotten ==
    \A t \in Threads : pc[t] = "forget" =>
        \A p \in job[t].copy : <<races[job[t].uid], job[t].uid, p>> \in stored

(***************************************************************************)
(* The inductive invariant behind the three invariants above and behind    *)
(* ImplementsLedger: what the unlocked copies of shared state that threads *)
(* carry around (race ids, lists of cached entries, acknowledged parts)    *)
(* still say about the state they were read from.                          *)
(***************************************************************************)
Delivering == {"save", "attempt", "await", "attach", "uncache", "settle",
               "flush", "lookup", "tattempt", "post", "forget"}

\* Where a thread is tells what it has in hand.
InHand ==
    \A t \in Threads :
        /\ pc[t] \in Delivering => job[t].uid \in Sessions
        /\ pc[t] \in {"attach", "uncache", "tattempt", "post", "forget"} => job[t].rid # NoRace
        /\ pc[t] \in {"boot", "races", "teles"} => job[t].role # "upload"
        /\ pc[t] = "settle" => job[t].role = "upload"
        /\ pc[t] \in {"save", "attempt", "flush", "lookup", "tattempt"} => job[t].n < MaxAttempts

\* Every race_id read earlier and kept anywhere is the one of its session.
IdsTrue ==
    /\ \A s \in Sessions : teleRid[s] \in {NoRace, races[s]}
    /\ \A t \in Threads :
          /\ job[t].rid # NoRace => job[t].uid \in Sessions /\ job[t].rid = races[job[t].uid]
          /\ \A e \in job[t].teles : e[2] \in {NoRace, races[e[1]]}

\* Acknowledged parts are stored, and a thread about to forget has them all.
SentStored ==
    \A t \in Threads :
        /\ pc[t] \in {"post", "forget"} =>
              \A p \in job[t].sent : <<job[t].rid, job[t].uid, p>> \in stored
        /\ pc[t] = "forget" => job[t].copy \subseteq job[t].sent

\* A result is submitted only after it is durable.
SubmittedDurable ==
    /\ \A t \in Threads : pc[t] \in {"attempt", "await", "attach", "uncache"} => job[t].uid \in Durable
    /\ \A m \in wire : m[2] \in Durable

\* UploadGuard in every state of the runtime.
GuardExact ==
    /\ uploading = {job[t].uid : t \in Uploaders}
    /\ \A t, u \in Uploaders : job[t].uid = job[u].uid => t = u
    /\ \A s \in uploaded : races[s] # NoRace

DeliveryInv ==
    TypeOK /\ InHand /\ IdsTrue /\ TelemetryBelongs /\ SentStored
    /\ SubmittedDurable /\ GuardExact

\* Every captured part is in the cache until the backend has it.
TelemetryKept ==
    \A s \in Sessions : \A p \in captured[s] :
        p \in teleParts[s] \/ <<races[s], s, p>> \in stored

\* Once a flush of a session has failed, no step takes one of its parts out of
\* the cache before the backend has it: "Failed telemetry flushes remain durably
\* cached and are retried on the next runtime start" (telemetry_delivery.py).
FailedFlushStaysCached ==
    [][\A s \in failedFlush : \A p \in teleParts[s] :
          p \in teleParts'[s] \/ <<races[s], s, p>> \in stored']_vars

\* No upload, flush or retry runs for ever, whatever the network does: attempts
\* are bounded, and lists are loaded once (checked under ThreadSpec).
ThreadsReturn == \A t \in Threads : pc[t] # "idle" ~> pc[t] = "idle"

\* A result on disk reaches the league and leaves the disk.
ResultDelivered ==
    NetworkHeals /\ RetryFairness =>
        \A s \in Sessions : s \in cachedRaces ~> (races[s] # NoRace /\ s \notin cachedRaces)

\* So does the telemetry of a recorded race, also if its race_id was never bound.
TelemetryDelivered ==
    NetworkHeals /\ RetryFairness =>
        \A s \in Sessions : (HasTelemetry(s) /\ races[s] # NoRace) ~> ~HasTelemetry(s)
=============================================================================
