----------------------------- MODULE RetryPanel -----------------------------
(***************************************************************************)
(* What the launcher's page is told of the deliveries still waiting: the    *)
(* "upload" and "telemetry" lines of agent/launcher.py, refreshed by every  *)
(* retry pass, by the running agent's own uploads and by the page's polling.*)
(*                                                                          *)
(* A refresh reads _pending_retry_running and the two caches, and writes    *)
(* the line later; threads that refresh at once may write in another order  *)
(* than they read.  The caches themselves are modules Delivery and          *)
(* DurableCache: here they are numbers of entries.                          *)
(***************************************************************************)
EXTENDS Naturals

CONSTANTS Passes,     \* threads of start_agent and retry_pending_uploads_now
          Page,       \* the thread that serves the page's polls
          Agent,      \* the upload threads of the running agent
          MaxResults  \* results the agent caches

ASSUME PanelAssumption == /\ Page \notin Passes /\ Agent \notin Passes /\ Page # Agent
                          /\ MaxResults \in Nat \ {0}

VARIABLES
    retryFlag,  \* _pending_retry_running
    cached,     \* entries: results, telemetry that waits for a race_id, telemetry that is ready
    passAt,     \* of each pass: "idle", "asked", "busy" or "closing"
    refresh,    \* of each thread: the lines it is about to refresh, and what it has read
    panel,      \* _components["upload"], _components["telemetry"]
    results,    \* results the agent has cached so far
    clean,      \* history: nothing has changed since the page's last read
    fresh       \* history: ... and that read was the last to be written

panelVars == <<retryFlag, cached, passAt, refresh, panel, results, clean, fresh>>

Threads == Passes \cup {Page, Agent}
PanelLines == {"upload", "telemetry"}
Idle    == [lines |-> {}, seen |-> {}]

\* The line for results and the line for telemetry, from what a refresh has read.
LineFor(line, retrying, c) ==
    IF line = "upload"
    THEN [state   |-> CASE retrying -> "retrying" [] ~retrying /\ c.results > 0 -> "pending" [] OTHER -> "ready",
          count   |-> c.results, ready |-> 0]
    ELSE [state   |-> CASE c.waiting + c.ready = 0 -> "ready" [] c.waiting + c.ready > 0 /\ retrying -> "retrying"
                        [] OTHER -> "pending",
          count   |-> c.waiting + c.ready, ready |-> c.ready]

LinesOf(retrying, c) == [line \in PanelLines |-> LineFor(line, retrying, c)]

CacheCounts == [results : 0..MaxResults, waiting : 0..MaxResults, ready : 0..MaxResults]
Readings    == [flag : BOOLEAN, caches : CacheCounts]

PanelTypeOK ==
    /\ retryFlag \in BOOLEAN
    /\ cached \in CacheCounts
    /\ passAt \in [Passes -> {"idle", "asked", "busy", "closing"}]
    /\ refresh \in [Threads -> [lines : SUBSET PanelLines, seen : SUBSET Readings]]
    /\ panel \in [PanelLines -> [state : {"ready", "pending", "retrying", "error", "auth_failed"},
                                 count : Nat, ready : Nat]]
    /\ results \in 0..MaxResults
    /\ clean \in BOOLEAN /\ fresh \in BOOLEAN

PanelInit ==
    /\ retryFlag = FALSE
    /\ cached \in [results : {0, 1}, waiting : {0, 1}, ready : {0}]
    /\ passAt = [p \in Passes |-> "idle"]
    /\ refresh = [t \in Threads |-> Idle]
    /\ panel = LinesOf(FALSE, cached)
    /\ results = cached.results
    /\ clean = FALSE /\ fresh = FALSE

\* Thread t goes on to refresh these lines.
ThenRefresh(t, lines) == refresh' = [refresh EXCEPT ![t] = [lines |-> lines, seen |-> {}]]

Changed == clean' = FALSE /\ fresh' = FALSE

Free(t) == refresh[t] = Idle

-----------------------------------------------------------------------------

\* What the refresh reads, and later writes.
Look(t) ==
    /\ refresh[t].lines # {} /\ refresh[t].seen = {}
    /\ refresh' = [refresh EXCEPT ![t].seen = {[flag |-> retryFlag, caches |-> cached]}]
    /\ clean' = (clean \/ t = Page)
    /\ UNCHANGED <<retryFlag, cached, passAt, panel, results, fresh>>

Show(t) ==
    /\ \E read \in refresh[t].seen :
          panel' = [line \in PanelLines |->
                      IF line \in refresh[t].lines THEN LineFor(line, read.flag, read.caches) ELSE panel[line]]
    /\ refresh' = [refresh EXCEPT ![t] = Idle]
    /\ fresh' = (t = Page /\ clean)
    /\ UNCHANGED <<retryFlag, cached, passAt, results, clean>>

\* get_agent_status, which the page asks for every few seconds.
PollStatus ==
    /\ Free(Page)
    /\ ThenRefresh(Page, PanelLines)
    /\ clean' = FALSE
    /\ UNCHANGED <<retryFlag, cached, passAt, panel, results, fresh>>

\* retry_pending_uploads_now: the flag and the caches are read here, the flag is
\* set by the thread it starts.
AskForPass(p) ==
    /\ passAt[p] = "idle"
    /\ ~retryFlag
    /\ cached.results + cached.waiting + cached.ready > 0
    /\ passAt' = [passAt EXCEPT ![p] = "asked"]
    /\ UNCHANGED <<retryFlag, cached, refresh, panel, results, clean, fresh>>

\* A launch begins its pass whatever the flag says, and with empty caches too.
BeginPass(p) ==
    /\ passAt[p] \in {"idle", "asked"} /\ Free(p)
    /\ passAt' = [passAt EXCEPT ![p] = "busy"]
    /\ retryFlag' = TRUE
    /\ ThenRefresh(p, PanelLines)
    /\ Changed
    /\ UNCHANGED <<cached, panel, results>>

\* A pass or the agent delivers a result; its telemetry entry learns the race_id,
\* unless the answer had none.
DeliverResult(t) ==
    /\ Free(t) /\ (t = Agent \/ (t \in Passes /\ passAt[t] = "busy"))
    /\ cached.results > 0
    /\ \E bound \in 0..1 :
          /\ bound <= cached.waiting
          /\ cached' = [results |-> cached.results - 1, waiting |-> cached.waiting - bound,
                        ready |-> cached.ready + bound]
    /\ ThenRefresh(t, {"upload"})
    /\ Changed
    /\ UNCHANGED <<retryFlag, passAt, panel, results>>

DeliverTelemetry(t) ==
    /\ Free(t) /\ (t = Agent \/ (t \in Passes /\ passAt[t] = "busy"))
    /\ cached.ready > 0
    /\ cached' = [cached EXCEPT !.ready = @ - 1]
    /\ ThenRefresh(t, {"telemetry"})
    /\ Changed
    /\ UNCHANGED <<retryFlag, passAt, panel, results>>

\* An attempt begins or fails: the line says so until the refresh that follows.
\* After a 401 none follows.
Attempt(t, line, state) ==
    /\ Free(t) /\ (t = Agent \/ (t \in Passes /\ passAt[t] = "busy"))
    /\ panel' = [panel EXCEPT ![line].state = state]
    /\ IF state = "auth_failed" THEN UNCHANGED refresh ELSE ThenRefresh(t, {line})
    /\ fresh' = FALSE
    /\ UNCHANGED <<retryFlag, cached, passAt, results, clean>>

\* Mutated form: an exception leaves the flag as it was.
LeaveFlag(p) ==
    /\ passAt[p] = "busy" /\ Free(p)
    /\ passAt' = [passAt EXCEPT ![p] = "closing"]
    /\ ThenRefresh(p, PanelLines)
    /\ Changed
    /\ UNCHANGED <<retryFlag, cached, panel, results>>

\* The finally clause, also after an exception.
EndPassing(p) ==
    /\ passAt[p] = "busy" /\ Free(p)
    /\ passAt' = [passAt EXCEPT ![p] = "closing"]
    /\ retryFlag' = FALSE
    /\ ThenRefresh(p, PanelLines)
    /\ Changed
    /\ UNCHANGED <<cached, panel, results>>

PassIsOver(p) ==
    /\ passAt[p] = "closing" /\ Free(p)
    /\ passAt' = [passAt EXCEPT ![p] = "idle"]
    /\ UNCHANGED <<retryFlag, cached, refresh, panel, results, clean, fresh>>

\* The running agent caches a result, and telemetry if it has any.
CacheResult(telemetry) ==
    /\ Free(Agent) /\ results < MaxResults
    /\ results' = results + 1
    /\ cached' = [cached EXCEPT !.results = @ + 1,
                                !.waiting = IF telemetry /\ @ + cached.ready < MaxResults THEN @ + 1 ELSE @]
    /\ ThenRefresh(Agent, {"upload"})
    /\ Changed
    /\ UNCHANGED <<retryFlag, passAt, panel>>

PanelNext ==
    \/ PollStatus
    \/ \E t \in Threads : Look(t) \/ Show(t) \/ DeliverResult(t) \/ DeliverTelemetry(t)
    \/ \E t \in Threads, line \in PanelLines, state \in {"error", "auth_failed"} : Attempt(t, line, state)
    \/ \E p \in Passes : AskForPass(p) \/ BeginPass(p) \/ EndPassing(p) \/ PassIsOver(p)
    \/ \E telemetry \in BOOLEAN : CacheResult(telemetry)

PanelSpec == PanelInit /\ [][PanelNext]_panelVars

-----------------------------------------------------------------------------

\* Whatever the threads have overwritten of each other: once no pass runs, the next
\* poll that meets no change tells the page exactly what is still cached, and the
\* page may ask for another pass.
PanelTrue ==
    (\A p \in Passes : passAt[p] \in {"idle", "asked"}) =>
        /\ ~retryFlag
        /\ fresh => panel = LinesOf(FALSE, cached)

PanelSound == PanelTypeOK /\ PanelTrue

\* The inductive invariant: the flag is set only for a pass at work; while nothing has
\* changed the page's reading is what is, and what it wrote last says so.
PanelInv ==
    /\ PanelTypeOK
    /\ cached.results <= results /\ cached.waiting + cached.ready <= MaxResults
    /\ retryFlag => \E p \in Passes : passAt[p] = "busy"
    /\ refresh[Page] = Idle \/ refresh[Page].lines = PanelLines
    /\ clean => refresh[Page].seen \subseteq {[flag |-> retryFlag, caches |-> cached]}
    /\ fresh => panel = LinesOf(retryFlag, cached)
=============================================================================
