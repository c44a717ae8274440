-------------------------- MODULE LauncherRuntime --------------------------
(***************************************************************************)
(* The desktop launcher around the agent: agent/launcher.py with the        *)
(* threads it starts, agent/udp_listener.py and agent/ws_client.py.         *)
(*                                                                          *)
(* start_agent starts a launch thread, which first retries what is cached,  *)
(* then creates an F1Agent and starts its runtime (the UDP listener and the *)
(* websocket), and stays until agent_running is cleared.  stop_agent runs   *)
(* in the page's thread and waits two seconds at most.  All of them share   *)
(* the same fields without a lock, so every write is a step of its own.     *)
(* What the retry does is in Delivery, what the page is told of it in       *)
(* RetryPanel.  The page makes one call at a time.                          *)
(***************************************************************************)
EXTENDS Naturals, FiniteSets

CONSTANTS Launches,   \* calls of start_agent, each with its thread and its agent
          NoLaunch    \* None

ASSUME NoLaunchAssumption == NoLaunch \notin Launches

VARIABLES
    running,    \* agent_running
    current,    \* the launch of agent_thread
    instance,   \* the launch whose F1Agent agent_instance is
    phase,      \* _lifecycle["phase"]
    thread,     \* where each launch thread is
    listener,   \* the UDP thread of each agent
    bridge,     \* its websocket client
    halted,     \* agents whose UDP thread was told to stop
    call,       \* the call of stop_agent under way
    shown,      \* _components["udp"]: what the page is told of the listener
    hurried     \* history: a stop or a start came while a launch was under way

control      == <<running, current, instance, call>>
sockets      == <<listener, bridge, halted>>
launcherVars == <<control, phase, thread, sockets, shown, hurried>>

Phases  == {"stopped", "starting", "running", "stopping", "error"}
Booting == {"boot", "retry", "create", "connect"}

LauncherTypeOK ==
    /\ running \in BOOLEAN
    /\ current \in Launches \cup {NoLaunch}
    /\ instance \in Launches \cup {NoLaunch}
    /\ phase \in Phases
    /\ thread \in [Launches -> Booting \cup {"none", "loop", "leaving", "end"}]
    /\ listener \in [Launches -> {"none", "binding", "listening", "closed"}]
    /\ bridge \in [Launches -> {"none", "up", "down"}]
    /\ halted \subseteq Launches
    /\ call \in {"none", "stopping", "forgetting", "joining"}
    /\ shown \in {"off", "listening", "error"}
    /\ hurried \in BOOLEAN

LauncherInit ==
    /\ running = FALSE
    /\ current = NoLaunch
    /\ instance = NoLaunch
    /\ phase = "stopped"
    /\ thread = [k \in Launches |-> "none"]
    /\ listener = [k \in Launches |-> "none"]
    /\ bridge = [k \in Launches |-> "none"]
    /\ halted = {}
    /\ call = "none"
    /\ shown = "off"
    /\ hurried = FALSE

-----------------------------------------------------------------------------
(* Helpers.                                                                 *)

Alive(k) == thread[k] \notin {"none", "end"}

Advance(k, step) == thread' = [thread EXCEPT ![k] = step]

Up(k) == bridge[k] = "up"

\* F1Agent.shutdown: its UDP thread is told to stop, its websocket client ended.
Shutdown(k) ==
    /\ halted' = halted \cup ({k} \cap Launches)
    /\ bridge' = [b \in Launches |-> IF b = k /\ Up(b) THEN "down" ELSE bridge[b]]
    /\ UNCHANGED listener

-----------------------------------------------------------------------------
(* start_agent and its thread.                                              *)

StartAgent(k) ==
    /\ call = "none" /\ ~running
    /\ thread[k] = "none"
    /\ running' = TRUE
    /\ current' = k
    /\ phase' = "starting"
    /\ Advance(k, "boot")
    /\ hurried' = (hurried \/ \E j \in Launches : Alive(j) \/ (listener[j] = "binding"))
    /\ UNCHANGED <<instance, call, sockets>>
    /\ shown' = "off"

BeginRetry(k) ==
    /\ thread[k] = "boot"
    /\ Advance(k, "retry")
    /\ phase' = "starting"
    /\ UNCHANGED <<control, sockets, shown, hurried>>

\* The retry of what was cached, which may wait for the network for long.
FinishRetry(k) ==
    /\ thread[k] = "retry"
    /\ Advance(k, "create")
    /\ UNCHANGED <<control, phase, sockets, shown, hurried>>

CreateAgent(k) ==
    /\ thread[k] = "create"
    /\ Advance(k, "connect")
    /\ phase' = "starting"
    /\ instance' = k
    /\ UNCHANGED <<running, current, call, sockets, shown, hurried>>

\* start_runtime, called on whatever agent_instance is now.  The listener of an
\* agent that was shut down before this starts too, and ends by itself.
Connect(k) ==
    /\ thread[k] = "connect"
    /\ instance # NoLaunch /\ listener[instance] = "none"
    /\ Advance(k, "loop")
    /\ phase' = "starting"
    /\ listener' = [listener EXCEPT ![instance] = "binding"]
    /\ bridge' = [bridge EXCEPT ![instance] = "up"]
    /\ shown' = "off"
    /\ UNCHANGED <<control, halted, hurried>>

\* The runtime of an agent that another launch has started already.
ConnectAgain(k) ==
    /\ thread[k] = "connect"
    /\ instance # NoLaunch /\ listener[instance] # "none" /\ instance \notin halted
    /\ Advance(k, "loop")
    /\ phase' = "starting"
    /\ UNCHANGED <<control, sockets, shown, hurried>>

\* An exception on the way: the cache, the port of the overlay, an agent that is gone.
LaunchFails(k) ==
    /\ thread[k] \in Booting
    /\ Advance(k, "leaving")
    /\ phase' = "error"
    /\ Shutdown(instance)
    /\ UNCHANGED <<control, shown, hurried>>

LeaveLoop(k) ==
    /\ thread[k] = "loop" /\ ~running
    /\ Advance(k, "leaving")
    /\ UNCHANGED <<control, phase, sockets, shown, hurried>>

\* The finally clause.
EndLaunch(k) ==
    /\ thread[k] = "leaving"
    /\ Advance(k, "end")
    /\ running' = FALSE
    /\ UNCHANGED <<current, instance, call, phase, sockets, shown, hurried>>

-----------------------------------------------------------------------------
(* stop_agent.                                                              *)

\* get_agent_status()["running"], by which the page offers Start or Stop.
Reported == phase \in {"starting", "stopping"} \/ (running /\ instance # NoLaunch)

StopAgent ==
    /\ call = "none" /\ Reported
    /\ call' = "stopping"
    /\ phase' = "stopping"
    /\ running' = FALSE
    /\ hurried' = (hurried \/ \E k \in Launches : thread[k] \in Booting \/ listener[k] = "binding")
    /\ UNCHANGED <<current, instance, thread, sockets, shown>>

StopRuntime ==
    /\ call = "stopping"
    /\ call' = IF instance = NoLaunch THEN "joining" ELSE "forgetting"
    /\ phase' = IF instance = NoLaunch THEN phase ELSE "stopping"
    /\ Shutdown(instance)
    /\ UNCHANGED <<running, current, instance, thread, shown, hurried>>

ForgetAgent ==
    /\ call = "forgetting"
    /\ call' = "joining"
    /\ phase' = "stopping"
    /\ instance' = NoLaunch
    /\ UNCHANGED <<running, current, thread, sockets, shown, hurried>>

\* join(timeout=2): a thread that only has to leave its loop ends in time; one
\* that waits for the network or for the overlay may not.
StopReturns ==
    /\ call = "joining"
    /\ current # NoLaunch => thread[current] \in Booting \cup {"end"}
    /\ call' = "none"
    /\ current' = NoLaunch
    /\ phase' = "stopped"
    /\ UNCHANGED <<running, instance, thread, sockets, hurried>>
    /\ shown' = "off"

-----------------------------------------------------------------------------
(* The UDP thread and the websocket client report to _observe_runtime_event. *)

\* "listening" is what makes a launch a running one.
Listening(k) ==
    /\ phase' = IF phase = "starting" THEN "running" ELSE phase
    /\ shown' = "listening"

Bind(k) ==
    /\ listener[k] = "binding"
    /\ listener' = [listener EXCEPT ![k] = "listening"]
    /\ Listening(k)
    /\ UNCHANGED <<control, thread, bridge, halted, hurried>>

\* Mutated form: a port that is taken is only shown.
BindOnlyShown(k) ==
    /\ listener[k] = "binding"
    /\ listener' = [listener EXCEPT ![k] = "closed"]
    /\ shown' = "error"
    /\ UNCHANGED <<control, phase, thread, bridge, halted, hurried>>

\* bind_failed: _abort_agent_runtime, from the UDP thread.
BindFails(k) ==
    /\ listener[k] = "binding"
    /\ listener' = [listener EXCEPT ![k] = "closed"]
    /\ running' = FALSE
    /\ phase' = "error"
    /\ halted' = halted \cup ({instance} \cap Launches)
    /\ bridge' = [b \in Launches |-> IF b = instance /\ Up(b) THEN "down" ELSE bridge[b]]
    /\ UNCHANGED <<current, instance, call, thread, hurried>>
    /\ shown' = "error"

CloseListener(k) ==
    /\ listener[k] = "listening" /\ k \in halted
    /\ listener' = [listener EXCEPT ![k] = "closed"]
    /\ UNCHANGED <<control, phase, thread, bridge, halted, hurried>>
    /\ shown' = "off"

\* receive_failed or callback_failed.
PacketFails(k) ==
    /\ listener[k] = "listening" /\ k \notin halted
    /\ shown' = "error"
    /\ UNCHANGED <<control, phase, thread, sockets, hurried>>

\* The next packet after a failure that is handled.
Recover(k) ==
    /\ listener[k] = "listening" /\ k \notin halted
    /\ shown = "error"
    /\ Listening(k)
    /\ UNCHANGED <<control, thread, sockets, hurried>>

\* The websocket client dials again and again, whatever happens to its connections,
\* until it is told to stop or the backend answers 401.
DialRejected(k) ==
    /\ Up(k)
    /\ bridge' = [bridge EXCEPT ![k] = "down"]
    /\ UNCHANGED <<control, phase, thread, listener, halted, shown, hurried>>

Launch(k) ==
    \/ BeginRetry(k) \/ FinishRetry(k) \/ CreateAgent(k) \/ Connect(k) \/ ConnectAgain(k)
    \/ LaunchFails(k) \/ LeaveLoop(k) \/ EndLaunch(k)

Sockets(k) ==
    \/ Bind(k) \/ BindFails(k) \/ CloseListener(k) \/ PacketFails(k) \/ Recover(k)
    \/ DialRejected(k)

LauncherNext ==
    \/ \E k \in Launches : StartAgent(k) \/ Launch(k) \/ Sockets(k)
    \/ StopAgent \/ StopRuntime \/ ForgetAgent \/ StopReturns

LauncherSpec == LauncherInit /\ [][LauncherNext]_launcherVars

-----------------------------------------------------------------------------
(* Properties.                                                              *)

\* No call and no thread is about to change anything.
Settled ==
    /\ call = "none"
    /\ \A k \in Launches : thread[k] \in {"none", "loop", "end"} /\ listener[k] # "binding"
    /\ \A k \in Launches : thread[k] = "loop" => running
    /\ \A k \in halted : listener[k] # "listening"

\* An agent that takes packets or holds a connection.
Works(k) == listener[k] = "listening" \/ Up(k)

\* What the page is told of the agent is so, which is what the launcher's checklist
\* asks of Start and Stop: when nothing is under way and it offers Start, no agent
\* is at work.
StatusTruthful == Settled /\ ~Reported => \A k \in Launches : ~Works(k)

\* If nobody stopped or started the agent in the middle of a launch, the status is
\* true in both directions and at most the agent the launcher holds is at work.
LauncherTrue ==
    ~hurried /\ Settled =>
        /\ \A k \in Launches : Works(k) => k = instance
        /\ Reported <=> (instance # NoLaunch /\ listener[instance] = "listening")
        /\ shown = "listening" => Reported

LauncherSound == LauncherTypeOK /\ LauncherTrue
=============================================================================
