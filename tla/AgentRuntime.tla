---------------------------- MODULE AgentRuntime ----------------------------
(***************************************************************************)
(* One runtime of the agent: agent/main.py's F1Agent with its state machine *)
(* and its telemetry buffer.                                               *)
(*                                                                         *)
(* The UDP thread hands over the game's packets, which arrive in any order *)
(* and may belong to a session that is over; each upload thread waits for  *)
(* the delivery of one result (module Delivery), reports it and later puts *)
(* the agent back to idle; the sampler copies the latest car data into the *)
(* lap buffers.  Handlers hold the agent's lock from start to end, so each *)
(* is one step.  What a packet says is abstracted to the session it is     *)
(* about: a "tag" is the session_uid of a packet that left something here. *)
(***************************************************************************)
EXTENDS FiniteSets

CONSTANTS Sessions,   \* session_uid values of the game
          NoUid,      \* 0: no session; the game also sends it outside sessions
          Workers     \* upload threads of this runtime

ASSUME NoUidAssumption == NoUid \notin Sessions

VARIABLES
    listening,   \* the UDP thread takes packets
    uid,         \* _session_uid
    state,       \* the state machine
    context,     \* tags of _session_info, _participants, _events, _fastest_lap_vidx
    collecting,  \* TelemetryBuffer._running
    latest,      \* tags of the latest car data
    buffer,      \* tags of the lap buffers and the session history
    uploading,   \* _uploading_uids
    uploaded,    \* _uploaded_uids
    phase,       \* of each upload thread: "idle", "upload" or "settled"
    work,        \* what it was started with: the session and the payload's tags
    snapshots,   \* history: <<session, tag>> of every snapshot cached
    left         \* history: sessions the agent rolled over from

session == <<uid, state, context>>
capture == <<collecting, latest, buffer>>
guards  == <<uploading, uploaded>>
workers == <<phase, work>>
vars    == <<listening, session, capture, guards, workers, snapshots, left>>

Uids     == Sessions \cup {NoUid}
States   == {"idle", "waiting", "qualifying", "race", "finished", "uploaded"}
Contexts == {"info", "participants", "events", "fastest"}
Kinds    == {"unparsed", "other", "quali", "race"}   \* of a SESSION packet
NoContext == [c \in Contexts |-> {}]

TypeOK ==
    /\ listening \in BOOLEAN
    /\ uid \in Uids
    /\ state \in States
    /\ context \in [Contexts -> SUBSET Uids]
    /\ collecting \in BOOLEAN
    /\ latest \subseteq Uids
    /\ buffer \subseteq Uids
    /\ uploading \subseteq Sessions
    /\ uploaded \subseteq Sessions
    /\ phase \in [Workers -> {"idle", "upload", "settled"}]
    /\ work \in [Workers -> [uid : Uids, data : SUBSET Uids]]
    /\ snapshots \subseteq Sessions \X Uids
    /\ left \subseteq Sessions

Init ==
    /\ listening = TRUE
    /\ uid = NoUid
    /\ state = "idle"
    /\ context = NoContext
    /\ collecting = FALSE
    /\ latest = {}
    /\ buffer = {}
    /\ uploading = {}
    /\ uploaded = {}
    /\ phase = [w \in Workers |-> "idle"]
    /\ work = [w \in Workers |-> [uid |-> NoUid, data |-> {}]]
    /\ snapshots = {}
    /\ left = {}

-----------------------------------------------------------------------------
(* Helpers.                                                                *)

Capturing == {"waiting", "qualifying", "race"}

\* Packets other than SESSION get past the check at the top of _on_packet.
Accepted(s) == uid = NoUid \/ s = uid

\* TelemetryBuffer.reset.
ClearCapture == collecting' = FALSE /\ latest' = {} /\ buffer' = {}

\* _reset_session_locked.
ResetSession == uid' = NoUid /\ state' = "idle" /\ context' = NoContext /\ ClearCapture

\* The state machine after a SESSION packet: a new session starts from idle.
StateAfter(s, kind) ==
    LET old == IF s # uid THEN "idle" ELSE state
    IN  CASE old = "idle" /\ kind # "unparsed"                    -> "waiting"
          [] old = "waiting" /\ kind = "quali"                    -> "qualifying"
          [] old \in {"waiting", "qualifying"} /\ kind = "race"   -> "race"
          [] OTHER                                                -> old

\* Mutated form: the participants of the session before are kept.
ContextKept(s) ==
    IF s # uid THEN [context EXCEPT !["info"] = {s}, !["events"] = {}, !["fastest"] = {}]
    ELSE [context EXCEPT !["info"] = @ \cup {s}]

\* weather_start is kept while the session lasts, the rest overwritten.
ContextAfter(s) ==
    [(IF s # uid THEN NoContext ELSE context) EXCEPT !["info"] = @ \cup {s}]

\* Mutated form: a rollover lets the sampler go on.
CaptureLeft(s, kind) ==
    IF state # "race" /\ StateAfter(s, kind) = "race"
    THEN collecting' = TRUE /\ latest' = {} /\ buffer' = {}
    ELSE UNCHANGED capture

\* A rollover clears the buffer; entering the race starts it afresh.
CaptureAfter(s, kind) ==
    CASE s # uid -> ClearCapture
      [] s = uid /\ state # "race" /\ StateAfter(s, kind) = "race" ->
            collecting' = TRUE /\ latest' = {} /\ buffer' = {}
      [] OTHER -> UNCHANGED capture

\* Mutated form: only finished uploads are remembered.
AlreadyUploaded(s) == s \in uploaded

\* A FinalClassification of s has been taken and its upload runs or succeeded.
AlreadyTaken(s) == s \in uploading \cup uploaded

-----------------------------------------------------------------------------
(* Packets.                                                                *)

SessionPacket(s, kind) ==
    /\ listening
    /\ uid' = s
    /\ state' = StateAfter(s, kind)
    /\ context' = ContextAfter(s)
    /\ CaptureAfter(s, kind)
    /\ left' = IF s # uid /\ uid # NoUid THEN left \cup {uid} ELSE left
    /\ UNCHANGED <<listening, guards, workers, snapshots>>

\* A PARTICIPANTS packet that lists somebody.
ParticipantsPacket(s) ==
    /\ listening
    /\ Accepted(s)
    /\ context' = [context EXCEPT !["participants"] = {s}]
    /\ UNCHANGED <<listening, uid, state, capture, guards, workers, snapshots, left>>

\* An EVENT packet; FTLP also names the fastest lap.
EventPacket(s, fastest) ==
    /\ listening
    /\ s = uid
    /\ uid # NoUid
    /\ context' = [context EXCEPT
                     !["fastest"] = IF fastest THEN {s} ELSE @,
                     !["events"] = IF state \in {"race", "qualifying"} THEN @ \cup {s} ELSE @]
    /\ UNCHANGED <<listening, uid, state, capture, guards, workers, snapshots, left>>

\* Motion, car, lap and history packets during a race update the latest car
\* data, the lap buffers (a lap time, a history), or both.
RacePacket(s, current, timed) ==
    /\ listening
    /\ Accepted(s)
    /\ state = "race"
    /\ collecting
    /\ latest' = IF current THEN latest \cup {s} ELSE latest
    /\ buffer' = IF timed THEN buffer \cup {s} ELSE buffer
    /\ UNCHANGED <<listening, session, collecting, guards, workers, snapshots, left>>

\* A FinalClassification with entries: the buffer is detached and cached, and
\* an upload thread gets a copy of the context; without participants there is
\* nothing to upload and the agent is idle again at once.
FinalPacket(s) ==
    /\ listening
    /\ s = uid
    /\ uid # NoUid
    /\ ~AlreadyTaken(s)
    /\ state \in Capturing
    /\ snapshots' = snapshots \cup ({s} \X buffer)
    /\ IF context["participants"] = {}
       THEN ResetSession /\ UNCHANGED <<workers, uploading>>
       ELSE /\ state' = "finished"
            /\ ClearCapture
            /\ uploading' = uploading \cup {s}
            /\ \E w \in Workers :
                  /\ phase[w] = "idle"
                  /\ phase' = [phase EXCEPT ![w] = "upload"]
                  /\ work' = [work EXCEPT ![w] =
                        [uid |-> s, data |-> UNION {context[c] : c \in Contexts}]]
            /\ UNCHANGED <<uid, context>>
    /\ UNCHANGED <<listening, uploaded, left>>

-----------------------------------------------------------------------------
(* The sampler, the upload threads and the shutdown.                       *)

\* Only cars whose position and lap are known are sampled.
Sample ==
    /\ collecting
    /\ \E tags \in SUBSET latest : buffer' = buffer \cup tags
    /\ UNCHANGED <<listening, session, collecting, latest, guards, workers, snapshots, left>>

\* Mutated form: a failed upload ends without its reset.
UploadReturnsAtOnce(w, ok) ==
    /\ phase[w] = "upload"
    /\ phase' = [phase EXCEPT ![w] = IF ok THEN "settled" ELSE "idle"]
    /\ uploading' = uploading \ {work[w].uid}
    /\ uploaded' = IF ok THEN uploaded \cup {work[w].uid} ELSE uploaded
    /\ state' = IF ok /\ uid = work[w].uid /\ state = "finished" THEN "uploaded" ELSE state
    /\ UNCHANGED <<listening, uid, context, capture, work, snapshots, left>>

\* upload_race has returned.  The state machine goes from finished to uploaded;
\* it refuses the transition if the session has been left and entered again.
UploadReturns(w, ok) ==
    /\ phase[w] = "upload"
    /\ phase' = [phase EXCEPT ![w] = "settled"]
    /\ uploading' = uploading \ {work[w].uid}
    /\ uploaded' = IF ok THEN uploaded \cup {work[w].uid} ELSE uploaded
    /\ state' = IF ok /\ uid = work[w].uid /\ state = "finished" THEN "uploaded" ELSE state
    /\ UNCHANGED <<listening, uid, context, capture, work, snapshots, left>>

\* Mutated form: whatever the session does now is reset.
ResettableAnyState(w) == uid = work[w].uid

\* Mutated form: a failed upload leaves the session finished.
ResettableUploaded(w) == uid = work[w].uid /\ state = "uploaded"

\* _reset_session_if_current finds its session over and still there.
Resettable(w) == uid = work[w].uid /\ state \in {"finished", "uploaded"}

\* The telemetry is flushed and the thread ends.
WorkerEnds(w) ==
    /\ phase[w] = "settled"
    /\ phase' = [phase EXCEPT ![w] = "idle"]
    /\ IF Resettable(w) THEN ResetSession ELSE UNCHANGED <<session, capture>>
    /\ UNCHANGED <<listening, guards, work, snapshots, left>>

\* shutdown: the UDP thread ends first, then the buffer is cleared.
StopListening ==
    /\ listening
    /\ listening' = FALSE
    /\ UNCHANGED <<session, capture, guards, workers, snapshots, left>>

StopCapture ==
    /\ ~listening
    /\ ClearCapture
    /\ UNCHANGED <<listening, session, guards, workers, snapshots, left>>

-----------------------------------------------------------------------------
Worker(w) == WorkerEnds(w) \/ \E ok \in BOOLEAN : UploadReturns(w, ok)

Next ==
    \/ \E s \in Uids, kind \in Kinds : SessionPacket(s, kind)
    \/ \E s \in Uids : ParticipantsPacket(s) \/ FinalPacket(s)
    \/ \E s \in Uids, b \in BOOLEAN : EventPacket(s, b)
    \/ \E s \in Uids, current, timed \in BOOLEAN : RacePacket(s, current, timed)
    \/ \E w \in Workers : Worker(w)
    \/ Sample \/ StopListening \/ StopCapture

Spec == Init /\ [][Next]_vars

\* An upload thread returns (Delivery's ThreadsReturn) and is scheduled.
LiveSpec == Spec /\ \A w \in Workers : WF_vars(Worker(w))

-----------------------------------------------------------------------------
(* Properties.                                                             *)

\* Every telemetry snapshot cached under a session, and every payload handed to
\* an upload, consist of that session's packets only, in whatever order packets
\* of old, new and no sessions arrive.
OwnDataOnly ==
    /\ \A entry \in snapshots : entry[2] = entry[1]
    /\ \A w \in Workers : phase[w] # "idle" => work[w].data \subseteq {work[w].uid}

\* The sampler runs exactly during a race: no race goes unrecorded, and no
\* sampler outlives the race it was started for.
RaceCollects == listening => (collecting <=> state = "race")

\* A finished session always has a thread that is still going to put the agent
\* back to idle, and "uploaded" is shown only for a session the league has.
NeverStranded ==
    /\ state = "finished" => \E w \in Workers : phase[w] # "idle" /\ work[w].uid = uid
    /\ state = "uploaded" => /\ uid \in uploaded
                             /\ \E w \in Workers : phase[w] = "settled" /\ work[w].uid = uid

\* A result is uploaded by one thread at a time, and never again once it has
\* been, although its FinalClassification may come at any time.
UploadedOnce ==
    /\ uploading = {work[w].uid : w \in {v \in Workers : phase[v] = "upload"}}
    /\ \A v, w \in Workers : phase[v] = "upload" /\ phase[w] = "upload" /\ work[v].uid = work[w].uid => v = w
    /\ uploading \cap uploaded = {}

\* While a session is known, everything gathered is about it; with none, packets
\* of any session are taken, and the next rollover throws them away.
Gathered ==
    uid # NoUid => /\ \A c \in Contexts : context[c] \subseteq {uid}
                   /\ latest \cup buffer \subseteq {uid}

\* Upload threads are started for sessions of the game.
WorkersNamed == \A w \in Workers : phase[w] # "idle" => work[w].uid \in Sessions

\* A finished session is still the current one, and its sampler has stopped.
OverIsStill == state \in {"finished", "uploaded"} => uid # NoUid /\ ~collecting

\* The inductive invariant.
RuntimeInv ==
    /\ TypeOK
    /\ Gathered
    /\ OwnDataOnly
    /\ RaceCollects
    /\ NeverStranded
    /\ UploadedOnce
    /\ WorkersNamed
    /\ OverIsStill

\* A late thread never disturbs a capture: not that of the next session, and not
\* that of its own session once the game has entered it again.
WorkersSpareCapture ==
    [][\A w \in Workers :
          phase[w] = "settled" /\ phase'[w] = "idle" /\ collecting => UNCHANGED <<session, capture>>]_vars

\* The agent does not stay in a finished session: "failed upload or missing
\* participants no longer leave the runtime stuck in FINISHED".
FinishedIsLeft == state \in {"finished", "uploaded"} ~> state \notin {"finished", "uploaded"}

\* "Stale packets from an old session_uid are ignored after rollover": the agent
\* never comes back to a session it rolled over from.
NeverGoesBack == [][uid' # uid => uid' \notin left]_vars
=============================================================================
