------------------------------ MODULE LiveHub ------------------------------
(***************************************************************************)
(* Live status and live data on their way from the agent to a page:         *)
(* the queue of agent/ws_client.py, the hub of backend/routers/ws.py and    *)
(* the page's side of it, frontend/lib/ws.ts.                               *)
(*                                                                          *)
(* A message is a kind and a number: its place among the messages of that   *)
(* kind in the order the hub received them; 0 is "none yet".  Every         *)
(* connection, of an agent (a link) or of a page, has a handler of its own. *)
(* The handlers run in one event loop and lose control at each await:       *)
(* between any two sends of a broadcast pages come and go, an agent         *)
(* reconnects, and its new handler broadcasts while the old one still does. *)
(* A page also polls the snapshot, and answers arrive in any order.         *)
(***************************************************************************)
EXTENDS Naturals, Sequences, SequencesExt, FiniteSets, Functions

CONSTANTS HubAgents,       \* agents that report to this hub
          Viewers,         \* pages
          MaxClients,      \* _MAX_CLIENTS
          MaxLinks,        \* bound: connections of one agent
          MaxConnections,  \* bound: connections of one page
          MaxQueue,        \* bound: messages that wait in an agent's queue, which has no limit
          Loads            \* bound: of how much a behaviour may have, see AnyLoad

MessageKinds == {"status", "live"}

\* Messages of each kind, connections of one agent and of each page, polls of each page in
\* flight, restarts of the backend.
AnyLoad == [messages : [MessageKinds -> Nat], links : Nat, connections : [Viewers -> Nat],
         polls : [Viewers -> Nat], restarts : Nat]

ASSUME HubAssumption == /\ {MaxClients, MaxLinks, MaxConnections, MaxQueue} \subseteq Nat
                        /\ MaxClients > 0 /\ Loads \subseteq AnyLoad

VARIABLES
    load,        \* bound: how much this behaviour may have
    outbox,      \* of each agent: kinds of the messages that wait to be read by the hub
    link,        \* of each link: not opened yet, up, down
    late,        \* of each link that is down: messages that arrived and are still to be read
    heard,       \* _last_agent_msg: the number of each kind, 0 after a restart
    disk,        \* live_snapshot.json
    clients,     \* _client_connections: <<page, connection>>
    cast,        \* of each link's handler: the broadcast it is in
    handler,     \* of each connection: where its handler is
    socket,      \* of each page: its open connection, or 0
    greeting,    \* the live data captured for the connection being greeted
    got,         \* newest number of each kind that came over the open connection
    page,        \* the status each page shows
    polls,       \* answers to its polls in flight
    hubRestarts,
    atOnce,      \* history: the most handlers that awaited their accept at once
    total,       \* history: messages of each kind so far
    crossed,     \* history: two broadcasts ran at once
    backwards    \* history: a status overtaken by a newer one was sent to an open page

hubVars == <<load, outbox, link, late, heard, disk, clients, cast, handler, socket, greeting, got, page,
             polls, hubRestarts, atOnce, total, crossed, backwards>>

NoneYet      == [k \in MessageKinds |-> 0]
Links        == HubAgents \X (1..MaxLinks)
Connections  == Viewers \X (1..MaxConnections)
NoCast       == [kind |-> "none", number |-> 0, next |-> 0, dead |-> {}, owed |-> {}, left |-> 0]
Numbers      == [MessageKinds -> Nat]

HubTypeOK ==
    /\ load \in Loads
    /\ outbox \in [HubAgents -> Seq(MessageKinds)]
    /\ link \in [Links -> {"none", "up", "down"}] /\ late \in [Links -> Seq(MessageKinds)]
    /\ heard \in Numbers /\ disk \in Numbers /\ total \in Numbers
    /\ ToSet(clients) \subseteq Connections
    /\ \A l \in Links : cast[l] = NoCast \/ cast[l].kind \in MessageKinds
    /\ handler \in [Connections -> {"none", "accepting", "greeting", "reading", "ended"}]
    /\ socket \in [Viewers -> 0..MaxConnections]
    /\ greeting \in [Viewers -> Nat]
    /\ got \in [Viewers -> Numbers]
    /\ page \in [Viewers -> Nat]
    /\ \A v \in Viewers : polls[v] \in Seq(Nat)
    /\ hubRestarts \in 0..load.restarts /\ atOnce \in Nat

HubInit ==
    /\ load \in Loads
    /\ outbox = [a \in HubAgents |-> <<>>]
    /\ link = [l \in Links |-> "none"] /\ late = [l \in Links |-> <<>>]
    /\ heard = NoneYet /\ disk = NoneYet /\ total = NoneYet
    /\ clients = <<>>
    /\ cast = [l \in Links |-> NoCast]
    /\ handler = [c \in Connections |-> "none"]
    /\ socket = [v \in Viewers |-> 0]
    /\ greeting = [v \in Viewers |-> 0]
    /\ got = [v \in Viewers |-> NoneYet]
    /\ page = [v \in Viewers |-> 0]
    /\ polls = [v \in Viewers |-> <<>>]
    /\ hubRestarts = 0 /\ atOnce = 0
    /\ crossed = FALSE
    /\ backwards = FALSE

agentSide == <<load, outbox, link, late>>
hubSide   == <<heard, disk, total, cast, crossed, hubRestarts>>
pageSide  == <<clients, handler, socket, greeting, got, page, polls, atOnce, backwards>>

-----------------------------------------------------------------------------
(* The agent.                                                               *)

Count(kind, waiting) ==
    FoldFunction(LAMBDA q, n : n + Len(SelectSeq(q, LAMBDA k : k = kind)), 0, waiting)

\* send_status, send_live: queued, also while there is no connection.
Enqueue(a, kind) ==
    /\ Count(kind, outbox) + Count(kind, late) + total[kind] < load.messages[kind]
    /\ Len(outbox[a]) < MaxQueue
    /\ outbox' = [outbox EXCEPT ![a] = Append(@, kind)]
    /\ UNCHANGED <<load, link, late, hubSide, pageSide>>

\* The agent's client opens one connection after the other.
LinkUp(l) ==
    /\ l[2] <= load.links /\ link[l] = "none" /\ \A i \in 1..(l[2] - 1) : link[<<l[1], i>>] = "down"
    /\ link' = [link EXCEPT ![l] = "up"]
    /\ UNCHANGED <<load, outbox, late, hubSide, pageSide>>

\* A connection ends.  Of the messages waiting the first ones had arrived, and its handler
\* reads them yet; those sent after them are lost; the others stay in the queue.
LinkDown(l, arrived, lost) ==
    /\ link[l] = "up"
    /\ link' = [link EXCEPT ![l] = "down"]
    /\ LET waiting == outbox[l[1]]
       IN  /\ arrived + lost <= Len(waiting)
           /\ late' = [late EXCEPT ![l] = SubSeq(waiting, 1, arrived)]
           /\ outbox' = [outbox EXCEPT ![l[1]] = SubSeq(waiting, arrived + lost + 1, Len(waiting))]
    /\ UNCHANGED <<load, hubSide, pageSide>>

-----------------------------------------------------------------------------
(* The hub.                                                                 *)

\* Mutated form: the file is written when the broadcast is over.
RecordLater(kind) == UNCHANGED disk

\* _persist_snapshot writes what this process has heard, also of the other kind.
RecordHeard(kind) == disk' = [heard EXCEPT ![kind] = total[kind] + 1]

\* A message comes in: it is remembered, written to the file, and its broadcast
\* begins, without an await in between.
Receive(l, kind) ==
    /\ cast[l] = NoCast
    /\ total' = [total EXCEPT ![kind] = @ + 1]
    /\ heard' = [heard EXCEPT ![kind] = total[kind] + 1]
    /\ RecordHeard(kind)
    /\ cast' = [cast EXCEPT ![l] = [kind |-> kind, number |-> total[kind] + 1, next |-> 1, dead |-> {},
                                    owed |-> ToSet(clients), left |-> 0]]
    /\ crossed' = (crossed \/ \E k \in Links \ {l} : cast[k] # NoCast)
    /\ UNCHANGED <<load, link, pageSide, hubRestarts>>

Hear(l) ==
    /\ link[l] = "up" /\ outbox[l[1]] # <<>> /\ Receive(l, Head(outbox[l[1]]))
    /\ outbox' = [outbox EXCEPT ![l[1]] = Tail(@)]
    /\ UNCHANGED late

\* The handler of a link that is down reads what had arrived.
HearLate(l) ==
    /\ late[l] # <<>> /\ Receive(l, Head(late[l]))
    /\ late' = [late EXCEPT ![l] = Tail(@)]
    /\ UNCHANGED outbox

\* The page behind a connection is sent a message.
Reaches(v, kind, n) ==
    /\ got' = [got EXCEPT ![v][kind] = n]
    /\ page' = IF kind = "status" THEN [page EXCEPT ![v] = n] ELSE page
    /\ backwards' = (backwards \/ (kind = "status" /\ n < got[v][kind]))

\* One send of _broadcast, to the client that is now at the next place of the list.
\* A peer that is gone is noticed, or the send seems to succeed.
CastNext(l, noticed) ==
    /\ cast[l] # NoCast /\ cast[l].next <= Len(clients)
    /\ LET c    == clients[cast[l].next]
           open == socket[c[1]] = c[2]
       IN  /\ IF open THEN Reaches(c[1], cast[l].kind, cast[l].number) ELSE UNCHANGED <<got, page, backwards>>
           /\ cast' = [cast EXCEPT ![l].next = @ + 1, ![l].owed = @ \ {c},
                                   ![l].dead = IF ~open /\ noticed THEN @ \cup {c} ELSE @]
    /\ UNCHANGED <<agentSide, heard, disk, total, crossed, hubRestarts, clients, handler, socket, greeting,
                   polls, atOnce>>

\* A list without what has gone, in the same order.
Without(s, gone) ==
    LET left[i \in 0..Len(s)] == IF i = 0 THEN <<>>
                                 ELSE IF s[i] \in gone THEN left[i - 1] ELSE Append(left[i - 1], s[i])
    IN  left[Len(s)]

\* The clients at the places that a broadcast has passed.
Passed(s, next) == {s[i] : i \in {j \in DOMAIN s : j < next}}

\* Clients that go leave the list: every one at a place a broadcast has passed moves the
\* others one place past it.
DropClients(gone) ==
    /\ clients' = Without(clients, gone)
    /\ cast' = [l \in Links |->
                  [cast[l] EXCEPT !.left = @ + Cardinality(gone \cap Passed(clients, cast[l].next))]]

CastEnds(l) ==
    /\ cast[l] # NoCast /\ cast[l].next > Len(clients)
    /\ clients' = Without(clients, cast[l].dead)
    /\ cast' = [k \in Links |->
                  IF k = l THEN NoCast
                  ELSE [cast[k] EXCEPT
                          !.left = @ + Cardinality(cast[l].dead \cap Passed(clients, cast[k].next))]]
    /\ UNCHANGED <<agentSide, heard, disk, total, crossed, hubRestarts, handler, socket, greeting, got, page,
                   polls, atOnce, backwards>>

\* _current_snapshot: the file, overridden by what this process has heard.
Snapshot(kind) == IF heard[kind] # 0 THEN heard[kind] ELSE disk[kind]

Accepting == {c \in Connections : handler[c] = "accepting"}

\* A page connects: the list has room, and its handler awaits the accept.
ClientConnects(v) ==
    /\ socket[v] = 0 /\ Len(clients) < MaxClients
    /\ \E i \in 1..MaxConnections :
          /\ i <= load.connections[v]
          /\ handler[<<v, i>>] = "none" /\ \A j \in 1..(i - 1) : handler[<<v, j>>] # "none"
          /\ handler' = [handler EXCEPT ![<<v, i>>] = "accepting"]
          /\ socket' = [socket EXCEPT ![v] = i]
    /\ atOnce' = IF Cardinality(Accepting) < atOnce THEN atOnce ELSE Cardinality(Accepting) + 1
    /\ UNCHANGED <<agentSide, hubSide, clients, greeting, got, page, polls, backwards>>

\* It is listed, the snapshot is taken and its status is sent, all before the next await;
\* the page may have gone meanwhile.
ClientListed(c) ==
    /\ handler[c] = "accepting"
    /\ handler' = [handler EXCEPT ![c] = "greeting"]
    /\ clients' = Append(clients, c)
    /\ IF socket[c[1]] = c[2]
       THEN /\ got' = [got EXCEPT ![c[1]] = [NoneYet EXCEPT !["status"] = Snapshot("status")]]
            /\ page' = IF Snapshot("status") = 0 THEN page ELSE [page EXCEPT ![c[1]] = Snapshot("status")]
            /\ greeting' = [greeting EXCEPT ![c[1]] = Snapshot("live")]
       ELSE UNCHANGED <<got, page, greeting>>
    /\ UNCHANGED <<agentSide, hubSide, socket, polls, atOnce, backwards>>

\* The live data of that snapshot; a broadcast may have been faster.
ClientGreeted(v) ==
    /\ socket[v] # 0 /\ handler[<<v, socket[v]>>] = "greeting"
    /\ handler' = [handler EXCEPT ![<<v, socket[v]>>] = "reading"]
    /\ got' = IF greeting[v] = 0 THEN got ELSE [got EXCEPT ![v]["live"] = greeting[v]]
    /\ greeting' = [greeting EXCEPT ![v] = 0]
    /\ UNCHANGED <<agentSide, hubSide, clients, socket, page, polls, atOnce, backwards>>

\* A page closes its connection, or loses it; its handler learns of it later.
ClientGoes(v) ==
    /\ socket[v] # 0
    /\ socket' = [socket EXCEPT ![v] = 0]
    /\ greeting' = [greeting EXCEPT ![v] = 0]
    /\ got' = [got EXCEPT ![v] = NoneYet]
    /\ UNCHANGED <<agentSide, hubSide, clients, handler, page, polls, atOnce, backwards>>

\* The handler of a lost connection ends: unlisted while it awaited the accept; while it
\* was greeting the exception leaves it in the list, unless the sends seem to succeed.
HandlerEnds(c, listed) ==
    /\ handler[c] \in {"accepting", "greeting", "reading"} /\ socket[c[1]] # c[2]
    /\ handler' = [handler EXCEPT ![c] = "ended"]
    /\ listed => handler[c] = "greeting"
    /\ IF listed THEN UNCHANGED <<clients, cast>> ELSE DropClients({c})
    /\ UNCHANGED <<agentSide, heard, disk, total, crossed, hubRestarts, socket, greeting, got, page, polls,
                   atOnce, backwards>>

RestartHub ==
    /\ hubRestarts < load.restarts
    /\ hubRestarts' = hubRestarts + 1
    /\ heard' = NoneYet
    /\ clients' = <<>>
    /\ cast' = [l \in Links |-> NoCast]
    /\ link' = [l \in Links |-> IF link[l] = "none" THEN "none" ELSE "down"]
    /\ late' = [l \in Links |-> <<>>]
    /\ socket' = [v \in Viewers |-> 0]
    /\ handler' = [c \in Connections |-> IF handler[c] = "none" THEN "none" ELSE "ended"]
    /\ greeting' = [v \in Viewers |-> 0]
    /\ got' = [v \in Viewers |-> NoneYet]
    /\ UNCHANGED <<load, outbox, disk, total, crossed, page, polls, atOnce, backwards>>

-----------------------------------------------------------------------------
(* The page's polls of /api/live/snapshot.                                  *)

Poll(v) ==
    /\ Len(polls[v]) < load.polls[v]
    /\ polls' = [polls EXCEPT ![v] = Append(@, Snapshot("status"))]
    /\ UNCHANGED <<agentSide, hubSide, clients, handler, socket, greeting, got, page, atOnce, backwards>>

\* An answer without a status changes nothing.
PollArrives(v) ==
    /\ \E i \in DOMAIN polls[v] :
          /\ page' = IF polls[v][i] = 0 THEN page ELSE [page EXCEPT ![v] = polls[v][i]]
          /\ polls' = [polls EXCEPT ![v] = RemoveAt(@, i)]
    /\ UNCHANGED <<agentSide, hubSide, clients, handler, socket, greeting, got, atOnce, backwards>>

HubNext ==
    \/ \E a \in HubAgents, kind \in MessageKinds : Enqueue(a, kind)
    \/ \E l \in Links :
          \/ LinkUp(l) \/ Hear(l) \/ HearLate(l) \/ CastEnds(l)
          \/ \E noticed \in BOOLEAN : CastNext(l, noticed)
          \/ \E arrived, lost \in 0..MaxQueue : LinkDown(l, arrived, lost)
    \/ \E v \in Viewers : ClientConnects(v) \/ ClientGreeted(v) \/ ClientGoes(v) \/ Poll(v) \/ PollArrives(v)
    \/ \E c \in Connections : ClientListed(c) \/ \E listed \in BOOLEAN : HandlerEnds(c, listed)
    \/ RestartHub

HubSpec == HubInit /\ [][HubNext]_hubVars

-----------------------------------------------------------------------------

\* Nothing is shown to anybody that a restarted hub would not know, unless live data
\* heard after an earlier restart has wiped it from the file.
SeenIsOnDisk ==
    \A v \in Viewers : \A kind \in MessageKinds :
        LET shown == IF kind = "status" THEN page[v] ELSE got[v][kind]
        IN  shown <= disk[kind] \/ (hubRestarts > 0 /\ disk[kind] = 0)

\* Over one connection the status goes back only if two broadcasts ran at once, of two
\* agents or of an agent that reconnected.
SocketInOrder == backwards => crossed

\* A broadcast that ends has been sent to every page listed when it began that is still
\* listed, but for one at most for each connection that left the list, while it ran, from
\* a place it had passed; whoever else broadcasts, comes or goes.
FewSkipped ==
    \A l \in Links :
        cast[l] # NoCast /\ cast[l].next > Len(clients) =>
            Cardinality(cast[l].owed \cap ToSet(clients)) <= cast[l].left

\* The list is longer than _MAX_CLIENTS by no more than the pages but one that awaited
\* their accept at once: the room is checked before it and taken after it.
CapHeld == Len(clients) < MaxClients + atOnce

HubSound == HubTypeOK /\ SeenIsOnDisk /\ SocketInOrder /\ FewSkipped /\ CapHeld

\* A restarted hub still tells a new page the last status, as the snapshot file is
\* there for.
StatusSurvivesRestart == Snapshot("status") = total["status"]
=============================================================================
