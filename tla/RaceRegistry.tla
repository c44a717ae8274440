---------------------------- MODULE RaceRegistry ----------------------------
(***************************************************************************)
(* What POST /api/race/submit promises, with no database, transaction or   *)
(* concurrent handler in it: a session becomes one race, and every reply   *)
(* but a refusal names that race; one reply at most says that its request  *)
(* is the one that created it.                                             *)
(***************************************************************************)
CONSTANTS Requests, Uids, RaceIds, NoRace

VARIABLES recorded,   \* the race of each session, or NoRace
          replies     \* the reply to each request

registryVars == <<recorded, replies>>

NoReply == [status |-> "none", id |-> NoRace]
Refusal == [status |-> "error", id |-> NoRace]

RegistryInit ==
    /\ recorded = [u \in Uids |-> NoRace]
    /\ replies = [r \in Requests |-> NoReply]

Record(u, id) ==
    /\ recorded[u] = NoRace
    /\ \A v \in Uids : recorded[v] # id
    /\ recorded' = [recorded EXCEPT ![u] = id]
    /\ UNCHANGED replies

Reply(r, reply) ==
    /\ replies[r] = NoReply
    /\ replies' = [replies EXCEPT ![r] = reply]
    /\ UNCHANGED recorded

\* The race of the session was there already ...
Repeated(r, u) ==
    recorded[u] # NoRace /\ Reply(r, [status |-> "duplicate", id |-> recorded[u]])

\* ... or this request has created it.
Created(r, u) ==
    /\ recorded[u] # NoRace
    /\ \A q \in Requests : replies[q] # [status |-> "ok", id |-> recorded[u]]
    /\ Reply(r, [status |-> "ok", id |-> recorded[u]])

RegistryNext ==
    \/ \E u \in Uids, id \in RaceIds : Record(u, id)
    \/ \E r \in Requests : Reply(r, Refusal) \/ \E u \in Uids : Repeated(r, u) \/ Created(r, u)

RegistrySpec == RegistryInit /\ [][RegistryNext]_registryVars
=============================================================================
