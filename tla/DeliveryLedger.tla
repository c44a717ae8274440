--------------------------- MODULE DeliveryLedger ---------------------------
(***************************************************************************)
(* What the delivery pipeline promises about race results, with no agent,  *)
(* cache, thread or network in it: the result of a session is unknown to   *)
(* the league until the agent has it on disk, then it is kept, and from    *)
(* then on the only thing that can happen to it is that it becomes one     *)
(* race of the league, whose id never changes.                             *)
(***************************************************************************)
CONSTANTS Sessions,   \* session_uid values of the game
          RaceIds,    \* primary keys of the races table
          NoRace      \* "no race id"

VARIABLES kept,       \* sessions whose result the agent has made durable
          recorded    \* the race each session became, or NoRace

ledgerVars == <<kept, recorded>>

LedgerInit ==
    /\ kept = {}
    /\ recorded = [s \in Sessions |-> NoRace]

\* The agent makes the result of s durable.
Keep(s) ==
    /\ kept' = kept \cup {s}
    /\ UNCHANGED recorded

\* The league records a kept result, once, under an id no other race has.
Record(s, id) ==
    /\ s \in kept
    /\ recorded[s] = NoRace
    /\ \A u \in Sessions : recorded[u] # id
    /\ recorded' = [recorded EXCEPT ![s] = id]
    /\ UNCHANGED kept

LedgerNext ==
    \E s \in Sessions :
        \/ Keep(s)
        \/ \E id \in RaceIds : Record(s, id)

LedgerSpec == LedgerInit /\ [][LedgerNext]_ledgerVars
=============================================================================
