------------------------------ MODULE Contracts ------------------------------
(***************************************************************************)
(* Contracts (services/contract_generator.py, routers/contracts.py): the   *)
(* offers generated for the players of a season, kept in memory, and the   *)
(* contracts that players accept.                                          *)
(*                                                                         *)
(* A deal is one request, or the background job it has left.  Its SELECTs  *)
(* and its COMMIT are steps of their own and no constraint of the database *)
(* keeps a seat or a player from having two contracts.                     *)
(***************************************************************************)
EXTENDS Integers, Sequences, FiniteSets, SequencesExt

CONSTANTS Pilots, Admins, Moderators,   \* users and what they may do
          Deals,         \* requests
          DealScripts,   \* what the requests may ask, together
          Seasons,
          Driven,        \* the pilots with results in each season
          Merit,         \* int(rating / 30) of each pilot
          NoContract,
          DealRestarts   \* bound: restarts of the backend

Teams == 0..9
FreeAgent == -1

\* shared/f1_mappings.py, TEAM_TIER
Tier == [t \in Teams \cup {FreeAgent} |->
           CASE t = 2 -> 9 [] t = 8 -> 8 [] t = 1 -> 7 [] t = 0 -> 6 [] t = 4 -> 5
             [] t = 5 -> 4 [] t = 6 -> 3 [] t = 9 -> 2 [] t = 3 -> 1 [] t = 7 -> 0 [] OTHER -> 5]
DriversOf == [t \in Teams |->
           CASE t = 0 -> {1, 25, 44, 63} [] t = 1 -> {17, 20, 55} [] t = 2 -> {18, 33}
             [] t = 3 -> {19, 40} [] t = 4 -> {14, 45} [] t = 5 -> {31, 38}
             [] t = 6 -> {35, 41} [] t = 7 -> {22, 36} [] t = 8 -> {4, 43, 81} [] OTHER -> {6, 7}]

Wish == [kind : {"accept", "generate", "get"}, user : Pilots, pilot : Pilots, team : Teams,
         season : Seasons]
Contract == [by : Deals, season : Seasons, pilot : Pilots, team : Teams, driver : Nat]

ASSUME ContractsAssumption ==
    /\ DealScripts \subseteq [Deals -> Wish] /\ Admins \subseteq Pilots /\ Moderators \subseteq Pilots
    /\ Driven \in [Seasons -> SUBSET Pilots] /\ Merit \in [Pilots -> 0..3]
    /\ NoContract \notin Contract /\ DealRestarts \in Nat

VARIABLES
    contracts,   \* season_contracts
    offers,      \* _offers_cache: by season, the offers generated (none: {})
    wish,        \* what each deal asks
    stage,       \* what it does next
    seat,        \* the driver it has picked
    former,      \* the contract it replaces
    current,     \* the contracts a generation has read
    signedOver,  \* history: <<season, pilot or team>> two acceptances were at work on at once
    dealRestarts

contractVars == <<contracts, offers, wish, stage, seat, former, current, signedOver, dealRestarts>>

Offer == [kind : {"HOT OFFER", "OFFER", "LONG-SHOT"}, team : Teams]
Proposal == [pilot : Pilots, team : Teams \cup {FreeAgent}, offers : SUBSET Offer]

ContractsTypeOK ==
    /\ contracts \subseteq Contract
    /\ offers \in [Seasons -> SUBSET Proposal]
    /\ wish \in [Deals -> Wish]
    /\ stage \in [Deals -> {"new", "old", "sign", "read", "store", "done", "refused"}]
    /\ seat \in [Deals -> Nat]
    /\ former \in [Deals -> Contract \cup {NoContract}]
    /\ current \in [Deals -> SUBSET Contract]
    /\ signedOver \subseteq Seasons \X (Pilots \cup Teams)
    /\ dealRestarts \in 0..DealRestarts

ContractsInit ==
    /\ contracts = {} /\ offers = [s \in Seasons |-> {}]
    /\ wish \in DealScripts
    /\ stage = [d \in Deals |-> "new"] /\ seat = [d \in Deals |-> 0]
    /\ former = [d \in Deals |-> NoContract] /\ current = [d \in Deals |-> {}]
    /\ signedOver = {} /\ dealRestarts = 0

Stage(d, from, to) == stage[d] = from /\ stage' = [stage EXCEPT ![d] = to]
ContractsOf(s, p) == {c \in contracts : c.season = s /\ c.pilot = p}

-----------------------------------------------------------------------------
(* accept_contract and apply_contract *)

Signing(d) == wish[d].kind = "accept" /\ stage[d] \in {"old", "sign"}
Rivals(d) == {e \in Deals \ {d} : Signing(e) /\ wish[e].season = wish[d].season}
\* Mutated form: contracts of the season are not looked at.
NobodyTaken(s, t) == {}
TakenDrivers(s, t) == {c.driver : c \in {k \in contracts : k.season = s /\ k.team = t}}
FreeDrivers(d) == DriversOf[wish[d].team] \ TakenDrivers(wish[d].season, wish[d].team)
MayAccept(d) == wish[d].user \in Admins \cup {wish[d].pilot}

NotYours(d) ==
    /\ wish[d].kind = "accept" /\ ~MayAccept(d) /\ Stage(d, "new", "refused")
    /\ UNCHANGED <<contracts, offers, wish, seat, former, current, signedOver, dealRestarts>>

TeamFull(d) ==
    /\ wish[d].kind = "accept" /\ MayAccept(d) /\ FreeDrivers(d) = {} /\ Stage(d, "new", "refused")
    /\ UNCHANGED <<contracts, offers, wish, seat, former, current, signedOver, dealRestarts>>

\* The first driver of the team whom nobody has.
PickDriver(d) ==
    /\ wish[d].kind = "accept" /\ MayAccept(d) /\ Stage(d, "new", "old")
    /\ \E x \in FreeDrivers(d) : /\ \A y \in FreeDrivers(d) : x =< y
                                 /\ seat' = [seat EXCEPT ![d] = x]
    /\ signedOver' = signedOver \cup
           {<<wish[d].season, wish[d].team>> : e \in {k \in Rivals(d) : wish[k].team = wish[d].team}}
           \cup {<<wish[d].season, wish[d].pilot>> : e \in {k \in Rivals(d) : wish[k].pilot = wish[d].pilot}}
    /\ UNCHANGED <<contracts, offers, wish, former, current, dealRestarts>>

ReadFormer(d) ==
    LET mine == ContractsOf(wish[d].season, wish[d].pilot)
    IN  /\ wish[d].kind = "accept" /\ Stage(d, "old", "sign")
        /\ \E c \in IF mine = {} THEN {NoContract} ELSE mine : former' = [former EXCEPT ![d] = c]
        /\ UNCHANGED <<contracts, offers, wish, seat, current, signedOver, dealRestarts>>

SignContract(d) ==
    /\ Stage(d, "sign", "done")
    /\ contracts' = (contracts \ {former[d]}) \cup
           {[by |-> d, season |-> wish[d].season, pilot |-> wish[d].pilot,
             team |-> wish[d].team, driver |-> seat[d]]}
    /\ UNCHANGED <<offers, wish, seat, former, current, signedOver, dealRestarts>>

-----------------------------------------------------------------------------
(* generate, get_contracts and generate_contracts *)

Higher(a, b) == IF a > b THEN a ELSE b
Lower(a, b)  == IF a < b THEN a ELSE b
BestOf(S)  == {t \in S : \A u \in S : Tier[t] >= Tier[u]}
WorstOf(S) == {t \in S : \A u \in S : Tier[t] =< Tier[u]}

\* _pick_offers: the best of the better teams, the team one tier below, the worst of those
\* two tiers below; for want of the second, the second of the teams in the table.
PickOffers(merit, team) ==
    LET others == Teams \ {team}
        tier == Tier[team]
        hot  == {t \in others : Tier[t] >= Lower(9, tier + Higher(1, merit))}
        mid  == {t \in others : Tier[t] = Higher(0, tier - 1)}
        long == {t \in others : Tier[t] =< Higher(0, tier - 2)}
        second == {t \in others : Cardinality({u \in others : u < t}) = 1}
        As(kind, S) == {[kind |-> kind, team |-> t] : t \in S}
    IN  As("HOT OFFER", BestOf(hot)) \cup As("OFFER", IF mid = {} THEN second ELSE mid)
        \cup As("LONG-SHOT", WorstOf(long))

Denied(d) ==
    /\ wish[d].kind = "generate" /\ wish[d].user \notin Moderators /\ Stage(d, "new", "refused")
    /\ UNCHANGED <<contracts, offers, wish, seat, former, current, signedOver, dealRestarts>>

Generate(d) ==
    /\ wish[d].kind = "generate" /\ wish[d].user \in Moderators /\ Stage(d, "new", "read")
    /\ UNCHANGED <<contracts, offers, wish, seat, former, current, signedOver, dealRestarts>>

GetCached(d) ==
    /\ wish[d].kind = "get" /\ offers[wish[d].season] # {} /\ Stage(d, "new", "done")
    /\ UNCHANGED <<contracts, offers, wish, seat, former, current, signedOver, dealRestarts>>

GetMissing(d) ==
    /\ wish[d].kind = "get" /\ offers[wish[d].season] = {} /\ Stage(d, "new", "read")
    /\ UNCHANGED <<contracts, offers, wish, seat, former, current, signedOver, dealRestarts>>

ReadContracts(d) ==
    /\ Stage(d, "read", "store")
    /\ current' = [current EXCEPT ![d] = {c \in contracts : c.season = wish[d].season}]
    /\ UNCHANGED <<contracts, offers, wish, seat, former, signedOver, dealRestarts>>

\* A pilot's contract is the last of his that the query has returned.
TeamsOf(d, p) ==
    LET mine == {c.team : c \in {k \in current[d] : k.pilot = p}}
    IN  IF mine = {} THEN {FreeAgent} ELSE mine

StoreOffers(d) ==
    LET s == wish[d].season
    IN  /\ Stage(d, "store", "done")
        /\ \E team \in [Driven[s] -> Teams \cup {FreeAgent}] :
             /\ \A p \in Driven[s] : team[p] \in TeamsOf(d, p)
             /\ offers' = [offers EXCEPT ![s] =
                   {[pilot |-> p, team |-> team[p], offers |-> PickOffers(Merit[p], team[p])] :
                        p \in Driven[s]}]
        /\ UNCHANGED <<contracts, wish, seat, former, current, signedOver, dealRestarts>>

\* The cache and the jobs are in the memory of the backend.
LoseOffers ==
    /\ dealRestarts < DealRestarts /\ dealRestarts' = dealRestarts + 1
    /\ offers' = [s \in Seasons |-> {}]
    /\ stage' = [d \in Deals |-> IF stage[d] = "new" THEN "new" ELSE "done"]
    /\ UNCHANGED <<contracts, wish, seat, former, current, signedOver>>

ContractsNext ==
    \/ \E d \in Deals :
        \/ NotYours(d) \/ TeamFull(d) \/ PickDriver(d) \/ ReadFormer(d) \/ SignContract(d)
        \/ Denied(d) \/ Generate(d) \/ GetCached(d) \/ GetMissing(d)
        \/ ReadContracts(d) \/ StoreOffers(d)
    \/ LoseOffers

ContractsSpec == ContractsInit /\ [][ContractsNext]_contractVars

-----------------------------------------------------------------------------
\* In a season a seat has one pilot and a pilot one contract, unless two acceptances for
\* the pilot, or for the team, were at work at once.
OneSeatEach ==
    \A a, b \in contracts : a.season = b.season /\ a # b =>
        /\ a.pilot = b.pilot => <<a.season, a.pilot>> \in signedOver
        /\ a.driver = b.driver => <<a.season, a.team>> \in signedOver

\* The offers cached for a pilot are never from his own team; the hot one is from a better
\* team than his, the long shot from a worse one.
OffersSensible ==
    \A s \in Seasons : \A x \in offers[s] : \A o \in x.offers :
        /\ o.team # x.team
        /\ o.kind = "HOT OFFER" => Tier[o.team] > Tier[x.team]
        /\ o.kind = "LONG-SHOT" => Tier[o.team] < Tier[x.team]

DealsSound == ContractsTypeOK /\ OneSeatEach /\ OffersSensible

\* The inductive invariant of OneSeatEach: two acceptances at work at once that could
\* meet have been noted; the seat one has picked has been nobody's, and the contract it
\* replaces is all the pilot has, unless a noted rival signed.
AtWork(d, e) == d # e /\ Signing(d) /\ Signing(e) /\ wish[d].season = wish[e].season
DealsInv ==
    /\ ContractsTypeOK
    /\ OneSeatEach
    /\ \A c \in contracts : c.driver \in DriversOf[c.team]
    /\ \A d \in Deals : stage[d] \in {"old", "sign"} => Signing(d) /\ seat[d] \in DriversOf[wish[d].team]
    /\ \A d, e \in Deals : AtWork(d, e) =>
          /\ wish[d].team = wish[e].team => <<wish[d].season, wish[d].team>> \in signedOver
          /\ wish[d].pilot = wish[e].pilot => <<wish[d].season, wish[d].pilot>> \in signedOver
    /\ \A d \in Deals, c \in contracts : Signing(d) /\ c.season = wish[d].season =>
          /\ c.driver = seat[d] => <<c.season, c.team>> \in signedOver
          /\ stage[d] = "sign" /\ c.pilot = wish[d].pilot /\ c # former[d] =>
                <<c.season, c.pilot>> \in signedOver
=============================================================================
