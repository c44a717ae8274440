---------------------------- MODULE MCRaceSubmit ----------------------------
(* Submits on a small instance: two tracks of the calendar and one that is not in it. *)
EXTENDS RaceSubmit, TLC

CONSTANTS bahrain, jeddah, monza

MCTracks   == {bahrain, jeddah, monza}
MCCalendar == bahrain :> 1 @@ jeddah :> 2
Symmetry   == Permutations(Requests) \cup Permutations(Uids) \cup Permutations(RaceIds)
=============================================================================
