----------------------------- MODULE MCDelivery -----------------------------
(* Delivery on a small instance.  Sessions, parts, threads and race ids are *)
(* interchangeable: no action names one of them.                            *)
EXTENDS Delivery, TLC

Symmetry == Permutations(Sessions) \cup Permutations(Parts)
            \cup Permutations(Threads) \cup Permutations(RaceIds)
=============================================================================
