---------------------------- MODULE AtomicCache ----------------------------
(***************************************************************************)
(* What the pending caches promise: a set of sessions with an entry, from  *)
(* which one session at a time is added or taken out, in one step,         *)
(* whatever happens to the process meanwhile.  The promise ends when the   *)
(* disk fails: from then on the cache may hold anything.                   *)
(***************************************************************************)
CONSTANT Sessions

VARIABLES contents,
          damaged    \* a write has failed or a file was found damaged

cacheVars == <<contents, damaged>>

CacheInit == contents = {} /\ damaged = FALSE

Put(s)  == contents' = contents \cup {s} /\ UNCHANGED damaged
Drop(s) == contents' = contents \ {s} /\ UNCHANGED damaged

DiskFails == damaged' = TRUE /\ contents' \in SUBSET Sessions

CacheNext == DiskFails \/ (~damaged /\ \E s \in Sessions : Put(s) \/ Drop(s))

CacheSpec == CacheInit /\ [][CacheNext]_cacheVars
=============================================================================
