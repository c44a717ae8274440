--------------------------- MODULE MCAgentRuntime ---------------------------
(* The agent's runtime on a small instance. *)
EXTENDS AgentRuntime, TLC

Symmetry == Permutations(Sessions) \cup Permutations(Workers)
=============================================================================
