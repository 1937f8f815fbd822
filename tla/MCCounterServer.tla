--------------------------- MODULE MCCounterServer ---------------------------
(* Instance of the counter endpoints for TLC. *)
EXTENDS CounterServer, TLC

CONSTANTS r1, r2, r3

MCRequests == {r1, r2, r3}
RequestSymmetry == Permutations(MCRequests)
=============================================================================
