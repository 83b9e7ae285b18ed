--------------------------- MODULE MCDrainTracker ---------------------------
(* Instances of DrainTracker for TLC. *)
EXTENDS DrainTracker, TLC

Symmetry == Permutations(Ids) \cup Permutations(Threads)
=============================================================================
