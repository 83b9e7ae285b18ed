-------------------------- MODULE MCSupervisorApp --------------------------
(* Instances of SupervisorApp for TLC. *)
EXTENDS SupervisorApp, TLC

CONSTANTS k1, k2

\* Controllers are interchangeable: sound for the safety runs.
Controllers2 == Permutations({k1, k2})
=============================================================================
