---------------------------- MODULE MCSvcManager ----------------------------
(* Instances of SvcManager for TLC. *)
EXTENDS SvcManager, TLC
=============================================================================
