------------------------------ MODULE MCAudit ------------------------------
(* Instances of AuditDaemon for TLC. *)
EXTENDS AuditDaemon
=============================================================================
