---------------------------- MODULE MCAuditDaemon -----------------------------
(* Small instance of the publisher daemon for TLC. *)
EXTENDS AuditDaemon, TLC

CONSTANT q1
=============================================================================
