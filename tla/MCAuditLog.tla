------------------------------ MODULE MCAuditLog ------------------------------
(* Small instance of the audit log for TLC. *)
EXTENDS AuditLog, TLC

CONSTANTS d1, d2, t1, t2

MCDomain == {d1, d2}
MCRecorder == {t1, t2}
MCSymmetry == Permutations(MCDomain) \cup Permutations(MCRecorder)
=============================================================================
