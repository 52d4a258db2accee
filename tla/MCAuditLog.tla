----------------------------- MODULE MCAuditLog -----------------------------
(* Small instances of AuditLog for TLC. *)
EXTENDS AuditLog

CONSTANTS s1, s2

OneServer == {s1}
TwoServers == {s1, s2}
=============================================================================
