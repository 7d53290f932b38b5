----------------------------- MODULE MCAuditLog -----------------------------
(* Instances of AuditLog for TLC. *)
EXTENDS AuditLog, TLC

Symmetric == Permutations(Appender) \cup Permutations(Payload)

=============================================================================
