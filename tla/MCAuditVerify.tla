---------------------------- MODULE MCAuditVerify ----------------------------
(* Small instances of AuditVerify for TLC. *)
EXTENDS AuditVerify, TLC

\* Processes are interchangeable, and so are records.
Symmetry == Permutations(Processes) \cup Permutations(Records)
==============================================================================
