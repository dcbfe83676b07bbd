--------------------------- MODULE MCAuditArchive ---------------------------
(* Small instances of AuditArchive for TLC. *)
EXTENDS AuditArchive

CONSTANTS a1, a2, p1, d1, d2

\* Every application and every erasure request is p1's.
OneOwner == [a \in Applications |-> p1]
OneRequester == [r \in Requests |-> p1]

\* Two runs of one application, or one run of each of two applications.
SameApplication == [d \in Decisions |-> a1]
OwnApplication == [d \in Decisions |-> IF d = d1 THEN a1 ELSE a2]
=============================================================================
