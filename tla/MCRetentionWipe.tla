--------------------------- MODULE MCRetentionWipe ---------------------------
(* Small instances of RetentionWipe for TLC. *)
EXTENDS RetentionWipe

CONSTANTS a1, a2, p1, p2, r1, r2

\* Two applications of one applicant and two concurrent erasure requests.
SameOwner == [a \in Applications |-> p1]
SameRequester == [r \in Requests |-> p1]

\* The loop nulls payload_encrypted first.
NullingOrder == {{}, {"payload_encrypted"}, PiiFields}
=============================================================================
