-------------------------- MODULE MCConsentVersions --------------------------
(* Small instances of ConsentVersions for TLC. *)
EXTENDS ConsentVersions, TLC

\* The calls and the requests are interchangeable; the versions are not, their
\* order is the order of the primary keys.
Symmetry == Permutations(Admins) \cup Permutations(Posts)
==============================================================================
