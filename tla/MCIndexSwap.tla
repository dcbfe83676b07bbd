----------------------------- MODULE MCIndexSwap -----------------------------
(* Small instances of IndexSwap for TLC. *)
EXTENDS IndexSwap

\* The queries are those of one worker.
OneWorker == [q \in Queries |-> CHOOSE w \in Workers : TRUE]

\* Build 3 fails the golden test set, the others pass, and so does one mixture
\* of two builds, as an interrupted build may leave it in staging.
SomePasses == {<<1, 1>>, <<2, 2>>, <<4, 4>>, <<4, 2>>}
==============================================================================
