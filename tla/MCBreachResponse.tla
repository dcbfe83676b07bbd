--------------------------- MODULE MCBreachResponse ---------------------------
(* A small instance of BreachResponse for TLC. *)
EXTENDS BreachResponse, TLC

CONSTANTS a1, a2, d1, d2, d3, t1, t3, c1, c2

\* Records and tasks of a1, and d3 and t3 of a2.
OneElsewhere == [d \in Records |-> IF d = d3 THEN a2 ELSE a1]
OneTaskElsewhere == [t \in Tasks |-> IF t = t3 THEN a2 ELSE a1]

\* Calls, and the records of one application, are interchangeable.
Symmetry == Permutations(Calls) \cup Permutations({d1, d2})
===============================================================================
