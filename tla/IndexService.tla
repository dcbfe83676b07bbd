---------------------------- MODULE IndexService ----------------------------
(***************************************************************************)
(* What the retrieval index promises to those who query it                 *)
(* (retrieval/index_manager.py and retriever.py).                          *)
(*                                                                         *)
(* A worker comes up with an index and an id map, and while it is up it    *)
(* always has both: either may be replaced at any time, but only by one    *)
(* that can be read and that passed the golden test set or was promoted    *)
(* by an operator who forced it.  Queries are taken by workers that are up *)
(* and are answered from what the worker has then.  Directories, renames,  *)
(* failed reloads, signals and the maintainer are not visible here.        *)
(***************************************************************************)
CONSTANTS
    Builds,        \* what an index or an id map can be built from
    Passes,        \* <<index, id map>> pairs that pass the golden test set
    Workers,       \* processes that serve queries
    Queries,       \* threads that query the index
    WorkerOf,      \* the worker each of them belongs to
    None           \* no index, no id map

VARIABLES
    forced,        \* promoted without a health check
    memory,        \* _index and _id_map of each worker
    up,            \* workers that serve
    asking,        \* progress of each query
    answer         \* what it is answered from

vars == <<forced, memory, up, asking, answer>>

Nothing == [index |-> None, map |-> None]

Init ==
    /\ forced = {}
    /\ memory = [w \in Workers |-> Nothing]
    /\ up = [w \in Workers |-> FALSE]
    /\ asking = [q \in Queries |-> "no"]
    /\ answer = [q \in Queries |-> Nothing]

\* An operator promotes files although they did not pass, or were not checked.
Force(files) ==
    /\ forced' = forced \cup files
    /\ UNCHANGED <<memory, up, asking, answer>>

TakesIndex(w, i) ==
    /\ i \in forced \/ \E p \in Passes : p[1] = i
    /\ memory' = [memory EXCEPT ![w].index = i]
    /\ UNCHANGED <<forced, up, asking, answer>>

\* With both, the worker is up.
TakesMap(w, m) ==
    /\ m \in forced \/ \E p \in Passes : p[2] = m
    /\ memory[w].index \in Builds
    /\ memory' = [memory EXCEPT ![w].map = m]
    /\ up' = [up EXCEPT ![w] = TRUE]
    /\ UNCHANGED <<forced, asking, answer>>

\* A worker ends, and its queries with it.
Stops(w) ==
    /\ up' = [up EXCEPT ![w] = FALSE]
    /\ memory' = [memory EXCEPT ![w] = Nothing]
    /\ asking' = [q \in Queries |-> IF WorkerOf[q] = w THEN "no" ELSE asking[q]]
    /\ answer' = [q \in Queries |-> IF WorkerOf[q] = w THEN Nothing ELSE answer[q]]
    /\ UNCHANGED forced

\* Of the index and the id map, a query takes each when it needs it.
Searches(q) ==
    /\ asking[q] = "no"
    /\ up[WorkerOf[q]]
    /\ asking' = [asking EXCEPT ![q] = "index"]
    /\ answer' = [answer EXCEPT ![q].index = memory[WorkerOf[q]].index]
    /\ UNCHANGED <<forced, memory, up>>

LooksUp(q) ==
    /\ asking[q] = "index"
    /\ up[WorkerOf[q]]
    /\ asking' = [asking EXCEPT ![q] = "both"]
    /\ answer' = [answer EXCEPT ![q].map = memory[WorkerOf[q]].map]
    /\ UNCHANGED <<forced, memory, up>>

Answers(q) ==
    /\ asking[q] = "both"
    /\ asking' = [asking EXCEPT ![q] = "no"]
    /\ answer' = [answer EXCEPT ![q] = Nothing]
    /\ UNCHANGED <<forced, memory, up>>

Next ==
    \/ \E files \in SUBSET Builds : Force(files)
    \/ \E w \in Workers :
          \/ \E f \in Builds : TakesIndex(w, f) \/ TakesMap(w, f)
          \/ Stops(w)
    \/ \E q \in Queries : Searches(q) \/ LooksUp(q) \/ Answers(q)

Spec == Init /\ [][Next]_vars
=============================================================================
