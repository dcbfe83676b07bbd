------------------------------ MODULE IndexSwap ------------------------------
(***************************************************************************)
(* The life of the retrieval index: retrieval/index_manager.py on the disk *)
(* of the maintainer (the process that runs build and safe_swap) and in    *)
(* the memory of the RAG workers, whose queries are those of               *)
(* retrieval/retriever.py.                                                 *)
(*                                                                         *)
(* An index is two files, compliance.index and id_map.json, and in memory  *)
(* two attributes; a build is identified by what it was built from.  Each  *)
(* file operation, each rename and each access to an attribute is a step,  *)
(* and everything may stop between two steps.  The directories are renamed *)
(* under the workers that read them.                                       *)
(***************************************************************************)
EXTENDS Naturals

CONSTANTS
    Builds,        \* calls of build, each with a corpus of its own
    Initial,       \* the build that is active at first
    Passes,        \* <<index, id map>> pairs that pass the golden test set
    Workers,       \* processes that load the index
    Queries,       \* threads that query it
    WorkerOf,      \* the worker each of them belongs to
    None,          \* no file, no attribute
    Torn,          \* a file that is being written: reading it raises
    MaxSignals,    \* bound: reload signals a worker has not handled
    MaxFaults      \* bound: crashes, failed calls and lost connections

ASSUME InitialIsBuild == Initial \in Builds
ASSUME InitialPasses == <<Initial, Initial>> \in Passes
ASSUME PassesAreBuilds == Passes \subseteq Builds \X Builds
ASSUME SpecialAreNoBuilds == None \notin Builds /\ Torn \notin Builds /\ None # Torn
ASSUME WorkerOfType == WorkerOf \in [Queries -> Workers]
ASSUME BoundsType == MaxSignals \in Nat /\ MaxFaults \in Nat

VARIABLES
    active, staging, backup,   \* the three directories
    pc,            \* progress of build or safe_swap
    building,      \* what is being built, Initial when nothing is
    built,         \* calls of build so far
    skip,          \* skip_health_check of the running safe_swap
    forced,        \* history: builds promoted with skip_health_check
    memory,        \* _index and _id_map of each worker
    up,            \* whether the worker has finished its initial load
    loading,       \* progress of load in each worker
    loaded,        \* new_index and new_id_map of that load
    channel,       \* the worker's subscription to the reload channel
    signals,       \* reload signals it has not read yet
    asking,        \* progress of each query
    answer,        \* the index and the id map the query uses
    faults         \* bound: faults so far

diskVars == <<active, staging, backup>>
maintainerVars == <<pc, building, built, skip, forced>>
loadVars == <<memory, up, loading, loaded>>
signalVars == <<channel, signals>>
queryVars == <<asking, answer>>
vars == <<active, staging, backup, pc, building, built, skip, forced, memory,
          up, loading, loaded, channel, signals, asking, answer, faults>>

File == Builds \cup {None, Torn}
Index == [index : File, map : File]
Missing == [index |-> None, map |-> None]
Complete(b) == [index |-> b, map |-> b]
Readable(f) == f \in Builds

\* The pair passes the golden test set.
Healthy(i) == <<i.index, i.map>> \in Passes

Init ==
    /\ active = Complete(Initial)
    /\ staging = Missing
    /\ backup = Missing
    /\ pc = "idle"
    /\ building = Initial
    /\ built = {Initial}
    /\ skip = FALSE
    /\ forced = {}
    /\ memory = [w \in Workers |-> Missing]
    /\ up = [w \in Workers |-> FALSE]
    /\ loading = [w \in Workers |-> "no"]
    /\ loaded = [w \in Workers |-> Missing]
    /\ channel = [w \in Workers |-> "none"]
    /\ signals = [w \in Workers |-> 0]
    /\ asking = [q \in Queries |-> "no"]
    /\ answer = [q \in Queries |-> Missing]
    /\ faults = 0

Fault ==
    /\ faults < MaxFaults
    /\ faults' = faults + 1

-----------------------------------------------------------------------------
(***************************************************************************)
(* IndexManager.build, into staging_dir                                    *)
(***************************************************************************)

\* Chunks are embedded; write_index truncates the file and begins to write.
BuildStarts(b) ==
    /\ pc = "idle"
    /\ b \notin built
    /\ pc' = "write_index"
    /\ building' = b
    /\ built' = built \cup {b}
    /\ staging' = [staging EXCEPT !.index = Torn]
    /\ UNCHANGED <<active, backup, skip, forced, faults>>
    /\ UNCHANGED <<loadVars, signalVars, queryVars>>

BuildWritesIndex ==
    /\ pc = "write_index"
    /\ pc' = "open_map"
    /\ staging' = [staging EXCEPT !.index = building]
    /\ UNCHANGED <<active, backup, building, built, skip, forced, faults>>
    /\ UNCHANGED <<loadVars, signalVars, queryVars>>

BuildOpensMap ==
    /\ pc = "open_map"
    /\ pc' = "write_map"
    /\ staging' = [staging EXCEPT !.map = Torn]
    /\ UNCHANGED <<active, backup, building, built, skip, forced, faults>>
    /\ UNCHANGED <<loadVars, signalVars, queryVars>>

BuildWritesMap ==
    /\ pc = "write_map"
    /\ pc' = "idle"
    /\ staging' = [staging EXCEPT !.map = building]
    /\ building' = Initial
    /\ UNCHANGED <<active, backup, built, skip, forced, faults>>
    /\ UNCHANGED <<loadVars, signalVars, queryVars>>

-----------------------------------------------------------------------------
(***************************************************************************)
(* IndexManager.safe_swap                                                  *)
(***************************************************************************)

\* Mutant: the health check looks at the active directory.
MayPromoteActive(s) == staging.index # None /\ (s \/ Healthy(active))

\* Mutant: a failed health check is only logged.
MayPromoteUnchecked(s) == staging.index # None

\* There is an index in staging, and it passes or is not checked.  Otherwise
\* safe_swap returns False, or raises for a torn file, and changes nothing.
MayPromote(s) == staging.index # None /\ (s \/ Healthy(staging))

SwapChecks(s) ==
    /\ pc = "idle"
    /\ \A w \in Workers : signals[w] < MaxSignals
    /\ MayPromote(s)
    /\ pc' = "checked"
    /\ skip' = s
    /\ UNCHANGED <<building, built, forced, faults>>
    /\ UNCHANGED <<diskVars, loadVars, signalVars, queryVars>>

\* rmtree; what is left of an interrupted one goes with the next swap.
SwapRemovesBackup ==
    /\ pc = "checked"
    /\ pc' = "removed"
    /\ backup' = Missing
    /\ UNCHANGED <<active, staging, building, built, skip, forced, faults>>
    /\ UNCHANGED <<loadVars, signalVars, queryVars>>

\* active.rename(backup), if there is an active directory.
SwapMovesActive ==
    /\ pc = "removed"
    /\ pc' = "moved"
    /\ backup' = active
    /\ active' = Missing
    /\ UNCHANGED <<staging, building, built, skip, forced, faults>>
    /\ UNCHANGED <<loadVars, signalVars, queryVars>>

\* staging.rename(active)
SwapMovesStaging ==
    /\ pc = "moved"
    /\ pc' = "swapped"
    /\ active' = staging
    /\ staging' = Missing
    /\ forced' = IF skip THEN forced \cup {staging.index, staging.map} ELSE forced
    /\ UNCHANGED <<backup, building, built, skip, faults>>
    /\ UNCHANGED <<loadVars, signalVars, queryVars>>

\* The maintainer loads the new index itself, and publishes if it could.
SwapPublishes ==
    /\ pc = "swapped"
    /\ Readable(active.index) /\ Readable(active.map)
    /\ pc' = "idle"
    /\ skip' = FALSE
    /\ signals' = [w \in Workers |->
                      IF channel[w] = "subscribed" THEN signals[w] + 1 ELSE signals[w]]
    /\ UNCHANGED <<building, built, forced, channel, faults>>
    /\ UNCHANGED <<diskVars, loadVars, queryVars>>

\* Its load raises, and the signal is not sent.
SwapReloadRaises ==
    /\ pc = "swapped"
    /\ ~(Readable(active.index) /\ Readable(active.map))
    /\ pc' = "idle"
    /\ skip' = FALSE
    /\ UNCHANGED <<building, built, forced, faults>>
    /\ UNCHANGED <<diskVars, loadVars, signalVars, queryVars>>

\* The maintainer dies, a call raises, or publish fails, which is only logged.
MaintainerStops ==
    /\ pc # "idle"
    /\ Fault
    /\ pc' = "idle"
    /\ building' = Initial
    /\ skip' = FALSE
    /\ UNCHANGED <<built, forced>>
    /\ UNCHANGED <<diskVars, loadVars, signalVars, queryVars>>

-----------------------------------------------------------------------------
(***************************************************************************)
(* IndexManager.load in a worker, at startup or in the listener thread     *)
(***************************************************************************)

WorkerStarts(w) ==
    /\ ~up[w]
    /\ loading[w] = "no"
    /\ loading' = [loading EXCEPT ![w] = "read_index"]
    /\ UNCHANGED <<memory, up, loaded, faults>>
    /\ UNCHANGED <<diskVars, maintainerVars, signalVars, queryVars>>

\* Both files exist, and the index can be read.
Opens == Readable(active.index) /\ active.map # None

LoadReadsIndex(w) ==
    /\ loading[w] = "read_index"
    /\ Opens
    /\ loading' = [loading EXCEPT ![w] = "read_map"]
    /\ loaded' = [loaded EXCEPT ![w].index = active.index]
    /\ UNCHANGED <<memory, up, faults>>
    /\ UNCHANGED <<diskVars, maintainerVars, signalVars, queryVars>>

LoadReadsMap(w) ==
    /\ loading[w] = "read_map"
    /\ Readable(active.map)
    /\ loading' = [loading EXCEPT ![w] = "set_index"]
    /\ loaded' = [loaded EXCEPT ![w].map = active.map]
    /\ UNCHANGED <<memory, up, faults>>
    /\ UNCHANGED <<diskVars, maintainerVars, signalVars, queryVars>>

\* Mutant: load drops the old index before it reads the new one.
LoadRaisesCleared(w) ==
    /\ \/ loading[w] = "read_index" /\ ~Opens
       \/ loading[w] = "read_map" /\ ~Readable(active.map)
    /\ loading' = [loading EXCEPT ![w] = "no"]
    /\ memory' = [memory EXCEPT ![w] = Missing]
    /\ UNCHANGED <<up, loaded, faults>>
    /\ UNCHANGED <<diskVars, maintainerVars, signalVars, queryVars>>

\* A file is missing or torn: load raises and the attributes stay.
LoadRaises(w) ==
    /\ \/ loading[w] = "read_index" /\ ~Opens
       \/ loading[w] = "read_map" /\ ~Readable(active.map)
    /\ loading' = [loading EXCEPT ![w] = "no"]
    /\ loaded' = [loaded EXCEPT ![w] = Missing]
    /\ UNCHANGED <<memory, up, faults>>
    /\ UNCHANGED <<diskVars, maintainerVars, signalVars, queryVars>>

LoadSetsIndex(w) ==
    /\ loading[w] = "set_index"
    /\ loading' = [loading EXCEPT ![w] = "set_map"]
    /\ memory' = [memory EXCEPT ![w].index = loaded[w].index]
    /\ UNCHANGED <<up, loaded, faults>>
    /\ UNCHANGED <<diskVars, maintainerVars, signalVars, queryVars>>

LoadSetsMap(w) ==
    /\ loading[w] = "set_map"
    /\ loading' = [loading EXCEPT ![w] = "no"]
    /\ memory' = [memory EXCEPT ![w].map = loaded[w].map]
    /\ up' = [up EXCEPT ![w] = TRUE]
    /\ loaded' = [loaded EXCEPT ![w] = Missing]
    /\ UNCHANGED faults
    /\ UNCHANGED <<diskVars, maintainerVars, signalVars, queryVars>>

\* subscribe_to_reload_signals starts a thread that subscribes, after load.
ListenerSubscribes(w) ==
    /\ up[w]
    /\ channel[w] = "none"
    /\ channel' = [channel EXCEPT ![w] = "subscribed"]
    /\ UNCHANGED <<signals, faults>>
    /\ UNCHANGED <<diskVars, maintainerVars, loadVars, queryVars>>

\* Mutant: the listener takes a signal and does not load.
ListenerDropsSignal(w) ==
    /\ channel[w] = "subscribed"
    /\ signals[w] > 0
    /\ loading[w] = "no"
    /\ signals' = [signals EXCEPT ![w] = @ - 1]
    /\ UNCHANGED <<channel, faults>>
    /\ UNCHANGED <<diskVars, maintainerVars, loadVars, queryVars>>

ListenerReloads(w) ==
    /\ channel[w] = "subscribed"
    /\ signals[w] > 0
    /\ loading[w] = "no"
    /\ signals' = [signals EXCEPT ![w] = @ - 1]
    /\ loading' = [loading EXCEPT ![w] = "read_index"]
    /\ UNCHANGED <<memory, up, loaded, channel, faults>>
    /\ UNCHANGED <<diskVars, maintainerVars, queryVars>>

\* The connection to Redis breaks: the thread ends and is not started again.
ListenerDies(w) ==
    /\ channel[w] = "subscribed"
    /\ loading[w] = "no"
    /\ Fault
    /\ channel' = [channel EXCEPT ![w] = "dead"]
    /\ signals' = [signals EXCEPT ![w] = 0]
    /\ UNCHANGED <<diskVars, maintainerVars, loadVars, queryVars>>

WorkerDies(w) ==
    /\ Fault
    /\ up' = [up EXCEPT ![w] = FALSE]
    /\ memory' = [memory EXCEPT ![w] = Missing]
    /\ loading' = [loading EXCEPT ![w] = "no"]
    /\ loaded' = [loaded EXCEPT ![w] = Missing]
    /\ channel' = [channel EXCEPT ![w] = "none"]
    /\ signals' = [signals EXCEPT ![w] = 0]
    /\ asking' = [q \in Queries |-> IF WorkerOf[q] = w THEN "no" ELSE asking[q]]
    /\ answer' = [q \in Queries |-> IF WorkerOf[q] = w THEN Missing ELSE answer[q]]
    /\ UNCHANGED <<diskVars, maintainerVars>>

-----------------------------------------------------------------------------
(***************************************************************************)
(* FAISSRetriever.query, in another thread of the worker                   *)
(***************************************************************************)

QueryTakesIndex(q) ==
    /\ asking[q] = "no"
    /\ up[WorkerOf[q]]
    /\ asking' = [asking EXCEPT ![q] = "index"]
    /\ answer' = [answer EXCEPT ![q].index = memory[WorkerOf[q]].index]
    /\ UNCHANGED faults
    /\ UNCHANGED <<diskVars, maintainerVars, loadVars, signalVars>>

QueryTakesMap(q) ==
    /\ asking[q] = "index"
    /\ asking' = [asking EXCEPT ![q] = "both"]
    /\ answer' = [answer EXCEPT ![q].map = memory[WorkerOf[q]].map]
    /\ UNCHANGED faults
    /\ UNCHANGED <<diskVars, maintainerVars, loadVars, signalVars>>

\* The search, the lookup of its ids in the id map, and the answer.
QueryReturns(q) ==
    /\ asking[q] = "both"
    /\ asking' = [asking EXCEPT ![q] = "no"]
    /\ answer' = [answer EXCEPT ![q] = Missing]
    /\ UNCHANGED faults
    /\ UNCHANGED <<diskVars, maintainerVars, loadVars, signalVars>>

-----------------------------------------------------------------------------
Build ==
    \/ \E b \in Builds : BuildStarts(b)
    \/ BuildWritesIndex
    \/ BuildOpensMap
    \/ BuildWritesMap

Swap ==
    \/ \E s \in BOOLEAN : SwapChecks(s)
    \/ SwapRemovesBackup
    \/ SwapMovesActive
    \/ SwapMovesStaging
    \/ SwapPublishes
    \/ SwapReloadRaises

Load(w) ==
    \/ LoadReadsIndex(w)
    \/ LoadReadsMap(w)
    \/ LoadRaises(w)
    \/ LoadSetsIndex(w)
    \/ LoadSetsMap(w)

Worker(w) ==
    \/ WorkerStarts(w)
    \/ ListenerSubscribes(w)
    \/ ListenerReloads(w)
    \/ ListenerDies(w)
    \/ WorkerDies(w)

Query(q) == QueryTakesIndex(q) \/ QueryTakesMap(q) \/ QueryReturns(q)

Next ==
    \/ Build
    \/ Swap
    \/ MaintainerStops
    \/ \E w \in Workers : Load(w) \/ Worker(w)
    \/ \E q \in Queries : Query(q)

Spec == Init /\ [][Next]_vars

\* Threads of a worker run; nothing obliges the maintainer to do anything.
FairSpec ==
    /\ Spec
    /\ \A w \in Workers : WF_vars(Load(w)) /\ WF_vars(ListenerReloads(w))
    /\ \A q \in Queries : WF_vars(QueryTakesMap(q)) /\ WF_vars(QueryReturns(q))

-----------------------------------------------------------------------------
(***************************************************************************)
(* Properties                                                              *)
(***************************************************************************)

TypeOK ==
    /\ active \in Index /\ staging \in Index /\ backup \in Index
    /\ pc \in {"idle", "write_index", "open_map", "write_map", "checked",
               "removed", "moved", "swapped"}
    /\ building \in Builds
    /\ built \in SUBSET Builds
    /\ skip \in BOOLEAN
    /\ forced \in SUBSET File
    /\ memory \in [Workers -> Index]
    /\ up \in [Workers -> BOOLEAN]
    /\ loading \in [Workers -> {"no", "read_index", "read_map", "set_index", "set_map"}]
    /\ loaded \in [Workers -> Index]
    /\ channel \in [Workers -> {"none", "subscribed", "dead"}]
    /\ signals \in [Workers -> Nat]
    /\ asking \in [Queries -> {"no", "index", "both"}]
    /\ answer \in [Queries -> Index]
    /\ faults \in Nat

\* What a worker may answer from: a file of a pair that passed the golden test
\* set, or one that was promoted with skip_health_check.
CheckedIndex(f) == f \in forced \/ \E p \in Passes : f = p[1]
CheckedMap(f) == f \in forced \/ \E p \in Passes : f = p[2]

\* No query is answered from a build that failed the health check, whichever
\* build or swap died half way and whatever it left in staging.
AnswersWereChecked ==
    \A q \in Queries :
        asking[q] = "both" => CheckedIndex(answer[q].index) /\ CheckedMap(answer[q].map)

\* A worker that has come up can answer, although the directory it loaded from
\* is moved away and reloads fail: a failed load leaves both attributes alone.
UpMeansServing ==
    \A w \in Workers :
        up[w] => Readable(memory[w].index) /\ Readable(memory[w].map)

Swapping == pc \in {"checked", "removed", "moved", "swapped"}
HealthyOnDisk == Healthy(active) \/ Healthy(staging) \/ Healthy(backup)

\* A swap with its health check never destroys the last healthy index on disk,
\* wherever it stops and whatever an earlier one left behind.
SwapKeepsHealthy ==
    [][Swapping /\ ~skip => (HealthyOnDisk => HealthyOnDisk')]_vars

\* A signal takes effect: the worker comes to use the active index, unless the
\* maintainer is at work again, there is none to load, or the listener is gone.
SignalTakesEffect ==
    \A w \in Workers :
        signals[w] > 0 ~> \/ memory[w] = active
                          \/ pc # "idle"
                          \/ ~(Readable(active.index) /\ Readable(active.map))
                          \/ channel[w] # "subscribed"

\* Seen by those who query it, the index keeps the promise of IndexService: a
\* worker that is up always has an index and an id map, both checked or forced,
\* although files are written, moved and read step by step, a reload fails half
\* way, and everyone may die in between.
Service == INSTANCE IndexService WITH forced <- forced \cap Builds
ImplementsService == Service!Spec

\* The swap is to be atomic for the workers ("Atomically swap staging index" to
\* active, safe_swap), so a query looks its results up in the id map of the
\* build whose index found them.  It does not when a load reads the index before
\* the renames of a swap and the id map after them; the worker then answers from
\* the mixture until it loads again.
QueryIsConsistent ==
    \A q \in Queries : asking[q] = "both" => answer[q].index = answer[q].map
==============================================================================
