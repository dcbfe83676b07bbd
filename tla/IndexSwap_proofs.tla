-------------------------- MODULE IndexSwap_proofs --------------------------
(***************************************************************************)
(* Proofs about IndexSwap for any builds, any set of pairs that pass the   *)
(* golden test set (mixtures included), any number of workers and queries  *)
(* and any number of faults.                                               *)
(***************************************************************************)
EXTENDS IndexSwap, TLAPS

\* The files of i that can be read are files a worker may answer from.
OnlyChecked(i) ==
    /\ Readable(i.index) => CheckedIndex(i.index)
    /\ Readable(i.map) => CheckedMap(i.map)

\* Only such files are in the active directory and on their way to an answer.
FilesChecked ==
    /\ OnlyChecked(active)
    /\ \A w \in Workers : OnlyChecked(loaded[w]) /\ OnlyChecked(memory[w])
    /\ \A q \in Queries : OnlyChecked(answer[q])

\* What load has read by now is readable.
LoadsReadable ==
    \A w \in Workers :
        /\ loading[w] \in {"read_map", "set_index", "set_map"} => Readable(loaded[w].index)
        /\ loading[w] \in {"set_index", "set_map"} => Readable(loaded[w].map)
        /\ loading[w] = "set_map" => Readable(memory[w].index)

\* A query under way runs on a worker that is up and has readable files.
QueriesReadable ==
    \A q \in Queries :
        /\ asking[q] # "no" => up[WorkerOf[q]] /\ Readable(answer[q].index)
        /\ asking[q] = "both" => Readable(answer[q].map)

\* A swap with its health check carries a healthy index through.
CheckHolds ==
    ~skip =>
        /\ pc \in {"checked", "removed", "moved"} => Healthy(staging)
        /\ pc = "swapped" => Healthy(active)

\* The inductive invariant.
IInv ==
    /\ TypeOK
    /\ FilesChecked
    /\ LoadsReadable
    /\ UpMeansServing
    /\ QueriesReadable
    /\ CheckHolds

USE DEF diskVars, maintainerVars, loadVars, signalVars, queryVars

-----------------------------------------------------------------------------
\* The initial state has the types of TypeOK.
LEMMA TypeInit == Init => TypeOK
<1> SUFFICES ASSUME Init PROVE TypeOK
  OBVIOUS
<1>1. Missing \in Index /\ Complete(Initial) \in Index
  BY InitialIsBuild DEF Missing, Complete, Index, File
<1>2. up \in [Workers -> BOOLEAN] /\ skip \in BOOLEAN
  BY DEF Init
<1>3. active \in Index /\ staging \in Index /\ backup \in Index
  BY <1>1 DEF Init
<1>4. /\ memory \in [Workers -> Index]
      /\ loaded \in [Workers -> Index]
      /\ answer \in [Queries -> Index]
  BY <1>1 DEF Init
<1>5. QED
  BY <1>2, <1>3, <1>4, InitialIsBuild DEF Init, TypeOK

\* Every step of the maintainer, the workers and the queries keeps the types.
LEMMA TypeStep == TypeOK /\ [Next]_vars => TypeOK'
<1> SUFFICES ASSUME TypeOK, [Next]_vars PROVE TypeOK'
  OBVIOUS
<1> USE InitialIsBuild
<1>1. CASE Build
  <2>1. CASE \E b \in Builds : BuildStarts(b)
    BY <2>1 DEF TypeOK, BuildStarts, Index, File
  <2>2. CASE BuildWritesIndex
    BY <2>2 DEF TypeOK, BuildWritesIndex, Index, File
  <2>3. CASE BuildOpensMap
    BY <2>3 DEF TypeOK, BuildOpensMap, Index, File
  <2>4. CASE BuildWritesMap
    BY <2>4 DEF TypeOK, BuildWritesMap, Index, File
  <2>5. QED
    BY <1>1, <2>1, <2>2, <2>3, <2>4 DEF Build
<1>2. CASE Swap
  <2>1. CASE \E s \in BOOLEAN : SwapChecks(s)
    BY <2>1 DEF TypeOK, SwapChecks
  <2>2. CASE SwapRemovesBackup
    BY <2>2 DEF TypeOK, SwapRemovesBackup, Index, File, Missing
  <2>3. CASE SwapMovesActive
    BY <2>3 DEF TypeOK, SwapMovesActive, Index, File, Missing
  <2>4. CASE SwapMovesStaging
    <3>1. staging.index \in File /\ staging.map \in File
      BY DEF TypeOK, Index
    <3>2. forced' \in SUBSET File
      BY <2>4, <3>1 DEF TypeOK, SwapMovesStaging
    <3>3. QED
      BY <2>4, <3>2 DEF TypeOK, SwapMovesStaging, Index, File, Missing
  <2>5. CASE SwapPublishes
    <3>1. signals' \in [Workers -> Nat]
      BY <2>5 DEF TypeOK, SwapPublishes
    <3>2. skip' \in BOOLEAN
      BY <2>5 DEF SwapPublishes
    <3>3. QED
      BY <2>5, <3>1, <3>2 DEF TypeOK, SwapPublishes
  <2>6. CASE SwapReloadRaises
    BY <2>6 DEF TypeOK, SwapReloadRaises
  <2>7. QED
    BY <1>2, <2>1, <2>2, <2>3, <2>4, <2>5, <2>6 DEF Swap
<1>3. CASE MaintainerStops
  <2>1. skip' \in BOOLEAN
    BY <1>3 DEF MaintainerStops
  <2>2. faults' \in Nat
    BY <1>3 DEF TypeOK, MaintainerStops, Fault
  <2>3. QED
    BY <1>3, <2>1, <2>2 DEF TypeOK, MaintainerStops
<1>4. ASSUME NEW w \in Workers, Load(w) PROVE TypeOK'
  <2>1. CASE LoadReadsIndex(w)
    BY <2>1 DEF TypeOK, LoadReadsIndex, Opens, Index, File
  <2>2. CASE LoadReadsMap(w)
    BY <2>2 DEF TypeOK, LoadReadsMap, Index, File
  <2>3. CASE LoadRaises(w)
    BY <2>3 DEF TypeOK, LoadRaises, Index, File, Missing
  <2>4. CASE LoadSetsIndex(w)
    <3>1. memory' \in [Workers -> Index]
      BY <2>4 DEF TypeOK, LoadSetsIndex, Index
    <3>2. QED
      BY <2>4, <3>1 DEF TypeOK, LoadSetsIndex
  <2>5. CASE LoadSetsMap(w)
    <3>1. memory' \in [Workers -> Index]
      BY <2>5 DEF TypeOK, LoadSetsMap, Index
    <3>2. loaded' \in [Workers -> Index]
      BY <2>5 DEF TypeOK, LoadSetsMap, Index, File, Missing
    <3>3. up' \in [Workers -> BOOLEAN]
      BY <2>5 DEF TypeOK, LoadSetsMap
    <3>4. QED
      BY <2>5, <3>1, <3>2, <3>3 DEF TypeOK, LoadSetsMap
  <2>6. QED
    BY <1>4, <2>1, <2>2, <2>3, <2>4, <2>5 DEF Load
<1>5. ASSUME NEW w \in Workers, Worker(w) PROVE TypeOK'
  <2>1. CASE WorkerStarts(w)
    BY <2>1 DEF TypeOK, WorkerStarts
  <2>2. CASE ListenerSubscribes(w)
    BY <2>2 DEF TypeOK, ListenerSubscribes
  <2>3. CASE ListenerReloads(w)
    BY <2>3 DEF TypeOK, ListenerReloads
  <2>4. CASE ListenerDies(w)
    BY <2>4 DEF TypeOK, ListenerDies, Fault
  <2>5. CASE WorkerDies(w)
    BY <2>5 DEF TypeOK, WorkerDies, Fault, Index, File, Missing
  <2>6. QED
    BY <1>5, <2>1, <2>2, <2>3, <2>4, <2>5 DEF Worker
<1>6. ASSUME NEW q \in Queries, Query(q) PROVE TypeOK'
  <2>1. CASE QueryTakesIndex(q)
    <3>1. memory[WorkerOf[q]] \in Index
      BY WorkerOfType DEF TypeOK
    <3>2. answer' \in [Queries -> Index]
      BY <2>1, <3>1 DEF TypeOK, QueryTakesIndex, Index
    <3>3. QED
      BY <2>1, <3>2 DEF TypeOK, QueryTakesIndex
  <2>2. CASE QueryTakesMap(q)
    <3>1. memory[WorkerOf[q]] \in Index
      BY WorkerOfType DEF TypeOK
    <3>2. answer' \in [Queries -> Index]
      BY <2>2, <3>1 DEF TypeOK, QueryTakesMap, Index
    <3>3. QED
      BY <2>2, <3>2 DEF TypeOK, QueryTakesMap
  <2>3. CASE QueryReturns(q)
    BY <2>3 DEF TypeOK, QueryReturns, Index, File, Missing
  <2>4. QED
    BY <1>6, <2>1, <2>2, <2>3 DEF Query
<1>7. CASE UNCHANGED vars
  BY <1>7 DEF vars, TypeOK
<1>8. QED
  BY <1>1, <1>2, <1>3, <1>4, <1>5, <1>6, <1>7 DEF Next

\* Every reachable state is well typed; the listener never reads a signal that
\* was not sent.
THEOREM TypeCorrect == Spec => []TypeOK
  BY TypeInit, TypeStep, PTL DEF Spec

-----------------------------------------------------------------------------
\* What was checked stays checked: forced only grows.
LEMMA CheckedStays ==
  ASSUME [Next]_vars
  PROVE  /\ forced \subseteq forced'
         /\ \A f : CheckedIndex(f) => CheckedIndex(f)'
         /\ \A f : CheckedMap(f) => CheckedMap(f)'
<1>1. forced \subseteq forced'
  BY DEF Next, vars, Build, Swap, Load, Worker, Query, BuildStarts,
         BuildWritesIndex, BuildOpensMap, BuildWritesMap, SwapChecks,
         SwapRemovesBackup, SwapMovesActive, SwapMovesStaging, SwapPublishes,
         SwapReloadRaises, MaintainerStops, LoadReadsIndex, LoadReadsMap,
         LoadRaises, LoadSetsIndex, LoadSetsMap, WorkerStarts,
         ListenerSubscribes, ListenerReloads, ListenerDies, WorkerDies,
         QueryTakesIndex, QueryTakesMap, QueryReturns
<1>2. QED
  BY <1>1 DEF CheckedIndex, CheckedMap

\* The inductive invariant holds initially.
LEMMA InvInit == Init => IInv
<1> SUFFICES ASSUME Init PROVE IInv
  OBVIOUS
<1>1. TypeOK
  BY TypeInit
<1>2. OnlyChecked(active)
  <2>1. <<Initial, Initial>>[1] = Initial /\ <<Initial, Initial>>[2] = Initial
    OBVIOUS
  <2>2. QED
    BY <2>1, InitialPasses DEF Init, OnlyChecked, Complete, CheckedIndex, CheckedMap
<1>3. OnlyChecked(Missing) /\ ~Readable(None)
  BY SpecialAreNoBuilds DEF OnlyChecked, Missing, Readable
<1>4. FilesChecked
  BY <1>2, <1>3 DEF Init, FilesChecked
<1>5. LoadsReadable /\ UpMeansServing /\ QueriesReadable /\ CheckHolds
  BY DEF Init, LoadsReadable, UpMeansServing, QueriesReadable, CheckHolds
<1>6. QED
  BY <1>1, <1>4, <1>5 DEF IInv

\* A step that leaves the loads, the queries and the active directory alone
\* keeps the parts of the invariant about them.
LEMMA WorkersKept ==
  ASSUME IInv, [Next]_vars, UNCHANGED <<loadVars, queryVars>>, OnlyChecked(active)'
  PROVE  (FilesChecked /\ LoadsReadable /\ UpMeansServing /\ QueriesReadable)'
<1>1. FilesChecked'
  BY CheckedStays DEF IInv, FilesChecked, OnlyChecked
<1>2. (LoadsReadable /\ UpMeansServing /\ QueriesReadable)'
  BY DEF IInv, LoadsReadable, UpMeansServing, QueriesReadable
<1>3. QED
  BY <1>1, <1>2

\* Every step keeps the inductive invariant.
LEMMA InvStep == IInv /\ [Next]_vars => IInv'
<1> SUFFICES ASSUME IInv, [Next]_vars PROVE IInv'
  OBVIOUS
<1>0. TypeOK'
  BY TypeStep DEF IInv
<1>a. ASSUME UNCHANGED active PROVE OnlyChecked(active)'
  BY <1>a, CheckedStays DEF IInv, FilesChecked, OnlyChecked
<1>1. CASE Build
  <2>1. UNCHANGED <<active, loadVars, queryVars>> /\ pc' \notin {"checked", "removed", "moved", "swapped"}
    BY <1>1 DEF Build, BuildStarts, BuildWritesIndex, BuildOpensMap, BuildWritesMap
  <2>2. CheckHolds'
    BY <2>1 DEF CheckHolds
  <2>3. QED
    BY <1>0, <1>a, <2>1, <2>2, WorkersKept DEF IInv
<1>2. CASE \E s \in BOOLEAN : SwapChecks(s)
  <2>1. CheckHolds'
    BY <1>2 DEF SwapChecks, MayPromote, CheckHolds, Healthy
  <2>2. UNCHANGED <<active, loadVars, queryVars>>
    BY <1>2 DEF SwapChecks
  <2>3. QED
    BY <1>0, <1>a, <2>1, <2>2, WorkersKept DEF IInv
<1>3. CASE SwapRemovesBackup
  <2>1. CheckHolds'
    BY <1>3 DEF SwapRemovesBackup, CheckHolds, Healthy, IInv
  <2>2. UNCHANGED <<active, loadVars, queryVars>>
    BY <1>3 DEF SwapRemovesBackup
  <2>3. QED
    BY <1>0, <1>a, <2>1, <2>2, WorkersKept DEF IInv
<1>4. CASE SwapMovesActive
  <2>1. CheckHolds'
    BY <1>4 DEF SwapMovesActive, CheckHolds, Healthy, IInv
  <2>2. UNCHANGED <<loadVars, queryVars>> /\ active' = Missing
    BY <1>4 DEF SwapMovesActive
  <2>3. OnlyChecked(active)'
    BY <2>2, SpecialAreNoBuilds DEF OnlyChecked, Missing, Readable
  <2>4. QED
    BY <1>0, <2>1, <2>2, <2>3, WorkersKept DEF IInv
<1>5. CASE SwapMovesStaging
  <2>1. CheckHolds'
    BY <1>5 DEF SwapMovesStaging, CheckHolds, Healthy, IInv
  <2>2. UNCHANGED <<loadVars, queryVars>> /\ active' = staging
    BY <1>5 DEF SwapMovesStaging
  <2>3. OnlyChecked(active)'
    <3>1. CASE skip
      <4>1. staging.index \in forced' /\ staging.map \in forced'
        BY <1>5, <3>1 DEF SwapMovesStaging
      <4>2. QED
        BY <2>2, <4>1 DEF OnlyChecked, CheckedIndex, CheckedMap
    <3>2. CASE ~skip
      <4>1. <<staging.index, staging.map>> \in Passes
        BY <1>5, <3>2 DEF SwapMovesStaging, IInv, CheckHolds, Healthy
      <4>2. /\ <<staging.index, staging.map>>[1] = staging.index
            /\ <<staging.index, staging.map>>[2] = staging.map
        OBVIOUS
      <4>3. QED
        BY <2>2, <4>1, <4>2 DEF OnlyChecked, CheckedIndex, CheckedMap
    <3>3. QED
      BY <3>1, <3>2
  <2>4. QED
    BY <1>0, <2>1, <2>2, <2>3, WorkersKept DEF IInv
<1>6. CASE SwapPublishes \/ SwapReloadRaises \/ MaintainerStops
  <2>1. UNCHANGED <<active, loadVars, queryVars>> /\ pc' = "idle"
    BY <1>6 DEF SwapPublishes, SwapReloadRaises, MaintainerStops
  <2>2. CheckHolds'
    BY <2>1 DEF CheckHolds
  <2>3. QED
    BY <1>0, <1>a, <2>1, <2>2, WorkersKept DEF IInv
<1>b. ASSUME UNCHANGED <<diskVars, maintainerVars>> PROVE CheckHolds'
  BY <1>b DEF IInv, CheckHolds, Healthy
<1>7. ASSUME NEW w \in Workers, Load(w) PROVE IInv'
  <2>0. UNCHANGED <<diskVars, maintainerVars, queryVars>>
    BY <1>7 DEF Load, LoadReadsIndex, LoadReadsMap, LoadRaises, LoadSetsIndex, LoadSetsMap
  <2>1. CASE LoadReadsIndex(w)
    <3>1. FilesChecked'
      BY <2>0, <2>1 DEF IInv, TypeOK, FilesChecked, OnlyChecked, LoadReadsIndex, Opens, Index,
                        CheckedIndex, CheckedMap
    <3>2. LoadsReadable'
      BY <2>1 DEF IInv, TypeOK, LoadsReadable, LoadReadsIndex, Opens, Index
    <3>3. (UpMeansServing /\ QueriesReadable)'
      BY <2>0, <2>1 DEF IInv, UpMeansServing, QueriesReadable, LoadReadsIndex
    <3>4. QED
      BY <1>0, <1>b, <2>0, <3>1, <3>2, <3>3 DEF IInv
  <2>2. CASE LoadReadsMap(w)
    <3>1. FilesChecked'
      BY <2>0, <2>2 DEF IInv, TypeOK, FilesChecked, OnlyChecked, LoadReadsMap, Index,
                        CheckedIndex, CheckedMap
    <3>2. LoadsReadable'
      BY <2>2 DEF IInv, TypeOK, LoadsReadable, LoadReadsMap, Index
    <3>3. (UpMeansServing /\ QueriesReadable)'
      BY <2>0, <2>2 DEF IInv, UpMeansServing, QueriesReadable, LoadReadsMap
    <3>4. QED
      BY <1>0, <1>b, <2>0, <3>1, <3>2, <3>3 DEF IInv
  <2>3. CASE LoadRaises(w)
    <3>1. FilesChecked'
      BY <2>0, <2>3, SpecialAreNoBuilds
         DEF IInv, TypeOK, FilesChecked, OnlyChecked, LoadRaises, Missing, Readable,
             CheckedIndex, CheckedMap
    <3>2. LoadsReadable'
      BY <2>3 DEF IInv, TypeOK, LoadsReadable, LoadRaises
    <3>3. (UpMeansServing /\ QueriesReadable)'
      BY <2>0, <2>3 DEF IInv, UpMeansServing, QueriesReadable, LoadRaises
    <3>4. QED
      BY <1>0, <1>b, <2>0, <3>1, <3>2, <3>3 DEF IInv
  <2>4. CASE LoadSetsIndex(w)
    <3>1. FilesChecked'
      BY <2>0, <2>4 DEF IInv, TypeOK, FilesChecked, OnlyChecked, LoadSetsIndex, Index,
                        CheckedIndex, CheckedMap
    <3>2. LoadsReadable'
      BY <2>4 DEF IInv, TypeOK, LoadsReadable, LoadSetsIndex, Index
    <3>3. (UpMeansServing /\ QueriesReadable)'
      BY <2>0, <2>4 DEF IInv, TypeOK, LoadsReadable, UpMeansServing, QueriesReadable,
                        LoadSetsIndex, Index
    <3>4. QED
      BY <1>0, <1>b, <2>0, <3>1, <3>2, <3>3 DEF IInv
  <2>5. CASE LoadSetsMap(w)
    <3>1. FilesChecked'
      BY <2>0, <2>5, SpecialAreNoBuilds
         DEF IInv, TypeOK, FilesChecked, OnlyChecked, LoadSetsMap, Index, Missing,
             Readable, CheckedIndex, CheckedMap
    <3>2. LoadsReadable'
      BY <2>5 DEF IInv, TypeOK, LoadsReadable, LoadSetsMap, Index
    <3>3. UpMeansServing'
      BY <2>5 DEF IInv, TypeOK, LoadsReadable, UpMeansServing, LoadSetsMap, Index
    <3>4. QueriesReadable'
      BY <2>0, <2>5 DEF IInv, TypeOK, QueriesReadable, LoadSetsMap
    <3>5. QED
      BY <1>0, <1>b, <2>0, <3>1, <3>2, <3>3, <3>4 DEF IInv
  <2>6. QED
    BY <1>7, <2>1, <2>2, <2>3, <2>4, <2>5 DEF Load
<1>8. ASSUME NEW w \in Workers, Worker(w) PROVE IInv'
  <2>0. UNCHANGED <<diskVars, maintainerVars>>
    BY <1>8 DEF Worker, WorkerStarts, ListenerSubscribes, ListenerReloads, ListenerDies, WorkerDies
  <2>1. CASE WorkerStarts(w) \/ ListenerReloads(w)
    <3>1. /\ UNCHANGED <<memory, up, loaded, queryVars>>
          /\ loading' = [loading EXCEPT ![w] = "read_index"]
      BY <2>1 DEF WorkerStarts, ListenerReloads
    <3>2. FilesChecked'
      BY <2>0, <3>1 DEF IInv, FilesChecked, OnlyChecked, CheckedIndex, CheckedMap
    <3>3. LoadsReadable'
      BY <3>1 DEF IInv, TypeOK, LoadsReadable
    <3>4. (UpMeansServing /\ QueriesReadable)'
      BY <3>1 DEF IInv, UpMeansServing, QueriesReadable
    <3>5. QED
      BY <1>0, <1>b, <2>0, <3>2, <3>3, <3>4 DEF IInv
  <2>2. CASE ListenerSubscribes(w) \/ ListenerDies(w)
    <3>1. UNCHANGED <<active, loadVars, queryVars>>
      BY <2>2 DEF ListenerSubscribes, ListenerDies
    <3>2. QED
      BY <1>0, <1>a, <1>b, <2>0, <3>1, WorkersKept DEF IInv
  <2>3. CASE WorkerDies(w)
    <3>1. OnlyChecked(Missing)'
      BY SpecialAreNoBuilds DEF OnlyChecked, Missing, Readable
    <3>2. FilesChecked'
      <4>1. \A v \in Workers : OnlyChecked(loaded[v])' /\ OnlyChecked(memory[v])'
        BY <2>0, <2>3, SpecialAreNoBuilds
           DEF IInv, TypeOK, FilesChecked, WorkerDies, OnlyChecked, Missing, Readable,
               CheckedIndex, CheckedMap
      <4>2. \A q \in Queries : OnlyChecked(answer[q])'
        BY <2>0, <2>3, SpecialAreNoBuilds
           DEF IInv, TypeOK, FilesChecked, WorkerDies, OnlyChecked, Missing, Readable,
               CheckedIndex, CheckedMap
      <4>3. QED
        BY <1>a, <2>0, <4>1, <4>2 DEF FilesChecked
    <3>3. LoadsReadable'
      BY <2>3 DEF IInv, TypeOK, LoadsReadable, WorkerDies
    <3>4. UpMeansServing'
      BY <2>3 DEF IInv, TypeOK, UpMeansServing, WorkerDies
    <3>5. QueriesReadable'
      BY <2>3, WorkerOfType DEF IInv, TypeOK, QueriesReadable, WorkerDies
    <3>6. QED
      BY <1>0, <1>b, <2>0, <3>2, <3>3, <3>4, <3>5 DEF IInv
  <2>4. QED
    BY <1>8, <2>1, <2>2, <2>3 DEF Worker
<1>9. ASSUME NEW q \in Queries, Query(q) PROVE IInv'
  <2>0. UNCHANGED <<diskVars, maintainerVars, loadVars>>
    BY <1>9 DEF Query, QueryTakesIndex, QueryTakesMap, QueryReturns
  <2>a. WorkerOf[q] \in Workers
    BY WorkerOfType
  <2>b. ASSUME QueryTakesIndex(q)
        PROVE  /\ up[WorkerOf[q]] /\ asking'[q] = "index"
               /\ answer'[q].index = memory[WorkerOf[q]].index
               /\ answer'[q].map = answer[q].map
               /\ \A p \in Queries : p # q => asking'[p] = asking[p] /\ answer'[p] = answer[p]
    BY <2>b DEF IInv, TypeOK, Index, QueryTakesIndex
  <2>c. ASSUME QueryTakesMap(q)
        PROVE  /\ asking[q] = "index" /\ asking'[q] = "both"
               /\ answer'[q].map = memory[WorkerOf[q]].map
               /\ answer'[q].index = answer[q].index
               /\ \A p \in Queries : p # q => asking'[p] = asking[p] /\ answer'[p] = answer[p]
    BY <2>c DEF IInv, TypeOK, Index, QueryTakesMap
  <2>1. LoadsReadable' /\ UpMeansServing'
    BY <2>0 DEF IInv, LoadsReadable, UpMeansServing
  <2>2. \A p \in Queries : OnlyChecked(answer[p])'
    <3>1. CASE QueryTakesIndex(q)
      BY <2>0, <2>a, <2>b, <3>1 DEF IInv, FilesChecked, OnlyChecked, CheckedIndex, CheckedMap
    <3>2. CASE QueryTakesMap(q)
      BY <2>0, <2>a, <2>c, <3>2 DEF IInv, FilesChecked, OnlyChecked, CheckedIndex, CheckedMap
    <3>3. CASE QueryReturns(q)
      BY <2>0, <3>3, SpecialAreNoBuilds
         DEF IInv, TypeOK, FilesChecked, OnlyChecked, QueryReturns, Missing, Readable,
             CheckedIndex, CheckedMap
    <3>4. QED
      BY <1>9, <3>1, <3>2, <3>3 DEF Query
  <2>3. FilesChecked'
    BY <2>0, <2>2 DEF IInv, FilesChecked, OnlyChecked, CheckedIndex, CheckedMap
  <2>4. QueriesReadable'
    <3>1. CASE QueryTakesIndex(q)
      BY <2>0, <2>a, <2>b, <3>1 DEF IInv, UpMeansServing, QueriesReadable
    <3>2. CASE QueryTakesMap(q)
      BY <2>0, <2>a, <2>c, <3>2 DEF IInv, UpMeansServing, QueriesReadable
    <3>3. CASE QueryReturns(q)
      BY <2>0, <3>3 DEF IInv, TypeOK, QueriesReadable, QueryReturns
    <3>4. QED
      BY <1>9, <3>1, <3>2, <3>3 DEF Query
  <2>5. QED
    BY <1>0, <1>b, <2>0, <2>1, <2>3, <2>4 DEF IInv
<1>10. CASE UNCHANGED vars
  <2>1. UNCHANGED <<active, loadVars, queryVars, diskVars, maintainerVars>>
    BY <1>10 DEF vars
  <2>2. QED
    BY <1>0, <1>a, <1>b, <2>1, WorkersKept DEF IInv
<1>11. QED
  BY <1>1, <1>2, <1>3, <1>4, <1>5, <1>6, <1>7, <1>8, <1>9, <1>10 DEF Next, Swap

\* The inductive invariant holds in every reachable state.
LEMMA Invariance == Spec => []IInv
  BY InvInit, InvStep, PTL DEF Spec

\* No query is answered from a build that failed the health check, whatever
\* builds, swaps and workers die half way.
THEOREM AnswersCorrect == Spec => []AnswersWereChecked
<1>1. IInv => AnswersWereChecked
  BY DEF IInv, FilesChecked, OnlyChecked, QueriesReadable, AnswersWereChecked
<1>2. QED
  BY <1>1, Invariance, PTL

\* A worker that is up has an index and an id map, whatever reloads fail.
THEOREM ServingCorrect == Spec => []UpMeansServing
<1>1. IInv => UpMeansServing
  BY DEF IInv
<1>2. QED
  BY <1>1, Invariance, PTL

\* safe_swap with its health check never destroys the last healthy index.
THEOREM SwapCorrect == Spec => SwapKeepsHealthy
<1>1. IInv /\ [Next]_vars => [Swapping /\ ~skip => (HealthyOnDisk => HealthyOnDisk')]_vars
  <2> SUFFICES ASSUME IInv, Next, Swapping, ~skip PROVE HealthyOnDisk'
    BY DEF SwapKeepsHealthy
  <2>1. CASE SwapRemovesBackup \/ SwapMovesActive
    BY <2>1 DEF IInv, CheckHolds, HealthyOnDisk, Healthy, SwapRemovesBackup, SwapMovesActive
  <2>2. CASE SwapMovesStaging
    BY <2>2 DEF IInv, CheckHolds, HealthyOnDisk, Healthy, SwapMovesStaging
  <2>3. CASE UNCHANGED diskVars
    BY <2>3 DEF IInv, CheckHolds, Swapping, HealthyOnDisk, Healthy
  <2>4. QED
    BY <2>1, <2>2, <2>3
       DEF Next, Swapping, Build, Swap, Load, Worker, Query, BuildStarts,
           BuildWritesIndex, BuildOpensMap, BuildWritesMap, SwapChecks, SwapPublishes,
           SwapReloadRaises, MaintainerStops, LoadReadsIndex, LoadReadsMap,
           LoadRaises, LoadSetsIndex, LoadSetsMap, WorkerStarts,
           ListenerSubscribes, ListenerReloads, ListenerDies, WorkerDies,
           QueryTakesIndex, QueryTakesMap, QueryReturns
<1>2. QED
  BY <1>1, Invariance, PTL DEF Spec, SwapKeepsHealthy
-----------------------------------------------------------------------------
(***************************************************************************)
(* The index implements IndexService                                       *)
(***************************************************************************)

\* What the steps of the maintainer and of the listener can change of what
\* those who query the index see: nothing, but that a file is forced.
LEMMA OnlyForced ==
  ASSUME \/ Build \/ Swap \/ MaintainerStops
         \/ \E w \in Workers :
               \/ WorkerStarts(w) \/ ListenerSubscribes(w) \/ ListenerReloads(w)
               \/ ListenerDies(w)
               \/ LoadReadsIndex(w) \/ LoadReadsMap(w) \/ LoadRaises(w)
         \/ UNCHANGED vars
  PROVE  /\ UNCHANGED <<memory, up, asking, answer>>
         /\ forced \subseteq forced'
  BY DEF vars, Build, Swap, BuildStarts, BuildWritesIndex, BuildOpensMap,
         BuildWritesMap, SwapChecks, SwapRemovesBackup, SwapMovesActive,
         SwapMovesStaging, SwapPublishes, SwapReloadRaises, MaintainerStops,
         LoadReadsIndex, LoadReadsMap, LoadRaises, WorkerStarts,
         ListenerSubscribes, ListenerReloads, ListenerDies

\* Every step of the index is a step of the service, or is not visible to it.
LEMMA ServiceStep == IInv /\ [Next]_vars => [Service!Next]_(Service!vars)
<1> SUFFICES ASSUME IInv, [Next]_vars PROVE [Service!Next]_(Service!vars)
  OBVIOUS
<1>1. ASSUME UNCHANGED <<memory, up, asking, answer>>, forced \subseteq forced'
      PROVE  Service!Next
  <2>1. Service!Force(forced' \cap Builds)
    BY <1>1 DEF Service!Force
  <2>2. forced' \cap Builds \in SUBSET Builds
    OBVIOUS
  <2>3. QED
    BY <2>1, <2>2 DEF Service!Next
<1>2. ASSUME NEW w \in Workers, LoadSetsIndex(w)
      PROVE  Service!TakesIndex(w, loaded[w].index) /\ loaded[w].index \in Builds
  <2>1. loaded[w].index \in Builds
    BY <1>2 DEF LoadSetsIndex, IInv, LoadsReadable, Readable
  <2>2. CheckedIndex(loaded[w].index)
    BY <2>1 DEF IInv, FilesChecked, OnlyChecked, Readable
  <2>3. QED
    BY <1>2, <2>1, <2>2 DEF LoadSetsIndex, Service!TakesIndex, CheckedIndex
<1>3. ASSUME NEW w \in Workers, LoadSetsMap(w)
      PROVE  Service!TakesMap(w, loaded[w].map) /\ loaded[w].map \in Builds
  <2>1. loaded[w].map \in Builds /\ memory[w].index \in Builds
    BY <1>3 DEF LoadSetsMap, IInv, LoadsReadable, Readable
  <2>2. CheckedMap(loaded[w].map)
    BY <2>1 DEF IInv, FilesChecked, OnlyChecked, Readable
  <2>3. QED
    BY <1>3, <2>1, <2>2 DEF LoadSetsMap, Service!TakesMap, CheckedMap
<1>4. ASSUME NEW w \in Workers, WorkerDies(w) PROVE Service!Stops(w)
  BY <1>4 DEF WorkerDies, Service!Stops, Service!Nothing, Missing
<1>5. ASSUME NEW q \in Queries, Query(q)
      PROVE  Service!Searches(q) \/ Service!LooksUp(q) \/ Service!Answers(q)
  <2>1. CASE QueryTakesIndex(q)
    BY <2>1 DEF QueryTakesIndex, Service!Searches
  <2>2. CASE QueryTakesMap(q)
    <3>1. up[WorkerOf[q]]
      BY <2>2 DEF QueryTakesMap, IInv, QueriesReadable
    <3>2. QED
      BY <2>2, <3>1 DEF QueryTakesMap, Service!LooksUp
  <2>3. CASE QueryReturns(q)
    BY <2>3 DEF QueryReturns, Service!Answers, Service!Nothing, Missing
  <2>4. QED
    BY <1>5, <2>1, <2>2, <2>3 DEF Query
<1>6. ASSUME NEW w \in Workers, Load(w) \/ Worker(w)
      PROVE  Service!Next
  <2>1. CASE LoadSetsIndex(w)
    BY <1>2, <2>1 DEF Service!Next
  <2>2. CASE LoadSetsMap(w)
    BY <1>3, <2>2 DEF Service!Next
  <2>3. CASE WorkerDies(w)
    BY <1>4, <2>3 DEF Service!Next
  <2>4. CASE \/ WorkerStarts(w) \/ ListenerSubscribes(w) \/ ListenerReloads(w)
             \/ ListenerDies(w)
             \/ LoadReadsIndex(w) \/ LoadReadsMap(w) \/ LoadRaises(w)
    BY <1>1, <2>4, OnlyForced
  <2>5. QED
    BY <1>6, <2>1, <2>2, <2>3, <2>4 DEF Load, Worker
<1>7. CASE Build \/ Swap \/ MaintainerStops \/ UNCHANGED vars
  BY <1>1, <1>7, OnlyForced
<1>8. CASE \E q \in Queries : Query(q)
  BY <1>5, <1>8 DEF Service!Next
<1>9. QED
  BY <1>6, <1>7, <1>8 DEF Next

\* Whatever is built, swapped, interrupted and reloaded, those who query the
\* index see a service that always has a checked or forced index while it is up.
THEOREM IndexImplementsService == Spec => ImplementsService
<1>1. Init => Service!Init
  BY DEF Init, Service!Init, Service!Nothing, Missing
<1>2. QED
  BY <1>1, ServiceStep, Invariance, PTL DEF Spec, ImplementsService, Service!Spec
=============================================================================
