------------------------ MODULE BreachResponse_proofs -------------------------
(***************************************************************************)
(* Proofs about BreachResponse.                                            *)
(***************************************************************************)
EXTENDS BreachResponse, TLAPS

-----------------------------------------------------------------------------
(***************************************************************************)
(* Types                                                                   *)
(***************************************************************************)

\* Every step keeps the types.
LEMMA TypeStep == TypeOK /\ [Next]_vars => TypeOK'
<1>. SUFFICES ASSUME TypeOK, [Next]_vars PROVE TypeOK'
  OBVIOUS
<1>. USE DEF auditVars, queueVars, scanVars
<1>1. ASSUME NEW d \in Records, WriteRecord(d) PROVE TypeOK'
  BY <1>1 DEF WriteRecord, TypeOK
<1>2. ASSUME NEW t \in Tasks, PushTask(t) PROVE TypeOK'
  <2>1. <<t>> \o queue \in Seq(Tasks)
    BY DEF TypeOK
  <2>. QED BY <1>2, <2>1 DEF TypeOK, PushTask
<1>3. CASE PopTask
  <2>1. queue \in Seq(Tasks) /\ Len(queue) >= 1
    BY <1>3 DEF TypeOK, PopTask
  <2>2. SubSeq(queue, 1, Len(queue) - 1) \in Seq(Tasks) /\ queue[Len(queue)] \in Tasks
    BY <2>1
  <2>. QED BY <1>3, <2>2 DEF TypeOK, PopTask
<1>4. ASSUME NEW c \in Calls, NEW a \in Applications, GlassStarts(c, a) PROVE TypeOK'
  BY <1>4 DEF GlassStarts, Goes, Steps, Unflagged, TypeOK
<1>5. ASSUME NEW c \in Calls, GlassCommits(c) PROVE TypeOK'
  BY <1>5 DEF GlassCommits, Goes, Steps, TypeOK
<1>6. ASSUME NEW c \in Calls, RangeRaises(c) PROVE TypeOK'
  BY <1>6 DEF RangeRaises, Goes, Steps, TypeOK
<1>7. ASSUME NEW c \in Calls, RangeFindsNothing(c) PROVE TypeOK'
  BY <1>7 DEF RangeFindsNothing, Goes, Steps, TypeOK
<1>8. ASSUME NEW c \in Calls, ScanStarts(c) PROVE TypeOK'
  <2>1. Least(Len(queue), ScanLimit) \in Nat
    BY ParametersType DEF TypeOK, Least
  <2>. QED BY <1>8, <2>1 DEF TypeOK, ScanStarts, Goes, Steps
<1>9. ASSUME NEW c \in Calls, ScanReads(c) PROVE TypeOK'
  <2>1. index[c] < Len(queue) => queue[index[c] + 1] \in Tasks
    BY DEF TypeOK
  <2>2. index[c] < Len(queue) => Append(found[c], queue[index[c] + 1]) \in Seq(Tasks)
    BY <2>1 DEF TypeOK
  <2>3. found' \in [Calls -> Seq(Tasks)]
    BY <1>9, <2>2 DEF TypeOK, ScanReads
  <2>. QED BY <1>9, <2>3 DEF TypeOK, ScanReads
<1>10. ASSUME NEW c \in Calls, ScanSkips(c) PROVE TypeOK'
  BY <1>10 DEF ScanSkips, Fault, TypeOK
<1>11. ASSUME NEW c \in Calls, ScanEnds(c) PROVE TypeOK'
  BY <1>11 DEF ScanEnds, Goes, Steps, TypeOK
<1>12. ASSUME NEW c \in Calls, RevokeTask(c) PROVE TypeOK'
  <2>1. found[c][frozen[c] + 1] \in Tasks
    BY <1>12 DEF TypeOK, RevokeTask
  <2>. QED BY <1>12, <2>1 DEF TypeOK, RevokeTask
<1>13. ASSUME NEW c \in Calls, FreezeReturns(c) PROVE TypeOK'
  BY <1>13 DEF FreezeReturns, Goes, Steps, TypeOK
<1>14. ASSUME NEW c \in Calls, FreezeRaises(c) PROVE TypeOK'
  BY <1>14 DEF FreezeRaises, Fault, Steps, TypeOK
<1>15. ASSUME NEW c \in Calls, QueueBoard(c) PROVE TypeOK'
  BY <1>15 DEF QueueBoard, Goes, Steps, TypeOK
<1>16. ASSUME NEW c \in Calls, CallFails(c) PROVE TypeOK'
  BY <1>16 DEF CallFails, Fault, Steps, TypeOK
<1>17. CASE UNCHANGED vars
  BY <1>17 DEF vars, TypeOK
<1>. QED
  BY <1>1, <1>2, <1>3, <1>4, <1>5, <1>6, <1>7, <1>8, <1>9,
     <1>10, <1>11, <1>12, <1>13, <1>14, <1>15, <1>16, <1>17 DEF Next, Environment, Call

\* The state of breach_response and of what it works on keeps its types.
THEOREM TypeCorrect == Spec => []TypeOK
<1>1. Init => TypeOK
  BY ParametersType DEF Init, TypeOK, Steps
<1>. QED BY <1>1, TypeStep, PTL DEF Spec

-----------------------------------------------------------------------------
(***************************************************************************)
(* Flags, alerts and notices                                               *)
(***************************************************************************)

\* The steps of a call whose first transaction has committed.
Reported == {"freezing", "scanning", "revoking", "notifying", "done"}

\* The inductive invariant: a call that has not committed has counted nothing,
\* the UPDATE works on rows of its own application, and on all of those that
\* were there when the call was made and that nobody has flagged.
AuditInv ==
    /\ EachCountedOnce
    /\ FlagsHaveAlerts
    /\ \A c \in Calls : step[c] \in {"no", "flagging"} => counted[c] = {} /\ c \notin alerted
    /\ \A c \in Calls : step[c] = "no" => before[c] = {} /\ target[c] = Range
    /\ \A c \in Calls : \A d \in sees[c] : AppOf[d] = target[c]
    /\ \A c \in Calls : step[c] = "flagging" =>
          \A d \in before[c] : AppOf[d] = target[c] => d \in flagged \cup sees[c]
    /\ \A c \in Calls : step[c] \in Reported =>
          /\ \A d \in before[c] : AppOf[d] = target[c] => d \in flagged
          /\ target[c] # Range => c \in alerted
    /\ \A c \in Calls : step[c] = "done" => (BoardConfigured => c \in board)

\* Every step keeps it.
LEMMA AuditStep == TypeOK /\ AuditInv /\ [Next]_vars => AuditInv'
<1>. SUFFICES ASSUME TypeOK, AuditInv, [Next]_vars PROVE AuditInv'
  OBVIOUS
<1>. USE DEF auditVars, queueVars, scanVars
<1>1. ASSUME NEW d \in Records, WriteRecord(d) PROVE AuditInv'
  BY <1>1 DEF WriteRecord, TypeOK, AuditInv, EachCountedOnce, FlagsHaveAlerts, Reported
<1>2. ASSUME NEW t \in Tasks, PushTask(t) PROVE AuditInv'
  BY <1>2 DEF PushTask, TypeOK, AuditInv, EachCountedOnce, FlagsHaveAlerts, Reported
<1>3. CASE PopTask
  BY <1>3 DEF PopTask, TypeOK, AuditInv, EachCountedOnce, FlagsHaveAlerts, Reported
<1>4. ASSUME NEW c \in Calls, NEW a \in Applications, GlassStarts(c, a) PROVE AuditInv'
  <2>1. target' = [target EXCEPT ![c] = a] /\ c \notin alerted /\ counted[c] = {}
    BY <1>4 DEF GlassStarts, Goes, AuditInv
  <2>2. EachCountedOnce' /\ FlagsHaveAlerts'
    BY <1>4, <2>1 DEF GlassStarts, Goes, TypeOK, AuditInv, EachCountedOnce, FlagsHaveAlerts
  <2>. QED BY <1>4, <2>1, <2>2, RangeType
     DEF GlassStarts, Goes, Unflagged, TypeOK, AuditInv, Reported
<1>5. ASSUME NEW c \in Calls, GlassCommits(c) PROVE AuditInv'
  <2>1. /\ step[c] = "flagging" /\ counted[c] = {}
        /\ flagged' = flagged \cup sees[c]
        /\ counted' = [counted EXCEPT ![c] = sees[c] \ flagged]
        /\ alerted' = alerted \cup {c}
        /\ step' = [step EXCEPT ![c] = "freezing"]
        /\ UNCHANGED <<written, board, target, before, sees>>
    BY <1>5 DEF GlassCommits, Goes, AuditInv
  <2>2. EachCountedOnce'
    BY <2>1 DEF TypeOK, AuditInv, EachCountedOnce
  <2>3. FlagsHaveAlerts'
    BY <2>1 DEF TypeOK, AuditInv, FlagsHaveAlerts
  <2>. QED BY <2>1, <2>2, <2>3 DEF TypeOK, AuditInv, Reported
<1>6. ASSUME NEW c \in Calls, RangeRaises(c) PROVE AuditInv'
  BY <1>6
     DEF RangeRaises, Goes, TypeOK, AuditInv, EachCountedOnce, FlagsHaveAlerts, Reported
<1>7. ASSUME NEW c \in Calls, RangeFindsNothing(c) PROVE AuditInv'
  BY <1>7
     DEF RangeFindsNothing, Goes, TypeOK, AuditInv, EachCountedOnce, FlagsHaveAlerts, Reported
<1>8. ASSUME NEW c \in Calls, ScanStarts(c) PROVE AuditInv'
  BY <1>8 DEF ScanStarts, Goes, TypeOK, AuditInv, EachCountedOnce, FlagsHaveAlerts, Reported
<1>9. ASSUME NEW c \in Calls, ScanReads(c) PROVE AuditInv'
  BY <1>9 DEF ScanReads, TypeOK, AuditInv, EachCountedOnce, FlagsHaveAlerts, Reported
<1>10. ASSUME NEW c \in Calls, ScanSkips(c) PROVE AuditInv'
  BY <1>10 DEF ScanSkips, TypeOK, AuditInv, EachCountedOnce, FlagsHaveAlerts, Reported
<1>11. ASSUME NEW c \in Calls, ScanEnds(c) PROVE AuditInv'
  BY <1>11 DEF ScanEnds, Goes, TypeOK, AuditInv, EachCountedOnce, FlagsHaveAlerts, Reported
<1>12. ASSUME NEW c \in Calls, RevokeTask(c) PROVE AuditInv'
  BY <1>12 DEF RevokeTask, TypeOK, AuditInv, EachCountedOnce, FlagsHaveAlerts, Reported
<1>13. ASSUME NEW c \in Calls, FreezeReturns(c) PROVE AuditInv'
  BY <1>13
     DEF FreezeReturns, Goes, TypeOK, AuditInv, EachCountedOnce, FlagsHaveAlerts, Reported
<1>14. ASSUME NEW c \in Calls, FreezeRaises(c) PROVE AuditInv'
  BY <1>14 DEF FreezeRaises, TypeOK, AuditInv, EachCountedOnce, FlagsHaveAlerts, Reported
<1>15. ASSUME NEW c \in Calls, QueueBoard(c) PROVE AuditInv'
  BY <1>15
     DEF QueueBoard, Goes, TypeOK, AuditInv, EachCountedOnce, FlagsHaveAlerts, Reported
<1>16. ASSUME NEW c \in Calls, CallFails(c) PROVE AuditInv'
  BY <1>16 DEF CallFails, TypeOK, AuditInv, EachCountedOnce, FlagsHaveAlerts, Reported
<1>17. CASE UNCHANGED vars
  BY <1>17 DEF vars, TypeOK, AuditInv, EachCountedOnce, FlagsHaveAlerts, Reported
<1>. QED
  BY <1>1, <1>2, <1>3, <1>4, <1>5, <1>6, <1>7, <1>8, <1>9,
     <1>10, <1>11, <1>12, <1>13, <1>14, <1>15, <1>16, <1>17 DEF Next, Environment, Call

\* It holds in every reachable state.
LEMMA AuditHolds == Spec => []AuditInv
<1>1. Init => AuditInv
  BY DEF Init, AuditInv, EachCountedOnce, FlagsHaveAlerts, Reported
<1>. QED BY <1>1, TypeCorrect, AuditStep, PTL DEF Spec

\* An application with a flagged record has an alert in the outbox, for any
\* number of overlapping, failing and repeated calls of break_glass.
THEOREM AlertsCorrect == Spec => []FlagsHaveAlerts
<1>1. AuditInv => FlagsHaveAlerts
  BY DEF AuditInv
<1>. QED BY <1>1, AuditHolds, PTL

\* Every flagged record was counted by exactly one transaction of break_glass,
\* whether or not its call went on to return a report.
THEOREM CountsCorrect == Spec => []EachCountedOnce
<1>1. AuditInv => EachCountedOnce
  BY DEF AuditInv
<1>. QED BY <1>1, AuditHolds, PTL

\* A call that has returned has flagged every record there was when it was made.
THEOREM FlaggedCorrect == Spec => []ReturnedCallFlagged
<1>1. AuditInv => ReturnedCallFlagged
  BY DEF AuditInv, ReturnedCallFlagged, Reported
<1>. QED BY <1>1, AuditHolds, PTL

\* A call that has returned has queued its notices, whatever became of the freeze.
THEOREM NotifiedCorrect == Spec => []ReturnedCallNotified
<1>1. AuditInv => ReturnedCallNotified
  BY DEF AuditInv, ReturnedCallNotified, Reported
<1>. QED BY <1>1, AuditHolds, PTL
===============================================================================
