---------------------- MODULE NotificationOutbox_proofs ----------------------
(***************************************************************************)
(* Proofs about NotificationOutbox for any set of rows, any max_retries    *)
(* per row (zero included), any batch size and any bounds.                 *)
(***************************************************************************)
EXTENDS NotificationOutbox, TLAPS

\* A delivery holds the row lock only of a PENDING row with retries left.
InFlightIsPending ==
    \A n \in Notifications :
        phase[n] # "idle" =>
            status[n] = "PENDING" /\ retry_count[n] < MaxRetriesOf[n]

\* The code after a SENT commit runs for a SENT row, and has raised at most once.
FinishingIsSent ==
    \A n \in Notifications :
        finishing[n] => status[n] = "SENT" /\ ~miscounted[n]

\* retry_count stays within max_retries, and a SENT row had a retry left.
RetriesWithinBudget ==
    \A n \in Notifications :
        /\ retry_count[n] <= MaxRetriesOf[n]
        /\ status[n] = "SENT" => retry_count[n] < MaxRetriesOf[n]
        /\ status[n] = "absent" => retry_count[n] = 0

\* Each attempt reaches the recipient at most once, SENT rows reached it.
ReceiptsFollowAttempts ==
    \A n \in Notifications :
        /\ received[n] + (IF phase[n] = "dispatching" THEN 1 ELSE 0) <= attempts[n]
        /\ status[n] = "SENT" \/ phase[n] = "arrived" => received[n] > 0
        /\ miscounted[n] => status[n] \in {"SENT", "FAILED"}

\* No message names a row that is not committed yet.
MessagesNameRows ==
    \A n \in Notifications :
        status[n] = "absent" => \A r \in Retries : msgs[n][r] = 0

\* The inductive invariant.
IInv ==
    /\ TypeOK
    /\ MessagesNameRows
    /\ InFlightIsPending
    /\ FinishingIsSent
    /\ RetriesWithinBudget
    /\ ReceiptsFollowAttempts
    /\ AttemptsAccounted
    /\ FailedMeansExhausted

-----------------------------------------------------------------------------
(***************************************************************************)
(* What the broker helpers return.                                         *)
(***************************************************************************)

\* The broker keeps counting messages in Nat: a message is taken only when it
\* is there, and a retry goes to the next retry number or disappears.
LEMMA BrokerTypes ==
    ASSUME msgs \in [Notifications -> [Retries -> Nat]],
           NEW n \in Notifications, NEW r \in Retries
    PROVE  /\ msgs[n][r] > 0 => Taken(n, r) \in [Notifications -> [Retries -> Nat]]
           /\ Requeued(n, r) \in [Notifications -> [Retries -> Nat]]
           /\ Retried(n, r) \in [Notifications -> [Retries -> Nat]]
           /\ msgs[n][r] > 0 =>
                TakenAndRetried(n, r) \in [Notifications -> [Retries -> Nat]]
<1>1. msgs[n][r] > 0 => Taken(n, r) \in [Notifications -> [Retries -> Nat]]
    BY DEF Taken
<1>2. \A q \in Retries : Requeued(n, q) \in [Notifications -> [Retries -> Nat]]
    BY DEF Requeued
<1>3. r < CeleryMaxRetries => r + 1 \in Retries
    BY CeleryMaxRetriesType DEF Retries
<1>4. msgs[n][r] > 0 =>
        TakenAndRetried(n, r) \in [Notifications -> [Retries -> Nat]]
    BY <1>1, <1>3 DEF TakenAndRetried
<1> QED
    BY <1>1, <1>2, <1>3, <1>4 DEF Retried

\* Retries is a set of naturals that contains 0, the retry number of a message
\* the poll enqueues.
LEMMA RetriesType == 0 \in Retries /\ Retries \subseteq Nat
BY CeleryMaxRetriesType DEF Retries

-----------------------------------------------------------------------------
(***************************************************************************)
(* Type correctness                                                        *)
(***************************************************************************)

\* The empty outbox has the types of TypeOK.
LEMMA TypeInit == Init => TypeOK
BY RetriesType DEF Init, TypeOK, Statuses, Reasons, Phases

\* Every step of the poll, the broker, the workers and the operators keeps the
\* types.
LEMMA TypeStep == TypeOK /\ [Next]_vars => TypeOK'
<1> SUFFICES ASSUME TypeOK, [Next]_vars PROVE TypeOK'
    OBVIOUS
<1> USE RetriesType DEF TypeOK, Statuses, Reasons, Phases, rowVars, historyVars
<1>1. CASE UNCHANGED vars
    BY <1>1 DEF vars
<1>2. CASE PollOutbox
    BY <1>2 DEF PollOutbox
<1>3. ASSUME NEW n \in Notifications, QueueNotification(n) PROVE TypeOK'
    BY <1>3 DEF QueueNotification
<1>4. ASSUME NEW n \in Notifications, SuppressNotification(n) PROVE TypeOK'
    BY <1>4 DEF SuppressNotification
<1>5. ASSUME NEW n \in Notifications, BackoffElapses(n) PROVE TypeOK'
    BY <1>5 DEF BackoffElapses
<1>6. ASSUME NEW n \in Notifications, MessageArrives(n) PROVE TypeOK'
    BY <1>6 DEF MessageArrives
<1>7. ASSUME NEW n \in Notifications, NEW r \in Retries, DeliverSkips(n, r)
      PROVE TypeOK'
    BY <1>7, BrokerTypes DEF DeliverSkips, Acquires
<1>8. ASSUME NEW n \in Notifications, NEW r \in Retries, DeliverExhausted(n, r)
      PROVE TypeOK'
    <2>1. msgs' \in [Notifications -> [Retries -> Nat]]
        BY <1>8, BrokerTypes DEF DeliverExhausted, Acquires
    <2> QED
        BY <1>8, <2>1 DEF DeliverExhausted
<1>9. ASSUME NEW n \in Notifications, NEW r \in Retries, DeliverAttempts(n, r)
      PROVE TypeOK'
    <2>1. msgs' \in [Notifications -> [Retries -> Nat]]
        BY <1>9, BrokerTypes DEF DeliverAttempts, Acquires
    <2>2. attempts' \in [Notifications -> Nat]
        BY <1>9 DEF DeliverAttempts
    <2>3. phase' \in [Notifications -> Phases] /\ req' \in [Notifications -> Retries]
        BY <1>9 DEF DeliverAttempts
    <2> QED
        BY <1>9, <2>1, <2>2, <2>3 DEF DeliverAttempts
<1>10. ASSUME NEW n \in Notifications, CommitSent(n) PROVE TypeOK'
    BY <1>10 DEF CommitSent
<1>11. ASSUME NEW n \in Notifications, CommitFailure(n) PROVE TypeOK'
    <2>1. msgs' \in [Notifications -> [Retries -> Nat]]
        BY <1>11, BrokerTypes DEF CommitFailure, RecordFailure
    <2>2. status' \in [Notifications -> Statuses]
        BY <1>11 DEF CommitFailure, RecordFailure
    <2> QED
        BY <1>11, <2>1, <2>2 DEF CommitFailure, RecordFailure
<1>12. ASSUME NEW n \in Notifications, NEW r \in Retries, LockTimesOut(n, r)
       PROVE TypeOK'
    <2>1. msgs' \in [Notifications -> [Retries -> Nat]]
        BY <1>12, BrokerTypes DEF LockTimesOut
    <2> QED
        BY <1>12, <2>1 DEF LockTimesOut
<1>13. ASSUME NEW n \in Notifications, WorkerLost(n) PROVE TypeOK'
    <2>1. msgs' \in [Notifications -> [Retries -> Nat]]
        BY <1>13, BrokerTypes DEF WorkerLost
    <2>2. interrupted' \in [Notifications -> Nat] /\ phase' \in [Notifications -> Phases]
        BY <1>13 DEF WorkerLost, Interrupted
    <2> QED
        BY <1>13, <2>1, <2>2 DEF WorkerLost, Interrupted
<1>14. ASSUME NEW n \in Notifications, AttemptAborted(n) PROVE TypeOK'
    <2>1. msgs' \in [Notifications -> [Retries -> Nat]]
        BY <1>14, BrokerTypes DEF AttemptAborted
    <2>2. interrupted' \in [Notifications -> Nat] /\ phase' \in [Notifications -> Phases]
        BY <1>14 DEF AttemptAborted, Interrupted
    <2> QED
        BY <1>14, <2>1, <2>2 DEF AttemptAborted, Interrupted
<1>15. ASSUME NEW n \in Notifications, HardTimeLimit(n) PROVE TypeOK'
    BY <1>15 DEF HardTimeLimit, Interrupted
<1>16. ASSUME NEW n \in Notifications, StoppedAfterCommit(n) PROVE TypeOK'
    <2>1. msgs' \in [Notifications -> [Retries -> Nat]]
        <3>1. req[n] \in Retries
            OBVIOUS
        <3>2. msgs' = Requeued(n, req[n]) \/ msgs' = Retried(n, req[n])
            BY <1>16 DEF StoppedAfterCommit
        <3>3. /\ Requeued(n, req[n]) \in [Notifications -> [Retries -> Nat]]
              /\ Retried(n, req[n]) \in [Notifications -> [Retries -> Nat]]
            BY <3>1, BrokerTypes
        <3> QED
            BY ONLY <3>2, <3>3
    <2> QED
        BY <1>16, <2>1 DEF StoppedAfterCommit
<1>17. ASSUME NEW n \in Notifications, DeliveryReturns(n) PROVE TypeOK'
    BY <1>17 DEF DeliveryReturns
<1>18. ASSUME NEW n \in Notifications, FailureAfterSent(n) PROVE TypeOK'
    <2>1. msgs' \in [Notifications -> [Retries -> Nat]]
        BY <1>18, BrokerTypes DEF FailureAfterSent, RecordFailure
    <2>2. status' \in [Notifications -> Statuses]
        BY <1>18 DEF FailureAfterSent, RecordFailure
    <2> QED
        BY <1>18, <2>1, <2>2 DEF FailureAfterSent, RecordFailure
<1> QED
    BY <1>1, <1>2, <1>3, <1>4, <1>5, <1>6, <1>7, <1>8, <1>9, <1>10, <1>11,
       <1>12, <1>13, <1>14, <1>15, <1>16, <1>17, <1>18 DEF Next, Deliver, Fault

\* Every reachable state is well typed; in particular no handler drives a
\* message count below zero.
THEOREM TypeCorrect == Spec => []TypeOK
BY TypeInit, TypeStep, PTL DEF Spec
-----------------------------------------------------------------------------
(***************************************************************************)
(* The inductive invariant                                                 *)
(***************************************************************************)

\* The inductive invariant holds initially.
LEMMA InvInit == Init => IInv
<1> SUFFICES ASSUME Init PROVE IInv
    OBVIOUS
<1>1. TypeOK
    BY TypeInit
<1>2. /\ InFlightIsPending /\ FinishingIsSent /\ MessagesNameRows
      /\ RetriesWithinBudget /\ FailedMeansExhausted
    BY MaxRetriesType DEF Init, InFlightIsPending, FinishingIsSent, MessagesNameRows,
       RetriesWithinBudget, FailedMeansExhausted, Exhausted
<1>3. ReceiptsFollowAttempts /\ AttemptsAccounted
    BY DEF Init, ReceiptsFollowAttempts, AttemptsAccounted, Accounted
<1> QED
    BY <1>1, <1>2, <1>3 DEF IInv

\* Only the poll and a running delivery create messages, for a PENDING row.
LEMMA MessagesStep == IInv /\ [Next]_vars => MessagesNameRows'
<1> SUFFICES ASSUME IInv, [Next]_vars PROVE MessagesNameRows'
    OBVIOUS
<1>0. TypeOK /\ InFlightIsPending /\ FinishingIsSent /\ MessagesNameRows
    BY DEF IInv
<1> USE DEF MessagesNameRows, rowVars
<1>1. CASE UNCHANGED vars
    BY <1>0, <1>1 DEF vars
<1>2. CASE PollOutbox
    <2>1. PICK sent \in SUBSET Pollable :
            msgs' = [n \in Notifications |->
                        IF n \in sent THEN [msgs[n] EXCEPT ![0] = @ + 1]
                                      ELSE msgs[n]]
        BY <1>2 DEF PollOutbox
    <2>2. \A n \in sent : status[n] = "PENDING"
        BY DEF Pollable
    <2> QED
        BY <1>0, <1>2, <2>1, <2>2 DEF PollOutbox
<1>3. ASSUME NEW n \in Notifications, QueueNotification(n) PROVE MessagesNameRows'
    BY <1>0, <1>3 DEF QueueNotification, TypeOK
<1>4. ASSUME NEW n \in Notifications, SuppressNotification(n) PROVE MessagesNameRows'
    BY <1>0, <1>4 DEF SuppressNotification, TypeOK
<1>5. ASSUME NEW n \in Notifications, BackoffElapses(n) PROVE MessagesNameRows'
    BY <1>0, <1>5 DEF BackoffElapses, TypeOK
<1>6. ASSUME NEW n \in Notifications, MessageArrives(n) PROVE MessagesNameRows'
    BY <1>0, <1>6 DEF MessageArrives, TypeOK
<1>7. ASSUME NEW n \in Notifications, NEW r \in Retries, DeliverSkips(n, r)
      PROVE MessagesNameRows'
    <2>1. status[n] # "absent"
        BY <1>0, <1>7 DEF DeliverSkips, Acquires, TypeOK
    <2>2. status'[n] # "absent"
        BY <1>0, <1>7, <2>1 DEF DeliverSkips, TypeOK
    <2>3. \A m \in Notifications \ {n} : msgs'[m] = msgs[m] /\ status'[m] = status[m]
        BY <1>0, <1>7 DEF DeliverSkips, Acquires, Taken, TypeOK
    <2> QED
        BY <1>0, <2>2, <2>3
<1>8. ASSUME NEW n \in Notifications, NEW r \in Retries, DeliverExhausted(n, r)
      PROVE MessagesNameRows'
    <2>1. status[n] # "absent"
        BY <1>0, <1>8 DEF DeliverExhausted, Acquires, TypeOK
    <2>2. status'[n] # "absent"
        BY <1>0, <1>8, <2>1 DEF DeliverExhausted, TypeOK
    <2>3. \A m \in Notifications \ {n} : msgs'[m] = msgs[m] /\ status'[m] = status[m]
        BY <1>0, <1>8 DEF DeliverExhausted, Acquires, AlreadySettled, Taken,
           TakenAndRetried, TypeOK
    <2> QED
        BY <1>0, <2>2, <2>3
<1>9. ASSUME NEW n \in Notifications, NEW r \in Retries, DeliverAttempts(n, r)
      PROVE MessagesNameRows'
    <2>1. status[n] # "absent"
        BY <1>0, <1>9 DEF DeliverAttempts, Acquires, TypeOK
    <2>2. status'[n] # "absent"
        BY <1>0, <1>9, <2>1 DEF DeliverAttempts, TypeOK
    <2>3. \A m \in Notifications \ {n} : msgs'[m] = msgs[m] /\ status'[m] = status[m]
        BY <1>0, <1>9 DEF DeliverAttempts, Acquires, AlreadySettled, Taken, TypeOK
    <2> QED
        BY <1>0, <2>2, <2>3
<1>10. ASSUME NEW n \in Notifications, CommitSent(n) PROVE MessagesNameRows'
    BY <1>0, <1>10 DEF CommitSent, TypeOK
<1>11. ASSUME NEW n \in Notifications, CommitFailure(n) PROVE MessagesNameRows'
    <2>1. status[n] # "absent"
        BY <1>0, <1>11 DEF CommitFailure, InFlightIsPending
    <2>2. status'[n] # "absent"
        BY <1>0, <1>11, <2>1 DEF CommitFailure, RecordFailure, TypeOK
    <2>3. \A m \in Notifications \ {n} : msgs'[m] = msgs[m] /\ status'[m] = status[m]
        BY <1>0, <1>11 DEF CommitFailure, RecordFailure, Retried, Requeued, TypeOK
    <2> QED
        BY <1>0, <2>2, <2>3
<1>12. ASSUME NEW n \in Notifications, NEW r \in Retries, LockTimesOut(n, r)
       PROVE MessagesNameRows'
    <2>1. status[n] # "absent"
        BY <1>0, <1>12 DEF LockTimesOut, TypeOK
    <2>2. status'[n] # "absent"
        BY <1>0, <1>12, <2>1 DEF LockTimesOut, TypeOK
    <2>3. \A m \in Notifications \ {n} : msgs'[m] = msgs[m] /\ status'[m] = status[m]
        BY <1>0, <1>12 DEF LockTimesOut, Taken, TakenAndRetried, TypeOK
    <2> QED
        BY <1>0, <2>2, <2>3
<1>13. ASSUME NEW n \in Notifications, WorkerLost(n) PROVE MessagesNameRows'
    <2>1. status[n] # "absent"
        BY <1>0, <1>13 DEF WorkerLost, Interrupted, InFlightIsPending
    <2>2. status'[n] # "absent"
        BY <1>0, <1>13, <2>1 DEF WorkerLost, Interrupted, TypeOK
    <2>3. \A m \in Notifications \ {n} : msgs'[m] = msgs[m] /\ status'[m] = status[m]
        BY <1>0, <1>13 DEF WorkerLost, Interrupted, Requeued, TypeOK
    <2> QED
        BY <1>0, <2>2, <2>3
<1>14. ASSUME NEW n \in Notifications, AttemptAborted(n) PROVE MessagesNameRows'
    <2>1. status[n] # "absent"
        BY <1>0, <1>14 DEF AttemptAborted, Interrupted, InFlightIsPending
    <2>2. status'[n] # "absent"
        BY <1>0, <1>14, <2>1 DEF AttemptAborted, Interrupted, TypeOK
    <2>3. \A m \in Notifications \ {n} : msgs'[m] = msgs[m] /\ status'[m] = status[m]
        BY <1>0, <1>14 DEF AttemptAborted, Interrupted, Retried, Requeued, TypeOK
    <2> QED
        BY <1>0, <2>2, <2>3
<1>15. ASSUME NEW n \in Notifications, HardTimeLimit(n) PROVE MessagesNameRows'
    BY <1>0, <1>15 DEF HardTimeLimit, Interrupted, TypeOK
<1>16. ASSUME NEW n \in Notifications, StoppedAfterCommit(n) PROVE MessagesNameRows'
    <2>1. status'[n] # "absent"
        BY <1>0, <1>16 DEF StoppedAfterCommit, FinishingIsSent
    <2>2. \A m \in Notifications \ {n} : msgs'[m] = msgs[m] /\ status'[m] = status[m]
        BY <1>0, <1>16 DEF StoppedAfterCommit, Retried, Requeued, TypeOK
    <2> QED
        BY <1>0, <2>1, <2>2
<1>17. ASSUME NEW n \in Notifications, DeliveryReturns(n) PROVE MessagesNameRows'
    BY <1>0, <1>17 DEF DeliveryReturns, TypeOK
<1>18. ASSUME NEW n \in Notifications, FailureAfterSent(n) PROVE MessagesNameRows'
    <2>1. status[n] = "SENT"
        BY <1>0, <1>18 DEF FailureAfterSent, FinishingIsSent
    <2>2. status'[n] # "absent"
        BY <1>0, <1>18, <2>1 DEF FailureAfterSent, RecordFailure, TypeOK
    <2>3. \A m \in Notifications \ {n} : msgs'[m] = msgs[m] /\ status'[m] = status[m]
        BY <1>0, <1>18 DEF FailureAfterSent, RecordFailure, Retried, Requeued, TypeOK
    <2> QED
        BY <1>0, <2>2, <2>3
<1> QED
    BY <1>1, <1>2, <1>3, <1>4, <1>5, <1>6, <1>7, <1>8, <1>9, <1>10, <1>11,
       <1>12, <1>13, <1>14, <1>15, <1>16, <1>17, <1>18 DEF Next, Deliver, Fault

\* Every step keeps the inductive invariant.
LEMMA InvStep == IInv /\ [Next]_vars => IInv'
<1> SUFFICES ASSUME IInv, [Next]_vars PROVE IInv'
    OBVIOUS
<1>0. TypeOK /\ TypeOK' /\ MessagesNameRows /\ MessagesNameRows'
    BY TypeStep, MessagesStep DEF IInv
<1> USE <1>0, MaxRetriesType
    DEF IInv, TypeOK, InFlightIsPending, FinishingIsSent, RetriesWithinBudget, Exhausted,
        ReceiptsFollowAttempts, AttemptsAccounted, Accounted,
        FailedMeansExhausted, rowVars, historyVars
<1>1. CASE UNCHANGED vars
    BY <1>1 DEF vars
<1>2. CASE PollOutbox
    BY <1>2 DEF PollOutbox
<1>3. ASSUME NEW n \in Notifications, QueueNotification(n) PROVE IInv'
    BY <1>3 DEF QueueNotification
<1>4. ASSUME NEW n \in Notifications, SuppressNotification(n) PROVE IInv'
    BY <1>4 DEF SuppressNotification
<1>5. ASSUME NEW n \in Notifications, BackoffElapses(n) PROVE IInv'
    BY <1>5 DEF BackoffElapses
<1>6. ASSUME NEW n \in Notifications, MessageArrives(n) PROVE IInv'
    BY <1>6 DEF MessageArrives
<1>7. ASSUME NEW n \in Notifications, NEW r \in Retries, DeliverSkips(n, r)
      PROVE IInv'
    BY <1>7 DEF DeliverSkips
<1>8. ASSUME NEW n \in Notifications, NEW r \in Retries, DeliverExhausted(n, r)
      PROVE IInv'
    <2>0. status[n] # "absent"
        BY <1>8 DEF DeliverExhausted, Acquires, MessagesNameRows
    <2>1. InFlightIsPending' /\ FinishingIsSent'
        BY <1>8, <2>0 DEF DeliverExhausted, AlreadySettled
    <2>2. RetriesWithinBudget'
        BY <1>8, <2>0 DEF DeliverExhausted, AlreadySettled
    <2>3. ReceiptsFollowAttempts'
        BY <1>8, <2>0 DEF DeliverExhausted, AlreadySettled
    <2>4. AttemptsAccounted'
        <3>1. ASSUME NEW m \in Notifications \ {n} PROVE Accounted(m)'
            BY <1>8, <2>0 DEF DeliverExhausted, AlreadySettled
        <3>2. Accounted(n)'
            BY <1>8, <2>0 DEF DeliverExhausted, AlreadySettled
        <3> QED
            BY <3>1, <3>2
    <2>5. FailedMeansExhausted'
        BY <1>8, <2>0 DEF DeliverExhausted, AlreadySettled
    <2> QED
        BY <2>1, <2>2, <2>3, <2>4, <2>5
<1>9. ASSUME NEW n \in Notifications, NEW r \in Retries, DeliverAttempts(n, r)
      PROVE IInv'
    <2>0. status[n] = "PENDING" /\ phase[n] = "idle"
        BY <1>9 DEF DeliverAttempts, Acquires, AlreadySettled, Statuses,
           MessagesNameRows
    <2>1. InFlightIsPending' /\ FinishingIsSent'
        BY <1>9, <2>0 DEF DeliverAttempts, AlreadySettled
    <2>2. RetriesWithinBudget'
        BY <1>9, <2>0 DEF DeliverAttempts, AlreadySettled
    <2>3. ReceiptsFollowAttempts'
        BY <1>9, <2>0 DEF DeliverAttempts, AlreadySettled
    <2>4. AttemptsAccounted'
        <3>1. ASSUME NEW m \in Notifications \ {n} PROVE Accounted(m)'
            BY <1>9, <2>0 DEF DeliverAttempts, AlreadySettled
        <3>2. Accounted(n)'
            <4>1. attempts'[n] = attempts[n] + 1 /\ phase'[n] # "idle"
                BY <1>9 DEF DeliverAttempts
            <4>2. UNCHANGED <<status, retry_count, interrupted, miscounted>>
                BY <1>9 DEF DeliverAttempts
            <4>3. Accounted(n)
                OBVIOUS
            <4>4. attempts[n] \in Nat /\ retry_count[n] \in Nat /\ interrupted[n] \in Nat
                OBVIOUS
            <4> QED
                BY ONLY <2>0, <4>1, <4>2, <4>3, <4>4 DEF Accounted
        <3> QED
            BY <3>1, <3>2
    <2>5. FailedMeansExhausted'
        BY <1>9, <2>0 DEF DeliverAttempts, AlreadySettled
    <2> QED
        BY <2>1, <2>2, <2>3, <2>4, <2>5
<1>10. ASSUME NEW n \in Notifications, CommitSent(n) PROVE IInv'
    <2>1. InFlightIsPending' /\ FinishingIsSent'
        BY <1>10 DEF CommitSent
    <2>2. RetriesWithinBudget'
        BY <1>10 DEF CommitSent
    <2>3. ReceiptsFollowAttempts'
        BY <1>10 DEF CommitSent
    <2>4. AttemptsAccounted'
        <3>1. ASSUME NEW m \in Notifications \ {n} PROVE Accounted(m)'
            BY <1>10 DEF CommitSent
        <3>2. Accounted(n)'
            <4>1. /\ status[n] = "PENDING" /\ status'[n] = "SENT"
                  /\ phase'[n] = "idle" /\ ~miscounted[n]
                BY <1>10 DEF CommitSent
            <4>2. phase[n] # "idle" /\ UNCHANGED <<attempts, retry_count, interrupted, miscounted>>
                BY <1>10 DEF CommitSent
            <4>3. Accounted(n)
                OBVIOUS
            <4>4. attempts[n] \in Nat /\ retry_count[n] \in Nat /\ interrupted[n] \in Nat
                OBVIOUS
            <4> QED
                BY ONLY <4>1, <4>2, <4>3, <4>4 DEF Accounted
        <3> QED
            BY <3>1, <3>2
    <2>5. FailedMeansExhausted'
        BY <1>10 DEF CommitSent
    <2> QED
        BY <2>1, <2>2, <2>3, <2>4, <2>5
<1>11. ASSUME NEW n \in Notifications, CommitFailure(n) PROVE IInv'
    <2>1. InFlightIsPending' /\ FinishingIsSent'
        BY <1>11 DEF CommitFailure, RecordFailure
    <2>2. RetriesWithinBudget'
        BY <1>11 DEF CommitFailure, RecordFailure
    <2>3. ReceiptsFollowAttempts'
        BY <1>11 DEF CommitFailure, RecordFailure
    <2>4. AttemptsAccounted'
        <3>1. ASSUME NEW m \in Notifications \ {n} PROVE Accounted(m)'
            BY <1>11 DEF CommitFailure, RecordFailure
        <3>2. Accounted(n)'
            <4>1. /\ status[n] = "PENDING" /\ status'[n] \in {"PENDING", "FAILED"}
                  /\ phase[n] # "idle" /\ phase'[n] = "idle"
                  /\ retry_count'[n] = retry_count[n] + 1
                BY <1>11 DEF CommitFailure, RecordFailure
            <4>2. UNCHANGED <<attempts, interrupted, miscounted>>
                BY <1>11 DEF CommitFailure
            <4>3. Accounted(n)
                OBVIOUS
            <4>4. attempts[n] \in Nat /\ retry_count[n] \in Nat /\ interrupted[n] \in Nat
                OBVIOUS
            <4> QED
                BY ONLY <4>1, <4>2, <4>3, <4>4 DEF Accounted
        <3> QED
            BY <3>1, <3>2
    <2>5. FailedMeansExhausted'
        BY <1>11 DEF CommitFailure, RecordFailure
    <2> QED
        BY <2>1, <2>2, <2>3, <2>4, <2>5
<1>12. ASSUME NEW n \in Notifications, NEW r \in Retries, LockTimesOut(n, r)
       PROVE IInv'
    BY <1>12 DEF LockTimesOut
<1>13. ASSUME NEW n \in Notifications, WorkerLost(n) PROVE IInv'
    <2>1. InFlightIsPending' /\ FinishingIsSent'
        BY <1>13 DEF WorkerLost, Interrupted
    <2>2. RetriesWithinBudget'
        BY <1>13 DEF WorkerLost, Interrupted
    <2>3. ReceiptsFollowAttempts'
        BY <1>13 DEF WorkerLost, Interrupted
    <2>4. AttemptsAccounted'
        <3>1. ASSUME NEW m \in Notifications \ {n} PROVE Accounted(m)'
            BY <1>13 DEF WorkerLost, Interrupted
        <3>2. Accounted(n)'
            BY <1>13 DEF WorkerLost, Interrupted
        <3> QED
            BY <3>1, <3>2
    <2>5. FailedMeansExhausted'
        BY <1>13 DEF WorkerLost, Interrupted
    <2> QED
        BY <2>1, <2>2, <2>3, <2>4, <2>5
<1>14. ASSUME NEW n \in Notifications, AttemptAborted(n) PROVE IInv'
    <2>1. InFlightIsPending' /\ FinishingIsSent'
        BY <1>14 DEF AttemptAborted, Interrupted
    <2>2. RetriesWithinBudget'
        BY <1>14 DEF AttemptAborted, Interrupted
    <2>3. ReceiptsFollowAttempts'
        BY <1>14 DEF AttemptAborted, Interrupted
    <2>4. AttemptsAccounted'
        <3>1. ASSUME NEW m \in Notifications \ {n} PROVE Accounted(m)'
            BY <1>14 DEF AttemptAborted, Interrupted
        <3>2. Accounted(n)'
            BY <1>14 DEF AttemptAborted, Interrupted
        <3> QED
            BY <3>1, <3>2
    <2>5. FailedMeansExhausted'
        BY <1>14 DEF AttemptAborted, Interrupted
    <2> QED
        BY <2>1, <2>2, <2>3, <2>4, <2>5
<1>15. ASSUME NEW n \in Notifications, HardTimeLimit(n) PROVE IInv'
    <2>1. InFlightIsPending' /\ FinishingIsSent'
        BY <1>15 DEF HardTimeLimit, Interrupted
    <2>2. RetriesWithinBudget'
        BY <1>15 DEF HardTimeLimit, Interrupted
    <2>3. ReceiptsFollowAttempts'
        BY <1>15 DEF HardTimeLimit, Interrupted
    <2>4. AttemptsAccounted'
        <3>1. ASSUME NEW m \in Notifications \ {n} PROVE Accounted(m)'
            BY <1>15 DEF HardTimeLimit, Interrupted
        <3>2. Accounted(n)'
            BY <1>15 DEF HardTimeLimit, Interrupted
        <3> QED
            BY <3>1, <3>2
    <2>5. FailedMeansExhausted'
        BY <1>15 DEF HardTimeLimit, Interrupted
    <2> QED
        BY <2>1, <2>2, <2>3, <2>4, <2>5
<1>16. ASSUME NEW n \in Notifications, StoppedAfterCommit(n) PROVE IInv'
    BY <1>16 DEF StoppedAfterCommit
<1>17. ASSUME NEW n \in Notifications, DeliveryReturns(n) PROVE IInv'
    BY <1>17 DEF DeliveryReturns
<1>18. ASSUME NEW n \in Notifications, FailureAfterSent(n) PROVE IInv'
    <2>0. /\ status[n] = "SENT" /\ ~miscounted[n] /\ phase[n] = "idle"
          /\ retry_count[n] < MaxRetriesOf[n] /\ received[n] > 0
        BY <1>18 DEF FailureAfterSent
    <2>1. InFlightIsPending' /\ FinishingIsSent'
        BY <1>18, <2>0 DEF FailureAfterSent, RecordFailure
    <2>2. RetriesWithinBudget'
        BY <1>18, <2>0 DEF FailureAfterSent, RecordFailure
    <2>3. ReceiptsFollowAttempts'
        BY <1>18, <2>0 DEF FailureAfterSent, RecordFailure
    <2>4. AttemptsAccounted'
        <3>1. ASSUME NEW m \in Notifications \ {n} PROVE Accounted(m)'
            BY <1>18 DEF FailureAfterSent, RecordFailure
        <3>2. Accounted(n)'
            <4>1. /\ status'[n] \in {"SENT", "FAILED"} /\ miscounted'[n]
                  /\ retry_count'[n] = retry_count[n] + 1
                BY <1>18, <2>0 DEF FailureAfterSent, RecordFailure
            <4>2. UNCHANGED <<attempts, interrupted, phase>>
                BY <1>18 DEF FailureAfterSent
            <4>3. Accounted(n)
                OBVIOUS
            <4>4. attempts[n] \in Nat /\ retry_count[n] \in Nat /\ interrupted[n] \in Nat
                OBVIOUS
            <4> QED
                BY ONLY <2>0, <4>1, <4>2, <4>3, <4>4 DEF Accounted
        <3> QED
            BY <3>1, <3>2
    <2>5. FailedMeansExhausted'
        BY <1>18, <2>0 DEF FailureAfterSent, RecordFailure
    <2> QED
        BY <2>1, <2>2, <2>3, <2>4, <2>5
<1> QED
    BY <1>1, <1>2, <1>3, <1>4, <1>5, <1>6, <1>7, <1>8, <1>9, <1>10, <1>11,
       <1>12, <1>13, <1>14, <1>15, <1>16, <1>17, <1>18 DEF Next, Deliver, Fault

\* The inductive invariant holds in every reachable state.
LEMMA Invariance == Spec => []IInv
BY InvInit, InvStep, PTL DEF Spec

-----------------------------------------------------------------------------
(***************************************************************************)
(* What the invariant gives                                                *)
(***************************************************************************)

\* Every attempt of deliver_notification is counted, in flight, successful or
\* interrupted.
THEOREM AccountingCorrect == Spec => []AttemptsAccounted
<1>1. IInv => AttemptsAccounted
    BY DEF IInv
<1> QED
    BY <1>1, Invariance, PTL

\* A row is FAILED only when its retries are used up, and none with retries to
\* use up is left PENDING after the last of them.
THEOREM FailedCorrect == Spec => []FailedMeansExhausted
<1>1. IInv => FailedMeansExhausted
    BY DEF IInv
<1> QED
    BY <1>1, Invariance, PTL

\* max_retries bounds the attempts up to the interrupted ones, for any number
\* of duplicate messages in the broker.
THEOREM BudgetCorrect == Spec => []AttemptsWithinBudget
<1>1. IInv => AttemptsWithinBudget
    <2> SUFFICES ASSUME IInv, NEW n \in Notifications
                 PROVE attempts[n] <= MaxRetriesOf[n] + interrupted[n]
        BY DEF AttemptsWithinBudget
    <2>1. /\ attempts[n] \in Nat /\ retry_count[n] \in Nat /\ interrupted[n] \in Nat
          /\ MaxRetriesOf[n] \in Nat
        BY MaxRetriesType DEF IInv, TypeOK
    <2>2. /\ retry_count[n] <= MaxRetriesOf[n]
          /\ status[n] = "SENT" => retry_count[n] < MaxRetriesOf[n]
          /\ phase[n] # "idle" =>
                status[n] # "SENT" /\ retry_count[n] < MaxRetriesOf[n]
        BY DEF IInv, InFlightIsPending, RetriesWithinBudget
    <2>3. Accounted(n)
        BY DEF IInv, AttemptsAccounted
    <2> QED
        BY ONLY <2>1, <2>2, <2>3 DEF Accounted
<1> QED
    BY <1>1, Invariance, PTL

\* The row lock prevents double delivery: a recipient gets more than one copy
\* only through attempts recorded as failed or interrupted.
THEOREM DuplicatesCorrect == Spec => []DuplicatesOnlyFromFailures
<1>1. IInv => DuplicatesOnlyFromFailures
    <2> SUFFICES ASSUME IInv, NEW n \in Notifications
                 PROVE received[n] <= 1 + retry_count[n] + interrupted[n]
        BY DEF DuplicatesOnlyFromFailures
    <2>1. /\ attempts[n] \in Nat /\ retry_count[n] \in Nat /\ interrupted[n] \in Nat
          /\ received[n] \in Nat
        BY DEF IInv, TypeOK
    <2>2. received[n] <= attempts[n] /\ (phase[n] # "idle" => status[n] # "SENT")
        BY <2>1 DEF IInv, InFlightIsPending, ReceiptsFollowAttempts
    <2>3. Accounted(n)
        BY DEF IInv, AttemptsAccounted
    <2> QED
        BY ONLY <2>1, <2>2, <2>3 DEF Accounted
<1> QED
    BY <1>1, Invariance, PTL

-----------------------------------------------------------------------------
(***************************************************************************)
(* Steps of the outbox, seen from the promise                              *)
(***************************************************************************)

\* Every step of the worker, the broker and the faults is a step of
\* NotificationDelivery or leaves its variables alone.
LEMMA PromiseStep == IInv /\ [Next]_vars => [Promise!Next]_(Promise!vars)
<1> SUFFICES ASSUME IInv, [Next]_vars PROVE [Promise!Next]_(Promise!vars)
    OBVIOUS
<1>0. /\ TypeOK /\ InFlightIsPending /\ FinishingIsSent
      /\ ReceiptsFollowAttempts /\ MessagesNameRows
    BY DEF IInv
<1> USE DEF rowVars, historyVars, Promise!vars, Promise!Move
<1>1. CASE UNCHANGED vars
    BY <1>1 DEF vars
<1>2. CASE PollOutbox
    BY <1>2 DEF PollOutbox
<1>3. ASSUME NEW n \in Notifications, QueueNotification(n)
      PROVE Promise!Next
    BY <1>3 DEF QueueNotification, Promise!Next, Promise!Accept
<1>4. ASSUME NEW n \in Notifications, SuppressNotification(n)
      PROVE Promise!Next
    BY <1>4 DEF SuppressNotification, Promise!Next, Promise!Suppress
<1>5. ASSUME NEW n \in Notifications, BackoffElapses(n)
      PROVE UNCHANGED Promise!vars
    BY <1>5 DEF BackoffElapses
<1>6. ASSUME NEW n \in Notifications, MessageArrives(n)
      PROVE Promise!Next
    BY <1>0, <1>6 DEF MessageArrives, InFlightIsPending, Promise!Next,
       Promise!Receive
<1>7. ASSUME NEW n \in Notifications, NEW r \in Retries, DeliverSkips(n, r)
      PROVE UNCHANGED Promise!vars
    BY <1>7 DEF DeliverSkips
<1>8. ASSUME NEW n \in Notifications, NEW r \in Retries, DeliverExhausted(n, r)
      PROVE [Promise!Next]_(Promise!vars)
    <2>1. status[n] \in {"PENDING", "FAILED"}
        BY <1>0, <1>8 DEF DeliverExhausted, Acquires, AlreadySettled,
           MessagesNameRows, TypeOK, Statuses
    <2>2. CASE status[n] = "PENDING"
        BY <1>8, <2>2 DEF DeliverExhausted, Promise!Next, Promise!GiveUp
    <2>3. CASE status[n] = "FAILED"
        BY <1>0, <1>8, <2>3 DEF DeliverExhausted, TypeOK
    <2> QED
        BY <2>1, <2>2, <2>3
<1>9. ASSUME NEW n \in Notifications, NEW r \in Retries, DeliverAttempts(n, r)
      PROVE UNCHANGED Promise!vars
    BY <1>9 DEF DeliverAttempts
<1>10. ASSUME NEW n \in Notifications, CommitSent(n)
       PROVE Promise!Next
    BY <1>0, <1>10 DEF CommitSent, InFlightIsPending, ReceiptsFollowAttempts,
       Promise!Next, Promise!Confirm
<1>11. ASSUME NEW n \in Notifications, CommitFailure(n)
       PROVE [Promise!Next]_(Promise!vars)
    <2>1. status[n] = "PENDING" /\ UNCHANGED received
        BY <1>0, <1>11 DEF CommitFailure, InFlightIsPending
    <2>2. CASE retry_count[n] + 1 >= MaxRetriesOf[n]
        BY <1>11, <2>1, <2>2 DEF CommitFailure, RecordFailure, Promise!Next, Promise!GiveUp
    <2>3. CASE ~(retry_count[n] + 1 >= MaxRetriesOf[n])
        BY <1>0, <1>11, <2>1, <2>3 DEF CommitFailure, RecordFailure, TypeOK
    <2> QED
        BY <2>2, <2>3
<1>12. ASSUME NEW n \in Notifications, NEW r \in Retries, LockTimesOut(n, r)
       PROVE UNCHANGED Promise!vars
    BY <1>12 DEF LockTimesOut
<1>13. ASSUME NEW n \in Notifications, Interrupted(n)
       PROVE UNCHANGED Promise!vars
    BY <1>13 DEF Interrupted
<1>14. ASSUME NEW n \in Notifications, StoppedAfterCommit(n) \/ DeliveryReturns(n)
       PROVE UNCHANGED Promise!vars
    BY <1>14 DEF StoppedAfterCommit, DeliveryReturns
<1>15. ASSUME NEW n \in Notifications, FailureAfterSent(n)
       PROVE [Promise!Next]_(Promise!vars)
    <2>1. status[n] = "SENT" /\ UNCHANGED received
        BY <1>0, <1>15 DEF FailureAfterSent, FinishingIsSent
    <2>2. CASE retry_count[n] + 1 >= MaxRetriesOf[n]
        BY <1>15, <2>1, <2>2 DEF FailureAfterSent, RecordFailure, Promise!Next,
           Promise!Relabel
    <2>3. CASE ~(retry_count[n] + 1 >= MaxRetriesOf[n])
        BY <1>0, <1>15, <2>1, <2>3 DEF FailureAfterSent, RecordFailure, TypeOK
    <2> QED
        BY <2>2, <2>3
<1> QED
    BY <1>1, <1>2, <1>3, <1>4, <1>5, <1>6, <1>7, <1>8, <1>9, <1>10, <1>11,
       <1>12, <1>13, <1>14, <1>15
    DEF Next, Deliver, Fault, WorkerLost, AttemptAborted, HardTimeLimit

\* The outbox implements at-least-once delivery: SENT only after a receipt, and
\* nothing after SENT, FAILED or SUPPRESSED.
THEOREM OutboxImplementsPromise == Spec => ImplementsPromise
<1>1. Init => Promise!Init
    BY DEF Init, Promise!Init
<1> QED
    BY <1>1, PromiseStep, Invariance, PTL DEF Spec, ImplementsPromise, Promise!Spec

\* The step property of SettledIsFinal, for one row.
SettledStep(n) ==
    status[n] \in {"SENT", "FAILED", "SUPPRESSED"} =>
        /\ received'[n] = received[n]
        /\ \/ status'[n] = status[n]
           \/ status[n] = "SENT" /\ status'[n] = "FAILED" /\ finishing[n]

\* Nothing is delivered for a settled row and no settled row is opened again;
\* only the code after its own SENT commit can still turn a row FAILED.
THEOREM SettledCorrect == Spec => SettledIsFinal
<1>1. IInv /\ [Next]_vars => [\A n \in Notifications : SettledStep(n)]_vars
    <2> SUFFICES ASSUME IInv, Next, NEW n \in Notifications PROVE SettledStep(n)
        OBVIOUS
    <2>0. TypeOK /\ [Promise!Next]_(Promise!vars)
        BY PromiseStep DEF IInv
    <2>1. CASE FailureAfterSent(n)
        BY <2>0, <2>1 DEF FailureAfterSent, RecordFailure, SettledStep, TypeOK,
           IInv, FinishingIsSent
    <2>2. CASE ~FailureAfterSent(n) /\ status[n] = "SENT"
        <3>1. status'[n] = "SENT"
            <4> USE <2>0, <2>2 DEF rowVars, TypeOK
            <4>1. CASE PollOutbox
                BY <4>1 DEF PollOutbox
            <4>2. ASSUME NEW m \in Notifications,
                         \/ QueueNotification(m) \/ SuppressNotification(m)
                         \/ BackoffElapses(m) \/ MessageArrives(m)
                  PROVE status'[n] = "SENT"
                BY <4>2 DEF QueueNotification, SuppressNotification,
                   BackoffElapses, MessageArrives
            <4>3. ASSUME NEW m \in Notifications, NEW r \in Retries,
                         \/ DeliverSkips(m, r) \/ DeliverExhausted(m, r)
                         \/ DeliverAttempts(m, r) \/ LockTimesOut(m, r)
                  PROVE status'[n] = "SENT"
                BY <4>3 DEF DeliverSkips, DeliverExhausted, DeliverAttempts,
                   LockTimesOut, AlreadySettled
            <4>4. ASSUME NEW m \in Notifications,
                         CommitSent(m) \/ CommitFailure(m) \/ Interrupted(m)
                  PROVE status'[n] = "SENT"
                BY <4>4 DEF CommitSent, CommitFailure, RecordFailure, Interrupted,
                   IInv, InFlightIsPending
            <4>5. ASSUME NEW m \in Notifications,
                         \/ DeliveryReturns(m) \/ StoppedAfterCommit(m)
                         \/ FailureAfterSent(m)
                  PROVE status'[n] = "SENT"
                BY <4>5 DEF DeliveryReturns, StoppedAfterCommit, FailureAfterSent,
                   RecordFailure
            <4> QED
                BY <4>1, <4>2, <4>3, <4>4, <4>5
                DEF Next, Deliver, Fault, WorkerLost, AttemptAborted, HardTimeLimit
        <3>2. received'[n] = received[n]
            BY <2>0, <2>2 DEF TypeOK, Promise!Next, Promise!vars, Promise!Accept,
               Promise!Receive, Promise!Confirm, Promise!GiveUp, Promise!Suppress,
               Promise!Relabel, Promise!Move
        <3> QED
            BY <2>2, <3>1, <3>2 DEF SettledStep
    <2>3. CASE status[n] # "SENT"
        BY <2>0, <2>3 DEF SettledStep, TypeOK, Promise!Next, Promise!vars,
           Promise!Accept, Promise!Receive, Promise!Confirm, Promise!GiveUp,
           Promise!Suppress, Promise!Relabel, Promise!Move
    <2> QED
        BY <2>1, <2>2, <2>3
<1> QED
    BY <1>1, Invariance, PTL DEF Spec, SettledIsFinal, SettledStep
=============================================================================
