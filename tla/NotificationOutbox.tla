------------------------- MODULE NotificationOutbox -------------------------
(***************************************************************************)
(* The transactional outbox worker: workers/notification_worker.py over    *)
(* the table of models/notification_outbox.py, run by Celery with the      *)
(* settings of workers/celery_app.py (acks_late, reject_on_worker_lost,    *)
(* soft and hard task time limits, max_retries of the task).               *)
(*                                                                         *)
(* Rows are numbered in created_at order.  A Celery deliver_notification   *)
(* message is identified by its row and by self.request.retries, so the    *)
(* broker is a function from (row, retries) to a number of copies.  The    *)
(* row lock of SELECT ... FOR UPDATE admits one delivery per row at a      *)
(* time: phase[n] says how far that delivery is and req[n] which retry of  *)
(* the task is running it.  A task waiting for the lock is still "in the   *)
(* broker": acks_late returns it there if its worker dies.                 *)
(* The SENT commit frees the lock while the code after it, still inside    *)
(* the try of the delivery, has not returned: finishing[n].                *)
(*                                                                         *)
(* Time is abstracted to due[n]: next_retry_at is NULL or has passed.      *)
(***************************************************************************)
EXTENDS Naturals, FiniteSets, Functions

CONSTANTS
    Notifications,     \* rows, as numbers: a smaller one was created earlier
    MaxRetriesOf,      \* the column max_retries of each row
    CeleryMaxRetries,  \* max_retries of the deliver_notification task
    BatchSize,         \* OUTBOX_POLL_BATCH_SIZE
    MaxQueued,         \* bound: messages of one row in the broker at a poll
    MaxFaults          \* bound: faults that can interrupt deliveries of a row

ASSUME NotificationsAreNumbers == Notifications \subseteq Nat
ASSUME MaxRetriesType == MaxRetriesOf \in [Notifications -> Nat]
ASSUME CeleryMaxRetriesType == CeleryMaxRetries \in Nat
ASSUME BoundsType == BatchSize \in Nat /\ MaxQueued \in Nat /\ MaxFaults \in Nat

VARIABLES
    status,            \* notification.status, "absent" before the insert
    retry_count,       \* notification.retry_count
    due,               \* next_retry_at IS NULL OR next_retry_at <= now
    failure_reason,    \* notification.failure_reason, by where it was written
    msgs,              \* deliver_notification messages in the broker
    phase,             \* the delivery that holds the row lock
    req,               \* self.request.retries of that delivery
    finishing,         \* a delivery has committed SENT and not returned yet
    received,          \* history: copies the recipient has received
    attempts,          \* history: deliveries that got past the guards
    interrupted,       \* history: deliveries whose outcome was not committed
    miscounted         \* history: a delivery committed as SENT was counted as failed

rowVars == <<status, retry_count, due, failure_reason>>
historyVars == <<received, attempts, interrupted, miscounted>>
vars == <<status, retry_count, due, failure_reason, msgs, phase, req, finishing,
          received, attempts, interrupted, miscounted>>

Statuses == {"absent", "PENDING", "SENT", "FAILED", "SUPPRESSED"}
Reasons == {"none", "delivery_error", "max_retries_exhausted"}
Phases == {"idle", "dispatching", "arrived"}
Retries == 0..CeleryMaxRetries

Init ==
    /\ status = [n \in Notifications |-> "absent"]
    /\ retry_count = [n \in Notifications |-> 0]
    /\ due = [n \in Notifications |-> TRUE]
    /\ failure_reason = [n \in Notifications |-> "none"]
    /\ msgs = [n \in Notifications |-> [r \in Retries |-> 0]]
    /\ phase = [n \in Notifications |-> "idle"]
    /\ req = [n \in Notifications |-> 0]
    /\ received = [n \in Notifications |-> 0]
    /\ attempts = [n \in Notifications |-> 0]
    /\ interrupted = [n \in Notifications |-> 0]
    /\ finishing = [n \in Notifications |-> FALSE]
    /\ miscounted = [n \in Notifications |-> FALSE]

-----------------------------------------------------------------------------
(***************************************************************************)
(* The broker.                                                             *)
(***************************************************************************)

\* Messages of row n that wait in the broker.
Queued(n) == FoldFunction(LAMBDA c, total : c + total, 0, msgs[n])

\* The message (n, r) leaves the broker: consumed, or acknowledged.
Taken(n, r) == [msgs EXCEPT ![n][r] = @ - 1]

\* The message (n, r) is (again) in the broker.
Requeued(n, r) == [msgs EXCEPT ![n][r] = @ + 1]

\* self.retry(): the message comes back with one more retry, until
\* CeleryMaxRetries; then the exception is re-raised and the message is gone.
Retried(n, r) == IF r < CeleryMaxRetries THEN Requeued(n, r + 1) ELSE msgs

\* The same for a message that is still in the broker.
TakenAndRetried(n, r) ==
    IF r < CeleryMaxRetries
    THEN [msgs EXCEPT ![n][r] = @ - 1, ![n][r + 1] = @ + 1]
    ELSE Taken(n, r)

-----------------------------------------------------------------------------
(***************************************************************************)
(* Producers and the rest of the world.                                    *)
(***************************************************************************)

\* A producer commits a PENDING row (break_glass, _queue_board_notification).
QueueNotification(n) ==
    /\ status[n] = "absent"
    /\ status' = [status EXCEPT ![n] = "PENDING"]
    /\ UNCHANGED <<retry_count, due, failure_reason, msgs, phase, req, finishing>>
    /\ UNCHANGED historyVars

\* Nothing in the repository writes SUPPRESSED, but the worker honours it: it
\* stands for an operator's UPDATE, which needs the row lock like any other.
SuppressNotification(n) ==
    /\ status[n] = "PENDING"
    /\ phase[n] = "idle"
    /\ status' = [status EXCEPT ![n] = "SUPPRESSED"]
    /\ UNCHANGED <<retry_count, due, failure_reason, msgs, phase, req, finishing>>
    /\ UNCHANGED historyVars

\* Time passes next_retry_at.
BackoffElapses(n) ==
    /\ ~due[n]
    /\ due' = [due EXCEPT ![n] = TRUE]
    /\ UNCHANGED <<status, retry_count, failure_reason, msgs, phase, req, finishing>>
    /\ UNCHANGED historyVars

-----------------------------------------------------------------------------
(***************************************************************************)
(* poll_outbox                                                             *)
(***************************************************************************)

\* Mutant: only rows that never failed are polled; the rest is left to Celery.
PollableFirstTime == {n \in Notifications :
    status[n] = "PENDING" /\ due[n] /\ phase[n] = "idle" /\ retry_count[n] = 0}

\* Rows the poll may lock: PENDING, due, and not locked (SKIP LOCKED).
Pollable == {n \in Notifications :
                status[n] = "PENDING" /\ due[n] /\ phase[n] = "idle"}

\* ORDER BY created_at LIMIT BatchSize
IsBatch(b) ==
    /\ b \subseteq Pollable
    /\ Cardinality(b) <= BatchSize
    /\ \A m \in b, n \in Pollable \ b : m < n
    /\ Cardinality(b) = BatchSize \/ b = Pollable

\* One deliver_notification message per row of the batch; the rows themselves
\* are not changed.  apply_async may raise part of the way (then the poll is
\* retried, which is another poll): a prefix of the batch was enqueued.
PollOutbox ==
    /\ \E b \in SUBSET Pollable :
        /\ IsBatch(b)
        /\ \E sent \in SUBSET b :
            /\ sent # {}
            /\ \A m \in sent, n \in b \ sent : m < n
            /\ \A n \in sent : Queued(n) < MaxQueued
            /\ msgs' = [n \in Notifications |->
                           IF n \in sent THEN [msgs[n] EXCEPT ![0] = @ + 1]
                                         ELSE msgs[n]]
    /\ UNCHANGED <<phase, req, finishing>>
    /\ UNCHANGED rowVars
    /\ UNCHANGED historyVars

-----------------------------------------------------------------------------
(***************************************************************************)
(* deliver_notification                                                    *)
(***************************************************************************)

\* A worker takes message (n, r) and gets the row lock.
Acquires(n, r) == msgs[n][r] > 0 /\ phase[n] = "idle"

\* Mutant: the idempotency guard is missing.
AlreadySuppressed(n) == status[n] = "SUPPRESSED"

\* Guards of _deliver_notification_async, in order: already sent, suppressed.
AlreadySettled(n) == status[n] \in {"SENT", "SUPPRESSED"}

\* Mutant: off by one.
ExhaustedLate(n) == retry_count[n] > MaxRetriesOf[n]

Exhausted(n) == retry_count[n] >= MaxRetriesOf[n]

\* already_sent / suppressed: the task returns and the message is acknowledged.
DeliverSkips(n, r) ==
    /\ Acquires(n, r)
    /\ AlreadySettled(n)
    /\ msgs' = Taken(n, r)
    /\ UNCHANGED <<phase, req, finishing>>
    /\ UNCHANGED rowVars
    /\ UNCHANGED historyVars

\* Max retries exhausted, also for a row that is FAILED already: the status
\* and the reason are written (again).  The task returns, or what follows the
\* commit raises and the task retries.
DeliverExhausted(n, r) ==
    /\ Acquires(n, r)
    /\ ~AlreadySettled(n)
    /\ Exhausted(n)
    /\ status' = [status EXCEPT ![n] = "FAILED"]
    /\ failure_reason' = [failure_reason EXCEPT ![n] = "max_retries_exhausted"]
    /\ msgs' \in {Taken(n, r), TakenAndRetried(n, r)}
    /\ UNCHANGED <<retry_count, due, phase, req, finishing>>
    /\ UNCHANGED historyVars

\* Otherwise the channel's dispatcher is called, with the row lock held.  The
\* code does not look at next_retry_at here.
DeliverAttempts(n, r) ==
    /\ Acquires(n, r)
    /\ ~AlreadySettled(n)
    /\ ~Exhausted(n)
    /\ phase' = [phase EXCEPT ![n] = "dispatching"]
    /\ req' = [req EXCEPT ![n] = r]
    /\ msgs' = Taken(n, r)
    /\ attempts' = [attempts EXCEPT ![n] = @ + 1]
    /\ UNCHANGED rowVars
    /\ UNCHANGED <<finishing, received, interrupted, miscounted>>

\* lock_timeout: the row stays locked by another delivery for too long.
LockTimesOut(n, r) ==
    /\ msgs[n][r] > 0
    /\ phase[n] # "idle"
    /\ msgs' = TakenAndRetried(n, r)
    /\ UNCHANGED <<phase, req, finishing>>
    /\ UNCHANGED rowVars
    /\ UNCHANGED historyVars

\* The e-mail or webhook reaches its recipient; the dispatcher may still raise.
MessageArrives(n) ==
    /\ phase[n] = "dispatching"
    /\ phase' = [phase EXCEPT ![n] = "arrived"]
    /\ received' = [received EXCEPT ![n] = @ + 1]
    /\ UNCHANGED <<msgs, req, finishing, attempts, interrupted, miscounted>>
    /\ UNCHANGED rowVars

\* Mutant: the row is marked SENT before the dispatcher has delivered.
CommitSentEarly(n) ==
    /\ phase[n] = "dispatching"
    /\ status' = [status EXCEPT ![n] = "SENT"]
    /\ phase' = [phase EXCEPT ![n] = "idle"]
    /\ UNCHANGED <<retry_count, due, failure_reason, msgs, req, finishing>>
    /\ UNCHANGED historyVars

\* The dispatcher returned: the row becomes SENT and the commit frees the lock.
\* Metrics and the log entry follow.
CommitSent(n) ==
    /\ phase[n] = "arrived"
    /\ status' = [status EXCEPT ![n] = "SENT"]
    /\ failure_reason' = [failure_reason EXCEPT ![n] = "none"]
    /\ phase' = [phase EXCEPT ![n] = "idle"]
    /\ finishing' = [finishing EXCEPT ![n] = TRUE]
    /\ UNCHANGED <<retry_count, due, msgs, req>>
    /\ UNCHANGED historyVars

\* Mutants: the failure is not counted; the last failure does not set FAILED.
CommitFailureUncounted(n) ==
    /\ phase[n] # "idle"
    /\ failure_reason' = [failure_reason EXCEPT ![n] = "delivery_error"]
    /\ due' = [due EXCEPT ![n] = FALSE]
    /\ phase' = [phase EXCEPT ![n] = "idle"]
    /\ msgs' = Retried(n, req[n])
    /\ UNCHANGED <<status, retry_count, req, finishing>>
    /\ UNCHANGED historyVars

CommitFailureStaysPending(n) ==
    /\ phase[n] # "idle"
    /\ retry_count' = [retry_count EXCEPT ![n] = @ + 1]
    /\ failure_reason' = [failure_reason EXCEPT ![n] = "delivery_error"]
    /\ due' = [due EXCEPT ![n] = FALSE]
    /\ phase' = [phase EXCEPT ![n] = "idle"]
    /\ msgs' = Retried(n, req[n])
    /\ UNCHANGED <<status, req, finishing>>
    /\ UNCHANGED historyVars

\* The except branch: the failure is recorded and committed, and the task
\* retries.  A row that is not exhausted keeps its status.
RecordFailure(n) ==
    /\ retry_count' = [retry_count EXCEPT ![n] = @ + 1]
    /\ failure_reason' = [failure_reason EXCEPT ![n] = "delivery_error"]
    /\ due' = [due EXCEPT ![n] = FALSE]
    /\ status' = [status EXCEPT ![n] =
                     IF retry_count[n] + 1 >= MaxRetriesOf[n] THEN "FAILED" ELSE @]
    /\ msgs' = Retried(n, req[n])

\* The dispatcher raised.
CommitFailure(n) ==
    /\ phase[n] \in {"dispatching", "arrived"}
    /\ RecordFailure(n)
    /\ phase' = [phase EXCEPT ![n] = "idle"]
    /\ UNCHANGED <<req, finishing>>
    /\ UNCHANGED historyVars

\* The task returns and its message is acknowledged.
DeliveryReturns(n) ==
    /\ finishing[n]
    /\ finishing' = [finishing EXCEPT ![n] = FALSE]
    /\ UNCHANGED <<msgs, phase, req>>
    /\ UNCHANGED rowVars
    /\ UNCHANGED historyVars

\* Mutant: the except branch makes the row PENDING again.
FailureAfterSentReopens(n) ==
    /\ finishing[n]
    /\ retry_count' = [retry_count EXCEPT ![n] = @ + 1]
    /\ failure_reason' = [failure_reason EXCEPT ![n] = "delivery_error"]
    /\ due' = [due EXCEPT ![n] = FALSE]
    /\ status' = [status EXCEPT ![n] =
                     IF retry_count[n] + 1 >= MaxRetriesOf[n] THEN "FAILED" ELSE "PENDING"]
    /\ msgs' = Retried(n, req[n])
    /\ finishing' = [finishing EXCEPT ![n] = FALSE]
    /\ miscounted' = [miscounted EXCEPT ![n] = TRUE]
    /\ UNCHANGED <<phase, req, received, attempts, interrupted>>

\* What follows the SENT commit raises (the import of the metrics, a label, the
\* logger): the same except branch counts the delivered attempt as a failure
\* and, if it was the last, makes the row FAILED.
FailureAfterSent(n) ==
    /\ finishing[n]
    /\ RecordFailure(n)
    /\ finishing' = [finishing EXCEPT ![n] = FALSE]
    /\ miscounted' = [miscounted EXCEPT ![n] = TRUE]
    /\ UNCHANGED <<phase, req, received, attempts, interrupted>>

-----------------------------------------------------------------------------
(***************************************************************************)
(* Faults: a delivery ends without committing, its transaction is rolled   *)
(* back and the row is what it was.                                        *)
(***************************************************************************)

Interrupted(n) ==
    /\ phase[n] # "idle"
    /\ interrupted[n] < MaxFaults
    /\ interrupted' = [interrupted EXCEPT ![n] = @ + 1]
    /\ phase' = [phase EXCEPT ![n] = "idle"]
    /\ UNCHANGED <<req, finishing, received, attempts, miscounted>>
    /\ UNCHANGED rowVars

\* The worker dies: acks_late and reject_on_worker_lost put the message back.
WorkerLost(n) == Interrupted(n) /\ msgs' = Requeued(n, req[n])

\* The soft time limit cancels the coroutine (CancelledError is not caught by
\* "except Exception", so nothing is recorded), or a commit raises: the task
\* retries.
AttemptAborted(n) == Interrupted(n) /\ msgs' = Retried(n, req[n])

\* The hard time limit kills the task and acknowledges its message.
HardTimeLimit(n) == Interrupted(n) /\ UNCHANGED msgs

\* The worker dies after the SENT commit and before the acknowledgement, which
\* puts the message back; or the soft limit, or the except branch's own commit,
\* makes the task retry.  The row is SENT.
StoppedAfterCommit(n) ==
    /\ finishing[n]
    /\ finishing' = [finishing EXCEPT ![n] = FALSE]
    /\ msgs' \in {Requeued(n, req[n]), Retried(n, req[n])}
    /\ UNCHANGED <<phase, req>>
    /\ UNCHANGED rowVars
    /\ UNCHANGED historyVars

-----------------------------------------------------------------------------
Deliver(n) ==
    \/ \E r \in Retries :
        DeliverSkips(n, r) \/ DeliverExhausted(n, r) \/ DeliverAttempts(n, r)
    \/ CommitSent(n)
    \/ CommitFailure(n)
    \/ DeliveryReturns(n)
    \/ FailureAfterSent(n)

Fault(n) ==
    \/ \E r \in Retries : LockTimesOut(n, r)
    \/ WorkerLost(n)
    \/ AttemptAborted(n)
    \/ HardTimeLimit(n)
    \/ StoppedAfterCommit(n)

Next ==
    \/ PollOutbox
    \/ \E n \in Notifications :
        \/ QueueNotification(n)
        \/ SuppressNotification(n)
        \/ BackoffElapses(n)
        \/ MessageArrives(n)
        \/ Deliver(n)
        \/ Fault(n)

Spec == Init /\ [][Next]_vars

\* Beat schedules poll_outbox every minute, workers consume the queue, a
\* dispatch returns or raises, and clocks advance.
Fairness ==
    /\ WF_vars(PollOutbox)
    /\ \A n \in Notifications : WF_vars(Deliver(n)) /\ WF_vars(BackoffElapses(n))

FairSpec == Spec /\ Fairness

-----------------------------------------------------------------------------
(***************************************************************************)
(* Properties                                                              *)
(***************************************************************************)

TypeOK ==
    /\ status \in [Notifications -> Statuses]
    /\ retry_count \in [Notifications -> Nat]
    /\ due \in [Notifications -> BOOLEAN]
    /\ failure_reason \in [Notifications -> Reasons]
    /\ msgs \in [Notifications -> [Retries -> Nat]]
    /\ phase \in [Notifications -> Phases]
    /\ req \in [Notifications -> Retries]
    /\ received \in [Notifications -> Nat]
    /\ attempts \in [Notifications -> Nat]
    /\ interrupted \in [Notifications -> Nat]
    /\ finishing \in [Notifications -> BOOLEAN]
    /\ miscounted \in [Notifications -> BOOLEAN]

\* Every attempt is accounted for: it was counted in retry_count, it ended
\* SENT, it is the one in flight, or a fault interrupted it.  No duplicate
\* message, lock timeout or re-poll makes an attempt of its own.  The one
\* attempt that is entered twice, SENT and in retry_count, is a delivery that
\* raised after its SENT commit.
Accounted(n) ==
    attempts[n] + (IF status[n] = "SENT" /\ miscounted[n] THEN 1 ELSE 0)
        = retry_count[n] + interrupted[n]
          + (IF status[n] = "SENT" THEN 1 ELSE 0)
          + (IF phase[n] # "idle" THEN 1 ELSE 0)

AttemptsAccounted == \A n \in Notifications : Accounted(n)

\* max_retries bounds the deliveries however many messages the polls and the
\* Celery retries put in the broker; only interrupted attempts come on top.
AttemptsWithinBudget ==
    \A n \in Notifications : attempts[n] <= MaxRetriesOf[n] + interrupted[n]

\* A recipient gets a second copy only when an attempt that reached it was
\* recorded as a failure or was interrupted: two workers never deliver the
\* same row concurrently.
DuplicatesOnlyFromFailures ==
    \A n \in Notifications :
        received[n] <= 1 + retry_count[n] + interrupted[n]

\* A row is FAILED exactly when its retries are used up.
FailedMeansExhausted ==
    \A n \in Notifications :
        /\ status[n] = "FAILED" => Exhausted(n)
        /\ status[n] = "PENDING" /\ Exhausted(n) => MaxRetriesOf[n] = 0

\* Nothing is delivered after SENT, FAILED or SUPPRESSED, whatever stale
\* messages are still in the broker, and no row is opened again.  Only the
\* delivery that made a row SENT can still change its status: to FAILED, when
\* the code after its commit raises.
SettledIsFinal ==
    [][\A n \in Notifications :
          status[n] \in {"SENT", "FAILED", "SUPPRESSED"} =>
              /\ received'[n] = received[n]
              /\ \/ status'[n] = status[n]
                 \/ status[n] = "SENT" /\ status'[n] = "FAILED" /\ finishing[n]]_vars

\* The outbox implements the delivery promise.
Promise == INSTANCE NotificationDelivery
             WITH Notifications <- Notifications, status <- status, received <- received
ImplementsPromise == Promise!Spec

\* Every accepted notification is settled: crashes, timeouts, lost messages
\* and a batch limit smaller than the backlog delay it but do not lose it.
EventuallySettled ==
    \A n \in Notifications :
        status[n] = "PENDING" ~> status[n] \in {"SENT", "FAILED", "SUPPRESSED"}
=============================================================================
