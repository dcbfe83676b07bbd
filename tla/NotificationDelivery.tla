------------------------ MODULE NotificationDelivery ------------------------
(***************************************************************************)
(* What the transactional outbox promises the rest of ComplianceLoop       *)
(* (models/notification_outbox.py, workers/notification_worker.py).        *)
(*                                                                         *)
(* A notification that was accepted stays PENDING while the recipient may  *)
(* still receive it, any number of times; it is SENT only when the         *)
(* recipient has received it at least once.  After SENT, FAILED or         *)
(* SUPPRESSED nothing reaches the recipient.  FAILED does not promise that *)
(* nothing arrived: an error after a delivery may turn SENT into FAILED.   *)
(* Queues, workers, locks, crashes and retries are not visible here.       *)
(***************************************************************************)
EXTENDS Naturals

CONSTANT Notifications   \* rows of notification_outbox

VARIABLES
    status,              \* NotificationStatus of each row, or "absent"
    received             \* copies each recipient has received

vars == <<status, received>>

Statuses == {"absent", "PENDING", "SENT", "FAILED", "SUPPRESSED"}

Init ==
    /\ status = [n \in Notifications |-> "absent"]
    /\ received = [n \in Notifications |-> 0]

Move(n, from, to) ==
    /\ status[n] = from
    /\ status' = [status EXCEPT ![n] = to]
    /\ UNCHANGED received

Accept(n) == Move(n, "absent", "PENDING")

Receive(n) ==
    /\ status[n] = "PENDING"
    /\ received' = [received EXCEPT ![n] = @ + 1]
    /\ UNCHANGED status

Confirm(n) == received[n] > 0 /\ Move(n, "PENDING", "SENT")

GiveUp(n) == Move(n, "PENDING", "FAILED")

Suppress(n) == Move(n, "PENDING", "SUPPRESSED")

Relabel(n) == Move(n, "SENT", "FAILED")

Next ==
    \E n \in Notifications :
        \/ Accept(n)
        \/ Receive(n)
        \/ Confirm(n)
        \/ GiveUp(n)
        \/ Suppress(n)
        \/ Relabel(n)

Spec == Init /\ [][Next]_vars
=============================================================================
