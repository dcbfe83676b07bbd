------------------------ MODULE MCNotificationOutbox ------------------------
(* Small instances of NotificationOutbox for TLC. *)
EXTENDS NotificationOutbox

CONSTANT RetryBudget   \* max_retries of the rows in this instance

\* The youngest row is created with max_retries = 0, the others with the budget.
ZeroForLast ==
    [n \in Notifications |->
        IF \A m \in Notifications : m <= n THEN 0 ELSE RetryBudget]
=============================================================================
