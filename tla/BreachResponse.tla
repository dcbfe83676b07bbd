---------------------------- MODULE BreachResponse ----------------------------
(***************************************************************************)
(* dpdp/breach_response.py and the stored functions break_glass and        *)
(* break_glass_range of migration 0005: calls of breach_response that run  *)
(* side by side with each other, with the pipeline that writes audit       *)
(* records and with the workers of the retro_eval queue, and that may stop *)
(* at any step.                                                            *)
(*                                                                         *)
(* The queue is a Redis list: producers push on its left end, where the    *)
(* scan starts counting, and workers pop from its right end.               *)
(***************************************************************************)
EXTENDS Naturals, Sequences

CONSTANTS
    Applications,
    Records, AppOf,      \* audit records and their applications
    Tasks, TaskAppOf,    \* retro-eval tasks and their applications
    Flat,                \* tasks whose list entry has "kwargs" and "id" at the top;
                         \* entries made by Celery have neither
    Calls,               \* calls of breach_response
    Range,               \* stands for no application_id: the call has a time range
    BoardConfigured,     \* DPDP_BOARD_NOTIFICATION_EMAIL is set
    ScanLimit,           \* 10000
    MaxFaults            \* bound: failures of a call, a database or Redis

ASSUME AppOfType == AppOf \in [Records -> Applications]
ASSUME TaskAppOfType == TaskAppOf \in [Tasks -> Applications]
ASSUME FlatType == Flat \subseteq Tasks
ASSUME RangeType == Range \notin Applications
ASSUME ParametersType == BoardConfigured \in BOOLEAN /\ ScanLimit \in Nat /\ MaxFaults \in Nat

VARIABLES
    written,       \* committed audit records
    flagged,       \* those with breach_flag
    alerted,       \* calls whose BREACH_ALERT for the applicant is in the outbox
    board,         \* calls whose notice for the board is in the outbox
    step,          \* progress of each call
    target,        \* its application_id
    before,        \* history: the records committed when the call was made
    sees,          \* the rows the UPDATE of break_glass works on
    counted,       \* the rows it updated; records_flagged is their number
    queue,         \* the list retro_eval
    pushed, ran,   \* tasks queued so far, tasks that workers have started
    revoked,       \* tasks revoked
    length, index, \* queue_length and i of the scan
    found,         \* tasks_to_revoke
    frozen,        \* tasks the call has counted as frozen
    faults         \* bound: failures so far

auditVars == <<written, flagged, alerted, target, before, sees, counted>>
queueVars == <<queue, pushed, ran>>
scanVars == <<revoked, length, index, found, frozen>>
vars == <<written, flagged, alerted, board, step, target, before, sees, counted, queue,
          pushed, ran, revoked, length, index, found, frozen, faults>>

Steps == {"no", "flagging", "freezing", "scanning", "revoking", "notifying", "done", "failed"}
Stopped == {"no", "done", "failed"}

Least(m, n) == IF m <= n THEN m ELSE n

Init ==
    /\ written = {}
    /\ flagged = {}
    /\ alerted = {}
    /\ board = {}
    /\ step = [c \in Calls |-> "no"]
    /\ target = [c \in Calls |-> Range]
    /\ before = [c \in Calls |-> {}]
    /\ sees = [c \in Calls |-> {}]
    /\ counted = [c \in Calls |-> {}]
    /\ queue = << >>
    /\ pushed = {}
    /\ ran = {}
    /\ revoked = {}
    /\ length = [c \in Calls |-> 0]
    /\ index = [c \in Calls |-> 0]
    /\ found = [c \in Calls |-> << >>]
    /\ frozen = [c \in Calls |-> 0]
    /\ faults = 0

Fault ==
    /\ faults < MaxFaults
    /\ faults' = faults + 1

Goes(c, from, to) ==
    /\ step[c] = from
    /\ step' = [step EXCEPT ![c] = to]

-----------------------------------------------------------------------------
(***************************************************************************)
(* The rest of the system                                                  *)
(***************************************************************************)

WriteRecord(d) ==
    /\ d \notin written
    /\ written' = written \cup {d}
    /\ UNCHANGED <<flagged, alerted, board, step, target, before, sees, counted, faults>>
    /\ UNCHANGED <<queueVars, scanVars>>

\* LPUSH
PushTask(t) ==
    /\ t \notin pushed
    /\ pushed' = pushed \cup {t}
    /\ queue' = <<t>> \o queue
    /\ UNCHANGED <<board, step, ran, faults>>
    /\ UNCHANGED <<auditVars, scanVars>>

\* BRPOP; a worker drops a task that has been revoked.
PopTask ==
    /\ queue # << >>
    /\ queue' = SubSeq(queue, 1, Len(queue) - 1)
    /\ ran' = ran \cup ({queue[Len(queue)]} \ revoked)
    /\ UNCHANGED <<board, step, pushed, faults>>
    /\ UNCHANGED <<auditVars, scanVars>>

-----------------------------------------------------------------------------
(***************************************************************************)
(* breach_response, step 1: break_glass or break_glass_range               *)
(***************************************************************************)

\* Mutant: break_glass takes the records of an earlier breach for all there are.
UnflaggedIfFirst(a) ==
    {d \in written : AppOf[d] = a /\ \A e \in flagged : AppOf[e] # a}

\* The rows the UPDATE finds.
Unflagged(a) == {d \in written : AppOf[d] = a /\ d \notin flagged}

GlassStarts(c, a) ==
    /\ Goes(c, "no", "flagging")
    /\ target' = [target EXCEPT ![c] = a]
    /\ before' = [before EXCEPT ![c] = written]
    /\ sees' = [sees EXCEPT ![c] = Unflagged(a)]
    /\ UNCHANGED <<written, flagged, alerted, board, counted, faults>>
    /\ UNCHANGED <<queueVars, scanVars>>

\* Mutants: the alert depends on rows that are still unflagged after the UPDATE;
\* rows that a concurrent call has flagged are updated, and counted, again.
GlassCommitsQuietly(c) ==
    /\ Goes(c, "flagging", "freezing")
    /\ flagged' = flagged \cup sees[c]
    /\ counted' = [counted EXCEPT ![c] = sees[c] \ flagged]
    /\ alerted' = IF Unflagged(target[c]) \subseteq sees[c] THEN alerted ELSE alerted \cup {c}
    /\ UNCHANGED <<written, board, target, before, sees, faults>>
    /\ UNCHANGED <<queueVars, scanVars>>
GlassCommitsAgain(c) ==
    /\ Goes(c, "flagging", "freezing")
    /\ flagged' = flagged \cup sees[c]
    /\ counted' = [counted EXCEPT ![c] = sees[c]]
    /\ alerted' = alerted \cup {c}
    /\ UNCHANGED <<written, board, target, before, sees, faults>>
    /\ UNCHANGED <<queueVars, scanVars>>

\* Rows that a concurrent call has flagged meanwhile are locked until it
\* commits, and then no longer satisfy the UPDATE's condition.
GlassCommits(c) ==
    /\ Goes(c, "flagging", "freezing")
    /\ flagged' = flagged \cup sees[c]
    /\ counted' = [counted EXCEPT ![c] = sees[c] \ flagged]
    /\ alerted' = alerted \cup {c}
    /\ UNCHANGED <<written, board, target, before, sees, faults>>
    /\ UNCHANGED <<queueVars, scanVars>>

\* The body of the loop in break_glass_range raises: records_flagged may be the
\* column of break_glass or the function's own output.
RangeRaises(c) ==
    /\ written # {}
    /\ Goes(c, "no", "failed")
    /\ UNCHANGED <<board, faults>>
    /\ UNCHANGED <<auditVars, queueVars, scanVars>>

RangeFindsNothing(c) ==
    /\ Goes(c, "no", "freezing")
    /\ UNCHANGED <<board, faults>>
    /\ UNCHANGED <<auditVars, queueVars, scanVars>>

-----------------------------------------------------------------------------
(***************************************************************************)
(* Step 2: _freeze_retro_eval_jobs                                         *)
(***************************************************************************)

ScanStarts(c) ==
    /\ Goes(c, "freezing", "scanning")
    /\ length' = [length EXCEPT ![c] = Least(Len(queue), ScanLimit)]
    /\ index' = [index EXCEPT ![c] = 0]
    /\ UNCHANGED <<board, revoked, found, frozen, faults>>
    /\ UNCHANGED <<auditVars, queueVars>>

\* The entry is one of the application the call is about.
Matching(c, t) == t \in Flat /\ TaskAppOf[t] = target[c]

\* LINDEX counts from 0; past the end it returns nothing.
ScanReads(c) ==
    /\ step[c] = "scanning"
    /\ index[c] < length[c]
    /\ index' = [index EXCEPT ![c] = @ + 1]
    /\ found' = [found EXCEPT ![c] =
                    IF index[c] < Len(queue) /\ Matching(c, queue[index[c] + 1])
                    THEN Append(@, queue[index[c] + 1]) ELSE @]
    /\ UNCHANGED <<board, step, revoked, length, frozen, faults>>
    /\ UNCHANGED <<auditVars, queueVars>>

\* An entry that cannot be read or parsed is passed over.
ScanSkips(c) ==
    /\ step[c] = "scanning"
    /\ index[c] < length[c]
    /\ Fault
    /\ index' = [index EXCEPT ![c] = @ + 1]
    /\ UNCHANGED <<board, step, revoked, length, found, frozen>>
    /\ UNCHANGED <<auditVars, queueVars>>

ScanEnds(c) ==
    /\ index[c] = length[c]
    /\ Goes(c, "scanning", "revoking")
    /\ UNCHANGED <<board, faults>>
    /\ UNCHANGED <<auditVars, queueVars, scanVars>>

RevokeTask(c) ==
    /\ step[c] = "revoking"
    /\ frozen[c] < Len(found[c])
    /\ revoked' = revoked \cup {found[c][frozen[c] + 1]}
    /\ frozen' = [frozen EXCEPT ![c] = @ + 1]
    /\ UNCHANGED <<board, step, length, index, found, faults>>
    /\ UNCHANGED <<auditVars, queueVars>>

FreezeReturns(c) ==
    /\ frozen[c] = Len(found[c])
    /\ Goes(c, "revoking", "notifying")
    /\ UNCHANGED <<board, faults>>
    /\ UNCHANGED <<auditVars, queueVars, scanVars>>

\* Mutant: the call returns when the freeze fails.
FreezeEndsCall(c) ==
    /\ step[c] \in {"freezing", "revoking"}
    /\ Fault
    /\ step' = [step EXCEPT ![c] = "done"]
    /\ UNCHANGED board
    /\ UNCHANGED <<auditVars, queueVars, scanVars>>

\* Redis or the broker raises: the rest is left alone and the call goes on.
FreezeRaises(c) ==
    /\ step[c] \in {"freezing", "revoking"}
    /\ Fault
    /\ step' = [step EXCEPT ![c] = "notifying"]
    /\ UNCHANGED board
    /\ UNCHANGED <<auditVars, queueVars, scanVars>>

-----------------------------------------------------------------------------
(***************************************************************************)
(* Steps 3 to 5: the board's notification and the report                   *)
(***************************************************************************)

\* _queue_board_notification, and breach_response returns its report.
QueueBoard(c) ==
    /\ Goes(c, "notifying", "done")
    /\ board' = IF BoardConfigured THEN board \cup {c} ELSE board
    /\ UNCHANGED faults
    /\ UNCHANGED <<auditVars, queueVars, scanVars>>

\* The process dies or the database raises: a transaction in progress is
\* rolled back, what was committed stays, and the caller has no report.
CallFails(c) ==
    /\ step[c] \notin Stopped
    /\ Fault
    /\ step' = [step EXCEPT ![c] = "failed"]
    /\ UNCHANGED board
    /\ UNCHANGED <<auditVars, queueVars, scanVars>>

-----------------------------------------------------------------------------
Environment ==
    \/ \E d \in Records : WriteRecord(d)
    \/ \E t \in Tasks : PushTask(t)
    \/ PopTask

Call(c) ==
    \/ \E a \in Applications : GlassStarts(c, a)
    \/ GlassCommits(c)
    \/ RangeRaises(c)
    \/ RangeFindsNothing(c)
    \/ ScanStarts(c)
    \/ ScanReads(c)
    \/ ScanSkips(c)
    \/ ScanEnds(c)
    \/ RevokeTask(c)
    \/ FreezeReturns(c)
    \/ FreezeRaises(c)
    \/ QueueBoard(c)
    \/ CallFails(c)

Next == Environment \/ \E c \in Calls : Call(c)

Spec == Init /\ [][Next]_vars

-----------------------------------------------------------------------------
(***************************************************************************)
(* Properties                                                              *)
(***************************************************************************)

TypeOK ==
    /\ written \subseteq Records
    /\ flagged \subseteq Records
    /\ alerted \subseteq Calls
    /\ board \subseteq Calls
    /\ step \in [Calls -> Steps]
    /\ target \in [Calls -> Applications \cup {Range}]
    /\ before \in [Calls -> SUBSET Records]
    /\ sees \in [Calls -> SUBSET Records]
    /\ counted \in [Calls -> SUBSET Records]
    /\ queue \in Seq(Tasks)
    /\ pushed \subseteq Tasks
    /\ ran \subseteq Tasks
    /\ revoked \subseteq Tasks
    /\ length \in [Calls -> Nat]
    /\ index \in [Calls -> Nat]
    /\ found \in [Calls -> Seq(Tasks)]
    /\ frozen \in [Calls -> Nat]
    /\ faults \in Nat

\* The two obligations of break_glass go together: an application with a
\* flagged record has an alert for its applicant in the outbox, whichever calls
\* overlapped or failed.
FlagsHaveAlerts ==
    \A d \in flagged : \E c \in alerted : target[c] = AppOf[d]

\* Every flagged record was counted by exactly one break_glass transaction,
\* whichever calls overlap, fail or are repeated.  The reports need not add up:
\* a call that fails after its transaction has counted records and returns no
\* report, and the call that repeats it counts none of them.
EachCountedOnce ==
    /\ \A c \in Calls : counted[c] \subseteq flagged
    /\ \A d \in flagged : \E c \in Calls : d \in counted[c]
    /\ \A c1, c2 \in Calls : c1 # c2 => counted[c1] \cap counted[c2] = {}

\* A call that has returned its report has flagged every record its target had
\* when the call was made; so has the failed call that is repeated.
ReturnedCallFlagged ==
    \A c \in Calls :
        step[c] = "done" => \A d \in before[c] : AppOf[d] = target[c] => d \in flagged

\* A call that has returned its report has queued the notice for the board and,
\* for an application, the alert for the applicant, even if the freeze failed
\* or another call had flagged every record before it.
ReturnedCallNotified ==
    \A c \in Calls :
        step[c] = "done" =>
            /\ BoardConfigured => c \in board
            /\ target[c] # Range => c \in alerted
==============================================================================
