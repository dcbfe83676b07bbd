----------------------------- MODULE AtomicWipe -----------------------------
(***************************************************************************)
(* What storage limitation promises (dpdp/retention_enforcer.py and        *)
(* dpdp/data_subject_handler.py).                                          *)
(*                                                                         *)
(* A row is collected, and at some time its wipe becomes due: its period   *)
(* is over, or its owner has asked.  A wipe takes all the columns of a row *)
(* at once, marks it and puts what it took on record; a second wipe of the *)
(* same row takes nothing more.  A wipe may break off: then some columns   *)
(* are taken without a record, and the row is marked only if none is left. *)
(* Nothing else takes PII, and nothing brings it back.                     *)
(* Batches, locks, reads before writes, rollbacks and the clock are not    *)
(* visible here.                                                           *)
(***************************************************************************)
CONSTANTS
    Applications,   \* non-demo rows of the applications table
    PiiFields       \* _PII_FIELDS_TO_WIPE

VARIABLES
    submitted,      \* applications that exist
    held,           \* PII columns of each row that are not NULL
    wiped,          \* retention_wiped
    reported,       \* columns its RetentionEvents say were nulled
    lost,           \* columns that a wipe took before it broke off
    due             \* rows there is a reason to wipe

vars == <<submitted, held, wiped, reported, lost, due>>

Init ==
    /\ submitted = {}
    /\ held = [a \in Applications |-> {}]
    /\ wiped = [a \in Applications |-> FALSE]
    /\ reported = [a \in Applications |-> {}]
    /\ lost = [a \in Applications |-> {}]
    /\ due = {}

Collect(a, fields) ==
    /\ a \notin submitted
    /\ submitted' = submitted \cup {a}
    /\ held' = [held EXCEPT ![a] = fields]
    /\ UNCHANGED <<wiped, reported, lost, due>>

\* Periods end and requests arrive; neither is taken back.
BecomeDue(rows) ==
    /\ due' = due \cup rows
    /\ UNCHANGED <<submitted, held, wiped, reported, lost>>

\* Row a is wiped.  A request that read the row before a wipe of it broke off
\* may put on record what that wipe has taken.
WipeRow(a) ==
    /\ held'[a] = {}
    /\ wiped'[a] = TRUE
    /\ reported[a] \cup held[a] \subseteq reported'[a]
    /\ reported'[a] \subseteq reported[a] \cup held[a] \cup lost[a]
    /\ lost'[a] = lost[a]

BreakOff(a) ==
    /\ held'[a] \subseteq held[a]
    /\ wiped'[a] = wiped[a] \/ (wiped'[a] = TRUE /\ held'[a] = {})
    /\ reported'[a] = reported[a]
    /\ lost'[a] = lost[a] \cup (held[a] \ held'[a])

LeaveRow(a) ==
    /\ held'[a] = held[a]
    /\ wiped'[a] = wiped[a]
    /\ reported'[a] = reported[a]
    /\ lost'[a] = lost[a]

\* Rows are functions of the application throughout.
Rows == [Applications -> SUBSET PiiFields]

Wipe(rows) ==
    /\ rows \subseteq submitted \cap due
    /\ \A a \in rows : WipeRow(a) \/ BreakOff(a)
    /\ \A a \in Applications \ rows : LeaveRow(a)
    /\ held' \in Rows /\ reported' \in Rows /\ lost' \in Rows
    /\ wiped' \in [Applications -> BOOLEAN]
    /\ UNCHANGED <<submitted, due>>

Next ==
    \/ \E a \in Applications, fields \in SUBSET PiiFields : Collect(a, fields)
    \/ \E rows \in SUBSET Applications : BecomeDue(rows) \/ Wipe(rows)

Spec == Init /\ [][Next]_vars
=============================================================================
