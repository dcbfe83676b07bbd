--------------------------- MODULE RetentionWipe ---------------------------
(***************************************************************************)
(* Storage limitation: the nightly job of dpdp/retention_enforcer.py and   *)
(* the data-subject requests of dpdp/data_subject_handler.py, working on   *)
(* the same rows of the applications table.                                *)
(*                                                                         *)
(* The job selects its batch FOR UPDATE SKIP LOCKED and commits it as one  *)
(* transaction, so a batch is one action.  An exception raised while a row *)
(* is being wiped (Celery's soft time limit may raise one anywhere in the  *)
(* loop) is logged, the loop goes on with the next row, and what was done  *)
(* to the row is committed with the rest.  An erasure request reads its    *)
(* rows WITHOUT a lock and commits later: the database runs at READ        *)
(* COMMITTED, so the read and the commit are two actions with anything in  *)
(* between, and the commit writes what the read decided.                   *)
(***************************************************************************)
EXTENDS Naturals, FiniteSets, FiniteSetsExt

CONSTANTS
    Applications,     \* non-demo rows of the applications table
    Applicants,       \* data principals
    OwnerOf,          \* applicant_id of each application
    Requests,         \* erasure requests
    RequesterOf,      \* the applicant that makes each erasure request
    PiiFields,        \* _PII_FIELDS_TO_WIPE
    Segments,         \* the first columns the job's loop nulls: none, ..., all
    DefaultDays,      \* DPDP_DEFAULT_RETENTION_DAYS
    DaysChoices,      \* retention_days overrides the ingestion may pass
    NoOverride,       \* retention_days = None
    BatchSize,        \* _WIPE_BATCH_SIZE
    MaxTime,          \* bound: days the clock runs
    MaxErrors         \* bound: batches in which wiping a row raises

ASSUME OwnerOfType == OwnerOf \in [Applications -> Applicants]
ASSUME RequesterOfType == RequesterOf \in [Requests -> Applicants]
ASSUME DaysType == /\ DefaultDays \in Nat
                   /\ DaysChoices \subseteq Nat
                   /\ NoOverride \notin Nat
                   /\ MaxTime \in Nat
ASSUME SegmentsType == Segments \subseteq SUBSET PiiFields /\ PiiFields \in Segments
ASSUME MaxErrorsType == MaxErrors \in Nat
ASSUME BatchSizePositive == BatchSize \in Nat \ {0}
ASSUME JobIsNoRequest == "job" \notin Requests

VARIABLES
    now,               \* datetime.now(), in days
    expires_at,        \* data_retention_expires_at
    pii,               \* PII columns of the row that are not NULL
    retention_wiped,   \* retention_wiped
    consent_given,     \* dpdp_consent_given
    events,            \* RetentionEvent rows of each application
    pc,                \* progress of each erasure request
    seen,              \* applications the request's SELECT returned unwiped
    seenPii,           \* PII columns the SELECT returned for them
    submitted,         \* applications that exist
    collected,         \* history: PII columns filled in at ingestion
    unrecorded,        \* history: columns the job nulled before it raised
    errors             \* bound: batches in which wiping a row raised

appVars == <<submitted, expires_at, pii, retention_wiped, consent_given, events,
             collected, unrecorded, errors>>
reqVars == <<pc, seen, seenPii>>
vars == <<now, submitted, expires_at, pii, retention_wiped, consent_given, events,
          collected, unrecorded, errors, pc, seen, seenPii>>

\* A RetentionEvent: who wiped, and the columns it says were nulled.
Event == [by : Requests \cup {"job"}, fields : SUBSET PiiFields]

Init ==
    /\ now = 0
    /\ submitted = {}
    /\ expires_at = [a \in Applications |-> 0]
    /\ pii = [a \in Applications |-> {}]
    /\ retention_wiped = [a \in Applications |-> FALSE]
    /\ consent_given = [a \in Applications |-> FALSE]
    /\ events = [a \in Applications |-> {}]
    /\ collected = [a \in Applications |-> {}]
    /\ unrecorded = [a \in Applications |-> {}]
    /\ errors = 0
    /\ pc = [r \in Requests |-> "idle"]
    /\ seen = [r \in Requests |-> {}]
    /\ seenPii = [r \in Requests |-> [a \in Applications |-> {}]]

Tick ==
    /\ now < MaxTime
    /\ now' = now + 1
    /\ UNCHANGED appVars
    /\ UNCHANGED reqVars

-----------------------------------------------------------------------------
(***************************************************************************)
(* Ingestion: compute_retention_expiry fixes the day of the wipe.          *)
(***************************************************************************)

\* "retention_days or <default>": None and 0 both select the default.
RetentionDays(days) ==
    IF days = NoOverride \/ days = 0 THEN DefaultDays ELSE days

\* Mutant: a repeated submission overwrites the row.
SubmitAgain(a, fields, days) ==
    /\ submitted' = submitted \cup {a}
    /\ expires_at' = [expires_at EXCEPT ![a] = now + RetentionDays(days)]
    /\ pii' = [pii EXCEPT ![a] = fields]
    /\ UNCHANGED <<now, retention_wiped, events, consent_given, collected,
                   unrecorded, errors>>
    /\ UNCHANGED reqVars

Submit(a, fields, days) ==
    /\ a \notin submitted
    /\ submitted' = submitted \cup {a}
    /\ expires_at' = [expires_at EXCEPT ![a] = now + RetentionDays(days)]
    /\ pii' = [pii EXCEPT ![a] = fields]
    /\ collected' = [collected EXCEPT ![a] = fields]
    /\ consent_given' = [consent_given EXCEPT ![a] = TRUE]
    /\ UNCHANGED <<now, retention_wiped, events, unrecorded, errors>>
    /\ UNCHANGED reqVars

-----------------------------------------------------------------------------
(***************************************************************************)
(* retention_enforcer._wipe_batch                                          *)
(***************************************************************************)

Expired(a) == a \in submitted /\ expires_at[a] < now

\* Mutants: the expiry is not compared; withdrawn applications are left out.
WipeableUnexpired == {a \in submitted : ~retention_wiped[a]}
WipeableConsenting == {a \in submitted :
    Expired(a) /\ ~retention_wiped[a] /\ consent_given[a]}

Wipeable == {a \in submitted : Expired(a) /\ ~retention_wiped[a]}

\* Rows an erasure request may have locked: its UPDATEs hold them until it
\* commits or rolls back.
Lockable == UNION {seen[r] : r \in {q \in Requests : pc[q] = "read"}}

\* LIMIT BatchSize without ORDER BY, FOR UPDATE SKIP LOCKED: any rows that are
\* not locked, as many as the limit allows.
IsBatch(b) ==
    \E skipped \in SUBSET Lockable :
        /\ b \subseteq Wipeable \ skipped
        /\ Cardinality(b) <= BatchSize
        /\ Cardinality(b) = BatchSize \/ b = Wipeable \ skipped

\* Mutant: the row is marked before its columns are nulled.
RowsEndMarkedFirst(b, nulled, marked, recorded) ==
    /\ recorded \subseteq marked
    /\ \A a \in recorded : nulled[a] = PiiFields

\* How far the loop's body gets with each row: it nulls the columns in order,
\* then marks the row, then adds the event.  An exception may come anywhere.
RowsEnd(b, nulled, marked, recorded) ==
    /\ recorded \subseteq marked
    /\ \A a \in marked : nulled[a] = PiiFields

\* The rows of a batch that are recorded are wiped as they should be.  For the
\* others, wiping raised: their columns are nulled up to some point, they may
\* be marked, and they have no RetentionEvent.  All of it is committed.
CommitBatch(b, nulled, marked, recorded) ==
    /\ recorded = b \/ errors < MaxErrors
    /\ errors' = IF recorded = b THEN errors ELSE errors + 1
    /\ pii' = [a \in Applications |-> IF a \in b THEN pii[a] \ nulled[a] ELSE pii[a]]
    /\ retention_wiped' = [a \in Applications |-> a \in marked \/ retention_wiped[a]]
    /\ events' = [a \in Applications |->
                     IF a \in recorded
                     THEN events[a] \cup {[by |-> "job", fields |-> pii[a]]}
                     ELSE events[a]]
    /\ unrecorded' = [a \in Applications |->
                         IF a \in b \ recorded
                         THEN unrecorded[a] \cup (pii[a] \cap nulled[a])
                         ELSE unrecorded[a]]

WipeBatch ==
    /\ \E b \in SUBSET Wipeable :
        /\ b # {}
        /\ IsBatch(b)
        /\ \E nulled \in [b -> Segments], marked \in SUBSET b, recorded \in SUBSET b :
            /\ RowsEnd(b, nulled, marked, recorded)
            /\ CommitBatch(b, nulled, marked, recorded)
    /\ UNCHANGED <<now, submitted, expires_at, consent_given, collected>>
    /\ UNCHANGED reqVars

-----------------------------------------------------------------------------
(***************************************************************************)
(* data_subject_handler                                                    *)
(***************************************************************************)

AppsOf(p) == {a \in submitted : OwnerOf[a] = p}

\* The SELECT of handle_erasure_request, and the loop over its result.
ErasureReads(r) ==
    /\ pc[r] = "idle"
    /\ AppsOf(RequesterOf[r]) # {}
    /\ pc' = [pc EXCEPT ![r] = "read"]
    /\ seen' = [seen EXCEPT ![r] =
                   {a \in AppsOf(RequesterOf[r]) : ~retention_wiped[a]}]
    /\ seenPii' = [seenPii EXCEPT ![r] = pii]
    /\ UNCHANGED now
    /\ UNCHANGED appVars

\* No application of this applicant: ValueError.
ErasureRejected(r) ==
    /\ pc[r] = "idle"
    /\ AppsOf(RequesterOf[r]) = {}
    /\ pc' = [pc EXCEPT ![r] = "rejected"]
    /\ UNCHANGED <<now, seen, seenPii>>
    /\ UNCHANGED appVars

\* Mutant: the row is not marked wiped.
ErasureCommitsUnmarked(r) ==
    /\ pc[r] = "read"
    /\ pc' = [pc EXCEPT ![r] = "done"]
    /\ pii' = [a \in Applications |->
                  IF a \in seen[r] THEN pii[a] \ seenPii[r][a] ELSE pii[a]]
    /\ UNCHANGED <<now, submitted, expires_at, consent_given, retention_wiped,
                   collected, events, unrecorded, errors, seen, seenPii>>

\* db.commit(): the columns that were not NULL when read are nulled, and one
\* RetentionEvent per application says so.
ErasureCommits(r) ==
    /\ pc[r] = "read"
    /\ pc' = [pc EXCEPT ![r] = "done"]
    /\ pii' = [a \in Applications |->
                  IF a \in seen[r] THEN pii[a] \ seenPii[r][a] ELSE pii[a]]
    /\ retention_wiped' =
           [a \in Applications |-> a \in seen[r] \/ retention_wiped[a]]
    /\ events' = [a \in Applications |->
                     IF a \in seen[r]
                     THEN events[a] \cup {[by |-> r, fields |-> seenPii[r][a]]}
                     ELSE events[a]]
    /\ UNCHANGED <<now, submitted, expires_at, consent_given, collected,
                   unrecorded, errors, seen, seenPii>>

\* The process dies or the commit fails: rolled back, nothing is written.
ErasureFails(r) ==
    /\ pc[r] = "read"
    /\ pc' = [pc EXCEPT ![r] = "failed"]
    /\ UNCHANGED <<now, seen, seenPii>>
    /\ UNCHANGED appVars

\* handle_consent_withdrawal writes a column nothing else here reads or writes,
\* so its read and its commit are one step, at the read.
WithdrawConsent(p) ==
    /\ AppsOf(p) # {}
    /\ consent_given' = [a \in Applications |->
                            consent_given[a] /\ a \notin AppsOf(p)]
    /\ UNCHANGED <<now, submitted, expires_at, pii, retention_wiped, events,
                   collected, unrecorded, errors>>
    /\ UNCHANGED reqVars

-----------------------------------------------------------------------------
Next ==
    \/ Tick
    \/ WipeBatch
    \/ \E a \in Applications, fields \in SUBSET PiiFields,
          days \in DaysChoices \cup {NoOverride} : Submit(a, fields, days)
    \/ \E r \in Requests :
        ErasureReads(r) \/ ErasureRejected(r) \/ ErasureCommits(r) \/ ErasureFails(r)
    \/ \E p \in Applicants : WithdrawConsent(p)

Spec == Init /\ [][Next]_vars

\* Beat starts the job every night; it loops until a batch is empty.  Wiping a
\* row does not raise for ever (MaxErrors).
FairSpec == Spec /\ WF_vars(WipeBatch)

-----------------------------------------------------------------------------
(***************************************************************************)
(* Properties                                                              *)
(***************************************************************************)

TypeOK ==
    /\ now \in Nat
    /\ submitted \in SUBSET Applications
    /\ expires_at \in [Applications -> Nat]
    /\ pii \in [Applications -> SUBSET PiiFields]
    /\ retention_wiped \in [Applications -> BOOLEAN]
    /\ consent_given \in [Applications -> BOOLEAN]
    /\ events \in [Applications -> SUBSET Event]
    /\ collected \in [Applications -> SUBSET PiiFields]
    /\ unrecorded \in [Applications -> SUBSET PiiFields]
    /\ errors \in Nat
    /\ pc \in [Requests -> {"idle", "read", "done", "rejected", "failed"}]
    /\ seen \in [Requests -> SUBSET Applications]
    /\ seenPii \in [Requests -> [Applications -> SUBSET PiiFields]]

\* The columns that a set of RetentionEvents says were nulled.
Reported(E) == UNION {e.fields : e \in E}

\* A row is marked as wiped only when it holds no PII, wherever in the loop an
\* exception struck, and every column that was emptied is named by a
\* RetentionEvent, except those the job emptied in a row for which it raised:
\* neither races of job and requests nor repeated wipes lose the record.
WipeIsComplete ==
    \A a \in Applications :
        /\ retention_wiped[a] => pii[a] = {}
        /\ collected[a] \ pii[a] = Reported(events[a]) \cup unrecorded[a]

\* PII is destroyed only for a reason, also in part: the row has expired, or its
\* owner's erasure request was carried out.
WipeIsJustified ==
    \A a \in Applications :
        retention_wiped[a] \/ pii[a] # collected[a] =>
            \/ Expired(a)
            \/ \E r \in Requests : pc[r] = "done" /\ RequesterOf[r] = OwnerOf[a]

\* A request that reports success leaves no PII in any application it saw,
\* whatever the job did between its read and its commit.
ErasureErases ==
    \A r \in Requests :
        pc[r] = "done" => \A a \in seen[r] : retention_wiped[a] /\ pii[a] = {}

\* Expired PII is wiped although every batch is limited.
EventuallyWiped ==
    \A a \in Applications : Expired(a) ~> retention_wiped[a]

\* There is a reason to wipe a row: it has expired, or its owner has asked for
\* it in a request that found applications, whether that succeeded or not.
Due == {a \in Applications :
          \/ Expired(a)
          \/ \E r \in Requests : /\ pc[r] \in {"read", "done", "failed"}
                                 /\ RequesterOf[r] = OwnerOf[a]}

Atomic == INSTANCE AtomicWipe
          WITH held <- pii, wiped <- retention_wiped, due <- Due, lost <- unrecorded,
               reported <- [a \in Applications |-> Reported(events[a])]

\* An erasure that reads a row, and writes it at some time later by what it has
\* read, has the effect of one atomic wipe at its commit, also when the job or
\* another request wiped the row meanwhile.  A batch wipes rows at once, or
\* breaks off in a row, which then stays unmarked or without its record; the
\* next wipe of the row takes the rest, and nothing fills it again.
ImplementsAtomicWipe == Atomic!Spec
=============================================================================
