------------------------ MODULE AuditArchive_proofs ------------------------
(***************************************************************************)
(* Proofs about RetentionWipe and about AuditArchive, its composition with *)
(* the audit trail.                                                        *)
(*                                                                         *)
(* The first part is about the retention component alone, for any number   *)
(* of applications, applicants and concurrent erasure requests, any batch  *)
(* size and any set of PII columns.  The second part shows that the        *)
(* composition implements that component, so that everything proved of it  *)
(* holds in the composition, and goes on from there to the audit trail and *)
(* the bucket, for any number of decisions and overlapping sweeps, any     *)
(* limits and any number of outages.                                       *)
(***************************************************************************)
EXTENDS AuditArchive, TLAPS

\* A row that was not submitted is empty: a wipe cannot have touched it.
FreshIsEmpty ==
    \A a \in Applications \ submitted :
        /\ pii[a] = {} /\ ~retention_wiped[a] /\ events[a] = {}
        /\ collected[a] = {} /\ unrecorded[a] = {}

\* What an erasure request has read, and will write, is still an upper bound
\* of the columns that hold data, because columns are only ever emptied.
ReadCovers(r) ==
    \A a \in seen[r] :
        /\ a \in submitted
        /\ OwnerOf[a] = RequesterOf[r]
        /\ pii[a] \subseteq seenPii[r][a]
        /\ seenPii[r][a] \subseteq collected[a]

ReadsCover == \A r \in Requests : pc[r] \in {"read", "done"} => ReadCovers(r)

\* The columns that hold data are among those filled in at ingestion.
PiiWasCollected == \A a \in Applications : pii[a] \subseteq collected[a]

\* The inductive invariant of the three safety theorems.
IInv ==
    /\ TypeOK
    /\ FreshIsEmpty
    /\ ReadsCover
    /\ PiiWasCollected
    /\ WipeIsComplete
    /\ WipeIsJustified
    /\ ErasureErases

\* Everything that a set of RetentionEvents reports, with one event more.
LEMMA OneMoreEvent ==
    ASSUME NEW E, NEW x
    PROVE  Reported(E \cup {x}) = Reported(E) \cup x.fields
<1>1. ASSUME NEW f
      PROVE  f \in Reported(E \cup {x}) <=> f \in Reported(E) \cup x.fields
  <2>1. f \in Reported(E \cup {x}) <=> \E e \in E \cup {x} : f \in e.fields
    BY Zenon DEF Reported
  <2>2. f \in Reported(E) <=> \E e \in E : f \in e.fields
    BY Zenon DEF Reported
  <2> QED
    BY <2>1, <2>2
<1> QED
  BY <1>1, Zenon

-----------------------------------------------------------------------------
\* What a batch does to one row: it wipes the row, or wiping it raised, or it
\* leaves the row alone.
JobWipes(a) ==
    /\ pii'[a] = {}
    /\ retention_wiped'[a] = TRUE
    /\ events'[a] = events[a] \cup {[by |-> "job", fields |-> pii[a]]}
    /\ unrecorded'[a] = unrecorded[a]

JobRaises(a) ==
    /\ pii'[a] \subseteq pii[a]
    /\ retention_wiped'[a] = retention_wiped[a] \/ (retention_wiped'[a] = TRUE /\ pii'[a] = {})
    /\ events'[a] = events[a]
    /\ unrecorded'[a] = unrecorded[a] \cup (pii[a] \ pii'[a])

JobLeaves(a) ==
    /\ pii'[a] = pii[a]
    /\ retention_wiped'[a] = retention_wiped[a]
    /\ events'[a] = events[a]
    /\ unrecorded'[a] = unrecorded[a]

\* A batch keeps the types of what it writes, and every row of it is wiped or
\* left where wiping it raised.
LEMMA BatchRows ==
    ASSUME TypeOK, WipeBatch
    PROVE  /\ pii' \in [Applications -> SUBSET PiiFields]
           /\ retention_wiped' \in [Applications -> BOOLEAN]
           /\ events' \in [Applications -> SUBSET Event]
           /\ unrecorded' \in [Applications -> SUBSET PiiFields]
           /\ errors' \in Nat
           /\ \E b \in SUBSET Wipeable :
                /\ \A a \in b : JobWipes(a) \/ JobRaises(a)
                /\ \A a \in Applications \ b : JobLeaves(a)
<1>1. PICK b \in SUBSET Wipeable :
          \E nulled \in [b -> Segments], marked \in SUBSET b, recorded \in SUBSET b :
            /\ RowsEnd(b, nulled, marked, recorded)
            /\ CommitBatch(b, nulled, marked, recorded)
  BY Zenon DEF WipeBatch
<1>2. PICK nulled \in [b -> Segments], marked \in SUBSET b, recorded \in SUBSET b :
          /\ RowsEnd(b, nulled, marked, recorded)
          /\ CommitBatch(b, nulled, marked, recorded)
  BY <1>1, Zenon
<1>3. \A a \in Applications : [by |-> "job", fields |-> pii[a]] \in Event
  BY DEF Event, TypeOK
<1>4. b \subseteq Applications
  BY DEF Wipeable, TypeOK
<1>5. \A a \in b : nulled[a] \in SUBSET PiiFields
  BY SegmentsType
<1>6. /\ recorded \subseteq marked
      /\ \A a \in marked : nulled[a] = PiiFields
  BY <1>2 DEF RowsEnd
<1>7. \A a \in recorded : JobWipes(a)
  BY <1>2, <1>4, <1>6 DEF CommitBatch, JobWipes, TypeOK
<1>8. \A a \in b \ recorded : JobRaises(a)
  <2> SUFFICES ASSUME NEW a \in b \ recorded
               PROVE  JobRaises(a)
    OBVIOUS
  <2>1. /\ pii'[a] = pii[a] \ nulled[a]
        /\ events'[a] = events[a]
        /\ unrecorded'[a] = unrecorded[a] \cup (pii[a] \cap nulled[a])
        /\ retention_wiped'[a] = (a \in marked \/ retention_wiped[a])
    BY <1>2, <1>4 DEF CommitBatch
  <2>2. pii[a] \in SUBSET PiiFields /\ retention_wiped[a] \in BOOLEAN
    BY <1>4 DEF TypeOK
  <2>3. retention_wiped'[a] = retention_wiped[a] \/ (retention_wiped'[a] = TRUE /\ pii'[a] = {})
    BY <1>6, <2>1, <2>2
  <2> QED
    BY <2>1, <2>3 DEF JobRaises
<1>9. \A a \in Applications \ b : JobLeaves(a)
  BY <1>2 DEF CommitBatch, JobLeaves, TypeOK
<1>10. events' \in [Applications -> SUBSET Event]
  BY <1>2, <1>3 DEF CommitBatch, TypeOK
<1>11. /\ pii' \in [Applications -> SUBSET PiiFields]
       /\ unrecorded' \in [Applications -> SUBSET PiiFields]
  BY <1>2, <1>5 DEF CommitBatch, TypeOK
<1>12. retention_wiped' \in [Applications -> BOOLEAN] /\ errors' \in Nat
  BY <1>2 DEF CommitBatch, TypeOK
<1> QED
  BY <1>7, <1>8, <1>9, <1>10, <1>11, <1>12

-----------------------------------------------------------------------------
\* The initial state has the types of TypeOK.
LEMMA TypeInit == Init => TypeOK
  BY DEF Init, TypeOK

\* Every step of the job, the handlers and the clock keeps the types.
LEMMA TypeStep == TypeOK /\ [Next]_vars => TypeOK'
<1> SUFFICES ASSUME TypeOK, [Next]_vars
             PROVE  TypeOK'
  OBVIOUS
<1> USE DEF TypeOK
<1>1. CASE Tick
  BY <1>1 DEF Tick, appVars, reqVars
<1>2. CASE WipeBatch
  BY <1>2, BatchRows DEF WipeBatch, reqVars
<1>3. ASSUME NEW a \in Applications, NEW fields \in SUBSET PiiFields,
             NEW days \in DaysChoices \cup {NoOverride}, Submit(a, fields, days)
      PROVE  TypeOK'
  <2>1. RetentionDays(days) \in Nat
    BY DaysType DEF RetentionDays
  <2> QED
    BY <1>3, <2>1 DEF Submit, reqVars
<1>4. ASSUME NEW r \in Requests, ErasureReads(r)
      PROVE  TypeOK'
  BY <1>4 DEF ErasureReads, AppsOf, appVars
<1>5. ASSUME NEW r \in Requests, ErasureRejected(r)
      PROVE  TypeOK'
  BY <1>5 DEF ErasureRejected, appVars
<1>6. ASSUME NEW r \in Requests, ErasureCommits(r)
      PROVE  TypeOK'
  <2>1. \A a \in Applications : [by |-> r, fields |-> seenPii[r][a]] \in Event
    BY DEF Event
  <2>2. events' \in [Applications -> SUBSET Event]
    BY <1>6, <2>1 DEF ErasureCommits
  <2>3. pii' \in [Applications -> SUBSET PiiFields]
    BY <1>6 DEF ErasureCommits
  <2>4. retention_wiped' \in [Applications -> BOOLEAN]
    BY <1>6 DEF ErasureCommits
  <2>5. pc' \in [Requests -> {"idle", "read", "done", "rejected", "failed"}]
    BY <1>6 DEF ErasureCommits
  <2> QED
    BY <1>6, <2>2, <2>3, <2>4, <2>5 DEF ErasureCommits
<1>7. ASSUME NEW r \in Requests, ErasureFails(r)
      PROVE  TypeOK'
  BY <1>7 DEF ErasureFails, appVars
<1>8. ASSUME NEW p \in Applicants, WithdrawConsent(p)
      PROVE  TypeOK'
  BY <1>8 DEF WithdrawConsent, reqVars
<1>9. CASE UNCHANGED vars
  BY <1>9 DEF vars
<1> QED
  BY <1>1, <1>2, <1>3, <1>4, <1>5, <1>6, <1>7, <1>8, <1>9 DEF Next

\* Type correctness: TypeOK holds in every state the job, the requests and the
\* clock can reach.
THEOREM TypeCorrect == Spec => []TypeOK
  BY TypeInit, TypeStep, PTL DEF Spec

-----------------------------------------------------------------------------
\* The inductive invariant holds initially.
LEMMA InvInit == Init => IInv
<1> SUFFICES ASSUME Init
             PROVE  IInv
  OBVIOUS
<1>1. TypeOK
  BY TypeInit
<1>2. \A a \in Applications : Reported(events[a]) = {}
  BY DEF Init, Reported
<1> QED
  BY <1>1, <1>2 DEF Init, IInv, FreshIsEmpty, ReadsCover, PiiWasCollected,
                    WipeIsComplete, WipeIsJustified, ErasureErases

\* Every step keeps the inductive invariant.
LEMMA InvStep == IInv /\ [Next]_vars => IInv'
<1> SUFFICES ASSUME IInv, [Next]_vars
             PROVE  IInv'
  OBVIOUS
<1>0. TypeOK /\ TypeOK'
  BY TypeStep DEF IInv
<1> USE <1>0 DEF IInv
<1>1. CASE Tick
  <2>1. \A a \in Applications : Expired(a) => Expired(a)'
    BY <1>1 DEF Tick, appVars, Expired, TypeOK
  <2> QED
    BY <1>1, <2>1 DEF Tick, appVars, reqVars, FreshIsEmpty, ReadsCover,
                      ReadCovers, PiiWasCollected, WipeIsComplete,
                      WipeIsJustified, ErasureErases
<1>2. CASE WipeBatch
  <2>1. PICK b \in SUBSET Wipeable :
            /\ \A a \in b : JobWipes(a) \/ JobRaises(a)
            /\ \A a \in Applications \ b : JobLeaves(a)
    BY <1>2, BatchRows
  <2>2. UNCHANGED <<now, submitted, expires_at, consent_given, collected, pc, seen, seenPii>>
    BY <1>2 DEF WipeBatch, reqVars
  <2>3. \A a \in b : a \in submitted /\ a \in Applications /\ Expired(a)
    BY DEF Wipeable, TypeOK
  <2>4. \A a \in Applications : /\ pii'[a] \subseteq pii[a]
                                /\ retention_wiped[a] => retention_wiped'[a]
    BY <2>1 DEF JobWipes, JobRaises, JobLeaves
  <2>5. FreshIsEmpty'
    BY <2>1, <2>2, <2>3 DEF FreshIsEmpty, JobLeaves
  <2>6. ReadsCover' /\ PiiWasCollected'
    BY <2>2, <2>4 DEF ReadsCover, ReadCovers, PiiWasCollected, TypeOK
  <2>7. WipeIsComplete'
    <3> SUFFICES ASSUME NEW a \in Applications
                 PROVE  /\ retention_wiped'[a] => pii'[a] = {}
                        /\ collected'[a] \ pii'[a] = Reported(events'[a]) \cup unrecorded'[a]
      BY DEF WipeIsComplete
    <3>0. /\ retention_wiped[a] => pii[a] = {}
          /\ collected[a] \ pii[a] = Reported(events[a]) \cup unrecorded[a]
          /\ pii[a] \subseteq collected[a]
          /\ collected'[a] = collected[a]
      BY <2>2 DEF WipeIsComplete, PiiWasCollected
    <3>1. CASE JobWipes(a)
      <4> DEFINE x == [by |-> "job", fields |-> pii[a]]
      <4>1. x.fields = pii[a]
        OBVIOUS
      <4>2. /\ pii'[a] = {} /\ events'[a] = events[a] \cup {x}
            /\ unrecorded'[a] = unrecorded[a]
        BY <3>1 DEF JobWipes
      <4> HIDE DEF x
      <4>3. Reported(events[a] \cup {x}) = Reported(events[a]) \cup x.fields
        BY OneMoreEvent
      <4> QED
        BY <3>0, <4>1, <4>2, <4>3
    <3>2. CASE JobRaises(a)
      BY <3>0, <3>2 DEF JobRaises
    <3>3. CASE JobLeaves(a)
      BY <3>0, <3>3 DEF JobLeaves
    <3> QED
      BY <2>1, <3>1, <3>2, <3>3
  <2>8. WipeIsJustified'
    BY <2>1, <2>2, <2>3 DEF WipeIsJustified, Expired, JobLeaves
  <2>9. ErasureErases'
    BY <2>2, <2>4 DEF ErasureErases, TypeOK
  <2> QED
    BY <2>5, <2>6, <2>7, <2>8, <2>9
<1>3. ASSUME NEW a \in Applications, NEW fields \in SUBSET PiiFields,
             NEW days \in DaysChoices \cup {NoOverride}, Submit(a, fields, days)
      PROVE  IInv'
  <2>1. /\ a \notin submitted
        /\ submitted' = submitted \cup {a}
        /\ pii' = [pii EXCEPT ![a] = fields]
        /\ collected' = [collected EXCEPT ![a] = fields]
        /\ UNCHANGED <<now, retention_wiped, events, unrecorded, pc, seen, seenPii>>
        /\ \A c \in Applications : c # a => expires_at'[c] = expires_at[c]
    BY <1>3 DEF Submit, reqVars, TypeOK
  <2>2. \A r \in Requests : pc[r] \in {"read", "done"} => a \notin seen[r]
    BY <2>1 DEF ReadsCover, ReadCovers
  <2>3. ~retention_wiped[a] /\ events[a] = {} /\ unrecorded[a] = {}
    BY <2>1 DEF FreshIsEmpty
  <2>4. FreshIsEmpty'
    BY <2>1 DEF FreshIsEmpty, TypeOK
  <2>5. ReadsCover'
    BY <2>1, <2>2 DEF ReadsCover, ReadCovers, TypeOK
  <2>6. PiiWasCollected'
    BY <2>1 DEF PiiWasCollected, TypeOK
  <2>7. WipeIsComplete'
    <3> SUFFICES ASSUME NEW c \in Applications
                 PROVE  /\ retention_wiped'[c] => pii'[c] = {}
                        /\ collected'[c] \ pii'[c] = Reported(events'[c]) \cup unrecorded'[c]
      BY DEF WipeIsComplete
    <3>1. CASE c = a
      <4>1. Reported(events'[c]) = {}
        BY <2>1, <2>3, <3>1 DEF Reported
      <4> QED
        BY <2>1, <2>3, <3>1, <4>1 DEF TypeOK
    <3>2. CASE c # a
      BY <2>1, <3>2 DEF WipeIsComplete, TypeOK
    <3> QED
      BY <3>1, <3>2
  <2>8. WipeIsJustified'
    BY <2>1, <2>3 DEF WipeIsJustified, Expired, TypeOK
  <2>9. ErasureErases'
    BY <2>1, <2>2 DEF ErasureErases, TypeOK
  <2> QED
    BY <2>4, <2>5, <2>6, <2>7, <2>8, <2>9
<1>4. ASSUME NEW r \in Requests, ErasureReads(r)
      PROVE  IInv'
  <2>1. /\ pc[r] = "idle"
        /\ pc' = [pc EXCEPT ![r] = "read"]
        /\ seen' = [seen EXCEPT ![r] = {a \in AppsOf(RequesterOf[r]) : ~retention_wiped[a]}]
        /\ seenPii' = [seenPii EXCEPT ![r] = pii]
        /\ UNCHANGED <<now, submitted, expires_at, pii, retention_wiped, events,
                       collected, unrecorded>>
    BY <1>4 DEF ErasureReads, appVars
  <2>2. FreshIsEmpty' /\ PiiWasCollected' /\ WipeIsComplete'
    BY <2>1 DEF FreshIsEmpty, PiiWasCollected, WipeIsComplete
  <2>3. ReadsCover'
    <3> SUFFICES ASSUME NEW q \in Requests, pc'[q] \in {"read", "done"}
                 PROVE  ReadCovers(q)'
      BY DEF ReadsCover
    <3>1. CASE q = r
      BY <2>1, <3>1 DEF ReadCovers, AppsOf, PiiWasCollected, TypeOK
    <3>2. CASE q # r
      BY <2>1, <3>2 DEF ReadsCover, ReadCovers, TypeOK
    <3> QED
      BY <3>1, <3>2
  <2>4. WipeIsJustified'
    BY <2>1 DEF WipeIsJustified, Expired, TypeOK
  <2>5. ErasureErases'
    BY <2>1 DEF ErasureErases, TypeOK
  <2> QED
    BY <2>2, <2>3, <2>4, <2>5
<1>5. ASSUME NEW r \in Requests, ErasureRejected(r)
      PROVE  IInv'
  BY <1>5 DEF ErasureRejected, appVars, FreshIsEmpty, ReadsCover, ReadCovers,
              PiiWasCollected, WipeIsComplete, WipeIsJustified, Expired,
              ErasureErases, TypeOK
<1>6. ASSUME NEW r \in Requests, ErasureCommits(r)
      PROVE  IInv'
  <2>1. /\ pc[r] = "read"
        /\ pc' = [pc EXCEPT ![r] = "done"]
        /\ pii' = [a \in Applications |->
                      IF a \in seen[r] THEN pii[a] \ seenPii[r][a] ELSE pii[a]]
        /\ retention_wiped' =
               [a \in Applications |-> a \in seen[r] \/ retention_wiped[a]]
        /\ events' = [a \in Applications |->
                         IF a \in seen[r]
                         THEN events[a] \cup {[by |-> r, fields |-> seenPii[r][a]]}
                         ELSE events[a]]
        /\ UNCHANGED <<now, submitted, expires_at, collected, unrecorded, seen, seenPii>>
    BY <1>6 DEF ErasureCommits
  <2>2. ReadCovers(r)
    BY <2>1 DEF ReadsCover
  <2>3. \A a \in seen[r] : pii'[a] = {} /\ retention_wiped'[a] /\ a \in submitted
    BY <2>1, <2>2 DEF ReadCovers, TypeOK
  <2>4. FreshIsEmpty'
    BY <2>1, <2>3 DEF FreshIsEmpty
  <2>5. ReadsCover'
    BY <2>1, <2>2 DEF ReadsCover, ReadCovers, TypeOK
  <2>6. PiiWasCollected'
    BY <2>1 DEF PiiWasCollected
  <2>7. WipeIsComplete'
    <3> SUFFICES ASSUME NEW a \in Applications
                 PROVE  /\ retention_wiped'[a] => pii'[a] = {}
                        /\ collected'[a] \ pii'[a] = Reported(events'[a]) \cup unrecorded'[a]
      BY DEF WipeIsComplete
    <3>1. CASE a \in seen[r]
      <4> DEFINE x == [by |-> r, fields |-> seenPii[r][a]]
      <4>1. x.fields = seenPii[r][a]
        OBVIOUS
      <4>2. /\ pii'[a] = {} /\ events'[a] = events[a] \cup {x}
            /\ collected'[a] = collected[a] /\ unrecorded'[a] = unrecorded[a]
        BY <2>1, <2>3, <3>1
      <4>3. collected[a] \ pii[a] = Reported(events[a]) \cup unrecorded[a]
        BY DEF WipeIsComplete
      <4>4. /\ pii[a] \subseteq collected[a]
            /\ pii[a] \subseteq seenPii[r][a]
            /\ seenPii[r][a] \subseteq collected[a]
        BY <2>2, <3>1 DEF PiiWasCollected, ReadCovers
      <4> HIDE DEF x
      <4>5. Reported(events[a] \cup {x}) = Reported(events[a]) \cup x.fields
        BY OneMoreEvent
      <4> QED
        BY <4>1, <4>2, <4>3, <4>4, <4>5
    <3>2. CASE a \notin seen[r]
      BY <2>1, <3>2 DEF WipeIsComplete
    <3> QED
      BY <3>1, <3>2
  <2>8. WipeIsJustified'
    <3> SUFFICES ASSUME NEW a \in Applications, retention_wiped'[a] \/ pii'[a] # collected'[a]
                 PROVE  \/ Expired(a)'
                        \/ \E q \in Requests : pc'[q] = "done" /\ RequesterOf[q] = OwnerOf[a]
      BY DEF WipeIsJustified
    <3>1. CASE a \in seen[r]
      BY <2>1, <2>2, <3>1 DEF ReadCovers, TypeOK
    <3>2. CASE a \notin seen[r]
      BY <2>1, <3>2 DEF WipeIsJustified, Expired, TypeOK
    <3> QED
      BY <3>1, <3>2
  <2>9. ErasureErases'
    <3> SUFFICES ASSUME NEW q \in Requests, pc'[q] = "done", NEW a \in seen'[q]
                 PROVE  retention_wiped'[a] /\ pii'[a] = {}
      BY DEF ErasureErases
    <3>1. CASE q = r
      BY <2>1, <2>3, <3>1
    <3>2. CASE q # r
      BY <2>1, <3>2 DEF ErasureErases, TypeOK
    <3> QED
      BY <3>1, <3>2
  <2> QED
    BY <2>4, <2>5, <2>6, <2>7, <2>8, <2>9
<1>7. ASSUME NEW r \in Requests, ErasureFails(r)
      PROVE  IInv'
  BY <1>7 DEF ErasureFails, appVars, FreshIsEmpty, ReadsCover, ReadCovers,
              PiiWasCollected, WipeIsComplete, WipeIsJustified, Expired,
              ErasureErases, TypeOK
<1>8. ASSUME NEW p \in Applicants, WithdrawConsent(p)
      PROVE  IInv'
  BY <1>8 DEF WithdrawConsent, reqVars, FreshIsEmpty, ReadsCover, ReadCovers,
              PiiWasCollected, WipeIsComplete, WipeIsJustified, Expired,
              ErasureErases
<1>9. CASE UNCHANGED vars
  BY <1>9 DEF vars, FreshIsEmpty, ReadsCover, ReadCovers, PiiWasCollected,
              WipeIsComplete, WipeIsJustified, Expired, ErasureErases
<1> QED
  BY <1>1, <1>2, <1>3, <1>4, <1>5, <1>6, <1>7, <1>8, <1>9 DEF Next

\* The inductive invariant holds in every reachable state.
LEMMA Invariance == Spec => []IInv
  BY InvInit, InvStep, PTL DEF Spec

\* A row marked as wiped holds no PII and the events name every emptied column,
\* those of broken off wipes excepted, however the nightly job and any number of
\* erasure requests interleave on it and wherever an exception strikes.
THEOREM WipeCorrect == Spec => []WipeIsComplete
<1>1. IInv => WipeIsComplete
  BY DEF IInv
<1> QED
  BY <1>1, Invariance, PTL

\* PII is destroyed only after expiry or for an erasure request of its owner.
THEOREM JustifiedCorrect == Spec => []WipeIsJustified
<1>1. IInv => WipeIsJustified
  BY DEF IInv
<1> QED
  BY <1>1, Invariance, PTL

\* A successful erasure request leaves no PII in the applications it saw.
THEOREM ErasureCorrect == Spec => []ErasureErases
<1>1. IInv => ErasureErases
  BY DEF IInv
<1> QED
  BY <1>1, Invariance, PTL

-----------------------------------------------------------------------------
(***************************************************************************)
(* RetentionWipe implements AtomicWipe.                                    *)
(***************************************************************************)

\* A step that leaves the rows alone is one that makes rows due, or none.
LEMMA OnlyDueChanges ==
    ASSUME UNCHANGED <<submitted, pii, retention_wiped, events, unrecorded>>, Due \subseteq Due'
    PROVE  [Atomic!Next]_(Atomic!vars)
<1>1. Due' \subseteq Applications /\ Due' = Due \cup Due'
  BY DEF Due
<1>2. Atomic!BecomeDue(Due')
  BY <1>1 DEF Atomic!BecomeDue
<1> QED
  BY <1>1, <1>2 DEF Atomic!Next

\* A step that does to every row of a set what an atomic wipe may do, and leaves
\* the others alone, is an atomic wipe when these rows are due.
LEMMA WipesTheseRows ==
    ASSUME TypeOK, TypeOK', NEW rows \in SUBSET (submitted \cap Due),
           \A a \in rows : Atomic!WipeRow(a) \/ Atomic!BreakOff(a),
           \A a \in Applications \ rows : Atomic!LeaveRow(a),
           submitted' = submitted, Due' = Due
    PROVE  Atomic!Next
<1> DEFINE after == [a \in Applications |-> Reported(events'[a])]
<1>1. after \in [Applications -> SUBSET PiiFields]
  <2> SUFFICES ASSUME NEW a \in Applications
               PROVE  Reported(events'[a]) \subseteq PiiFields
    OBVIOUS
  <2>1. events'[a] \subseteq Event
    BY DEF TypeOK
  <2>2. \A e \in Event : e.fields \subseteq PiiFields
    BY DEF Event
  <2> QED
    BY <2>1, <2>2, Zenon DEF Reported
<1>2. Atomic!Wipe(rows)
  BY <1>1 DEF Atomic!Wipe, Atomic!Rows, TypeOK
<1>3. rows \in SUBSET Applications
  BY DEF Due
<1> QED
  BY <1>2, <1>3 DEF Atomic!Next

\* Every step is an atomic one or is not visible.  A batch and a commit wipe what
\* is due, a submission makes nothing due, and the others at most make rows due.
LEMMA AtomicStep == IInv /\ [Next]_vars => [Atomic!Next]_(Atomic!vars)
<1> SUFFICES ASSUME IInv, [Next]_vars
             PROVE  [Atomic!Next]_(Atomic!vars)
  OBVIOUS
<1>0. /\ TypeOK /\ TypeOK'
      /\ FreshIsEmpty /\ ReadsCover /\ PiiWasCollected /\ WipeIsComplete
  BY TypeStep DEF IInv
<1>1. CASE Tick
  <2>1. \A a \in Applications : Expired(a) => Expired(a)'
    BY <1>0, <1>1 DEF Tick, appVars, Expired, TypeOK
  <2>2. Due \subseteq Due'
    BY <1>1, <2>1 DEF Due, Tick, reqVars
  <2> QED
    BY <1>1, <2>2, OnlyDueChanges DEF Tick, appVars
<1>2. CASE WipeBatch
  <2>1. PICK b \in SUBSET Wipeable :
            /\ \A a \in b : JobWipes(a) \/ JobRaises(a)
            /\ \A a \in Applications \ b : JobLeaves(a)
    BY <1>0, <1>2, BatchRows
  <2>2. submitted' = submitted /\ Due' = Due
    BY <1>2 DEF WipeBatch, reqVars, Due, Expired
  <2>3. b \in SUBSET (submitted \cap Due) /\ b \subseteq Applications
    BY <1>0 DEF Wipeable, Due, TypeOK
  <2>4. ASSUME NEW a \in b, JobWipes(a)
        PROVE  Atomic!WipeRow(a)
    <3> DEFINE x == [by |-> "job", fields |-> pii[a]]
    <3>1. x.fields = pii[a] /\ a \in Applications
      BY <2>3
    <3>2. /\ pii'[a] = {} /\ retention_wiped'[a] = TRUE
          /\ events'[a] = events[a] \cup {x} /\ unrecorded'[a] = unrecorded[a]
      BY <2>4 DEF JobWipes
    <3> HIDE DEF x
    <3>3. Reported(events[a] \cup {x}) = Reported(events[a]) \cup x.fields
      BY OneMoreEvent
    <3> QED
      BY <3>1, <3>2, <3>3 DEF Atomic!WipeRow
  <2>5. ASSUME NEW a \in b, JobRaises(a)
        PROVE  Atomic!BreakOff(a)
    BY <2>3, <2>5 DEF JobRaises, Atomic!BreakOff
  <2>6. ASSUME NEW a \in Applications \ b
        PROVE  Atomic!LeaveRow(a)
    BY <2>1 DEF JobLeaves, Atomic!LeaveRow
  <2> QED
    BY <1>0, <2>1, <2>2, <2>3, <2>4, <2>5, <2>6, WipesTheseRows
<1>3. ASSUME NEW a \in Applications, NEW fields \in SUBSET PiiFields,
             NEW days \in DaysChoices \cup {NoOverride}, Submit(a, fields, days)
      PROVE  Atomic!Next
  <2>1. /\ a \notin submitted /\ submitted' = submitted \cup {a}
        /\ pii' = [pii EXCEPT ![a] = fields]
        /\ expires_at' = [expires_at EXCEPT ![a] = now + RetentionDays(days)]
        /\ UNCHANGED <<now, retention_wiped, events, unrecorded, pc>>
    BY <1>3 DEF Submit, reqVars
  <2>2. RetentionDays(days) \in Nat /\ now \in Nat
    BY <1>0, DaysType DEF RetentionDays, TypeOK
  <2>3. ~Expired(a) /\ ~Expired(a)'
    BY <1>0, <2>1, <2>2 DEF Expired, TypeOK
  <2>4. \A c \in Applications : c # a => (Expired(c)' <=> Expired(c))
    BY <1>0, <2>1 DEF Expired, TypeOK
  <2>5. Due' = Due
    BY <2>1, <2>3, <2>4 DEF Due
  <2>6. Atomic!Collect(a, fields)
    BY <2>1, <2>5 DEF Atomic!Collect
  <2> QED
    BY <2>6 DEF Atomic!Next
<1>4. ASSUME NEW r \in Requests, ErasureReads(r) \/ ErasureRejected(r) \/ ErasureFails(r)
      PROVE  [Atomic!Next]_(Atomic!vars)
  <2>1. UNCHANGED <<now, submitted, expires_at, pii, retention_wiped, events, unrecorded>>
    BY <1>4 DEF ErasureReads, ErasureRejected, ErasureFails, appVars
  <2>2. \A q \in Requests : pc[q] \in {"read", "done", "failed"} =>
                            pc'[q] \in {"read", "done", "failed"}
    BY <1>0, <1>4 DEF ErasureReads, ErasureRejected, ErasureFails, TypeOK
  <2>3. Due \subseteq Due'
    BY <2>1, <2>2 DEF Due, Expired
  <2> QED
    BY <2>1, <2>3, OnlyDueChanges
<1>5. ASSUME NEW r \in Requests, ErasureCommits(r)
      PROVE  Atomic!Next
  <2>1. /\ pc[r] = "read" /\ pc' = [pc EXCEPT ![r] = "done"]
        /\ pii' = [a \in Applications |->
                      IF a \in seen[r] THEN pii[a] \ seenPii[r][a] ELSE pii[a]]
        /\ retention_wiped' =
               [a \in Applications |-> a \in seen[r] \/ retention_wiped[a]]
        /\ events' = [a \in Applications |->
                         IF a \in seen[r]
                         THEN events[a] \cup {[by |-> r, fields |-> seenPii[r][a]]}
                         ELSE events[a]]
        /\ UNCHANGED <<now, submitted, expires_at, unrecorded>>
    BY <1>5 DEF ErasureCommits
  <2>2. ReadCovers(r)
    BY <1>0, <2>1 DEF ReadsCover
  <2>3. seen[r] \in SUBSET (submitted \cap Due)
    BY <1>0, <2>1, <2>2 DEF ReadCovers, Due, TypeOK
  <2>4. Due' = Due
    <3>1. \A q \in Requests : pc[q] \in {"read", "done", "failed"} <=>
                              pc'[q] \in {"read", "done", "failed"}
      BY <1>0, <2>1 DEF TypeOK
    <3> QED
      BY <2>1, <3>1 DEF Due, Expired
  <2>5. ASSUME NEW a \in seen[r]
        PROVE  Atomic!WipeRow(a)
    <3> DEFINE x == [by |-> r, fields |-> seenPii[r][a]]
    <3>1. x.fields = seenPii[r][a] /\ a \in Applications
      BY <1>0 DEF TypeOK
    <3>2. /\ pii'[a] = pii[a] \ seenPii[r][a] /\ retention_wiped'[a] = TRUE
          /\ events'[a] = events[a] \cup {x} /\ unrecorded'[a] = unrecorded[a]
      BY <2>1, <3>1
    <3>3. /\ pii[a] \subseteq seenPii[r][a] /\ seenPii[r][a] \subseteq collected[a]
          /\ collected[a] \ pii[a] = Reported(events[a]) \cup unrecorded[a]
      BY <1>0, <2>2, <3>1 DEF ReadCovers, WipeIsComplete
    <3> HIDE DEF x
    <3>4. Reported(events[a] \cup {x}) = Reported(events[a]) \cup x.fields
      BY OneMoreEvent
    <3> QED
      BY <3>1, <3>2, <3>3, <3>4 DEF Atomic!WipeRow
  <2>6. ASSUME NEW a \in Applications \ seen[r]
        PROVE  Atomic!LeaveRow(a)
    BY <1>0, <2>1 DEF Atomic!LeaveRow, TypeOK
  <2> QED
    BY <1>0, <2>1, <2>3, <2>4, <2>5, <2>6, WipesTheseRows
<1>6. ASSUME NEW p \in Applicants, WithdrawConsent(p)
      PROVE  [Atomic!Next]_(Atomic!vars)
  <2>1. Due \subseteq Due'
    BY <1>6 DEF WithdrawConsent, reqVars, Due, Expired
  <2> QED
    BY <1>6, <2>1, OnlyDueChanges DEF WithdrawConsent
<1>7. CASE UNCHANGED vars
  <2>1. Due \subseteq Due'
    BY <1>7 DEF vars, Due, Expired
  <2> QED
    BY <1>7, <2>1, OnlyDueChanges DEF vars
<1> QED
  BY <1>1, <1>2, <1>3, <1>4, <1>5, <1>6, <1>7 DEF Next

\* Reading first and writing later, in batches or on request, failing or not,
\* amounts to wiping rows at once, only when due, and on record; a wipe that
\* breaks off in a row leaves it for the next one, or marked when it is empty.
THEOREM RetentionImplementsAtomicWipe == Spec => ImplementsAtomicWipe
<1>1. Init => Atomic!Init
  <2> SUFFICES ASSUME Init
               PROVE  Atomic!Init
    OBVIOUS
  <2>1. \A a \in Applications : Reported(events[a]) = {}
    BY DEF Init, Reported
  <2>2. Due = {}
    BY DEF Init, Due, Expired
  <2> QED
    BY <2>1, <2>2 DEF Init, Atomic!Init
<1> QED
  BY <1>1, AtomicStep, Invariance, PTL DEF Spec, ImplementsAtomicWipe, Atomic!Spec

-----------------------------------------------------------------------------
(***************************************************************************)
(* The composition with the audit trail                                    *)
(***************************************************************************)

\* Every step of the writer, the uploaders and the purge leaves the retention
\* component alone; every other step is one of its own.
LEMMA StepOfRetention == [ArchiveNext]_archiveVars => [Next]_vars
  BY DEF ArchiveNext, archiveVars, vars, Write, Sweep, Upload, Purge, PipelineDecides,
         WriteAuditRecord, WriteRaises, ScheduleAndRespond, WriterDies, TaskStarts,
         SweepStarts, SweepSkips, SweepUploads, SweepDies, EncryptionRaises, UploadToMinio,
         MarkUploaded, UploadFails, PurgeStarts, RemoveObject, RemoveFails,
         PurgeReturns, PurgeWithoutClient, PurgeDies

\* The composition implements the retention component: beside pipelines, uploads
\* and purges, the nightly job and the data subject requests behave as
\* RetentionWipe says, and every theorem above holds of them.
THEOREM ArchiveImplementsRetention == ArchiveSpec => Spec
<1>1. ArchiveInit => Init
  BY DEF ArchiveInit
<1> QED
  BY <1>1, StepOfRetention, PTL DEF ArchiveSpec, Spec

\* Only committed decisions get past the audit node or into an uploader.
WorkHasRecord ==
    /\ \A d \in Decisions : stage[d] \in {"committed", "responded"} => d \in record
    /\ task \subseteq record
    /\ uploaded \subseteq record
    /\ object \subseteq record
    /\ \A s \in Sweeps : pending[s] \subseteq record
    /\ \A u \in Uploaders, d \in Decisions : upload[u][d] # "idle" => d \in record

\* d's object is in the bucket, or the application has been wiped since.
Stored(d) == d \in object \/ retention_wiped[AppOf[d]]

\* An uploader that is about to set the flag has stored the object.
MarkHasObject ==
    \A u \in Uploaders, d \in Decisions : upload[u][d] = "mark" => Stored(d)

\* A purge deletes only objects of wiped applications.
KeysAreWiped == \A d \in keys : retention_wiped[AppOf[d]]

\* The inductive invariant.
ArchiveInv ==
    /\ ArchiveTypeOK
    /\ WorkHasRecord
    /\ MarkHasObject
    /\ KeysAreWiped
    /\ UploadedHasObject

\* Nothing in the retention component takes back a wipe.
LEMMA WipesAreFinal ==
    ASSUME [Next]_vars, NEW a \in Applications, retention_wiped[a]
    PROVE  retention_wiped'[a]
  BY DEF Next, Tick, WipeBatch, CommitBatch, Submit,
         ErasureReads, ErasureRejected,
         ErasureCommits, ErasureFails,
         WithdrawConsent, appVars, vars

-----------------------------------------------------------------------------
\* The initial state has the types of ArchiveTypeOK.
LEMMA ArchiveTypeInit == ArchiveInit => ArchiveTypeOK
<1> SUFFICES ASSUME ArchiveInit
             PROVE  ArchiveTypeOK
  OBVIOUS
<1>1. upload \in [Uploaders -> [Decisions -> {"idle", "put", "mark"}]]
  BY DEF ArchiveInit
<1>2. stage \in [Decisions -> Stages]
  BY DEF ArchiveInit, Stages
<1>3. pending \in [Sweeps -> SUBSET Decisions]
  BY DEF ArchiveInit
<1>4. encrypts \in BOOLEAN
  BY LibrariesType DEF ArchiveInit
<1> QED
  BY <1>1, <1>2, <1>3, <1>4 DEF ArchiveInit, ArchiveTypeOK

\* Every step of the writer, the uploaders and the purge keeps the types.
LEMMA ArchiveTypeStep == ArchiveTypeOK /\ [ArchiveNext]_archiveVars => ArchiveTypeOK'
<1> SUFFICES ASSUME ArchiveTypeOK, [ArchiveNext]_archiveVars
             PROVE  ArchiveTypeOK'
  OBVIOUS
<1> USE DEF ArchiveTypeOK, Stages, Uploaders, Outage, vars, writerVars,
            uploadVars, purgeVars
<1>1. CASE Next /\ UNCHANGED auditVars
  BY <1>1 DEF auditVars
<1>2. ASSUME NEW d \in Decisions, Write(d)
      PROVE  ArchiveTypeOK'
  BY <1>2 DEF Write, PipelineDecides, WriteAuditRecord, WriteRaises,
              ScheduleAndRespond, WriterDies
<1>3. ASSUME NEW d \in Decisions, TaskStarts(d)
      PROVE  ArchiveTypeOK'
  BY <1>3 DEF TaskStarts
<1>4. ASSUME NEW s \in Sweeps, Sweep(s)
      PROVE  ArchiveTypeOK'
  BY <1>4 DEF Sweep, SweepStarts, SweepSkips, SweepUploads, NotUploaded
<1>5. ASSUME NEW s \in Sweeps, SweepDies(s)
      PROVE  ArchiveTypeOK'
  BY <1>5 DEF SweepDies
<1>6. ASSUME NEW u \in Uploaders, NEW d \in Decisions, Upload(u, d)
      PROVE  ArchiveTypeOK'
  BY <1>6 DEF Upload, EncryptionRaises, UploadToMinio, MarkUploaded
<1>7. ASSUME NEW u \in Uploaders, NEW d \in Decisions, UploadFails(u, d)
      PROVE  ArchiveTypeOK'
  BY <1>7 DEF UploadFails
<1>8. CASE Purge
  <2>1. ASSUME NEW apps \in SUBSET Applications, PurgeStarts(apps)
        PROVE  ArchiveTypeOK'
    BY <2>1 DEF PurgeStarts, KeysOf
  <2>2. ASSUME NEW d \in Decisions, RemoveObject(d)
        PROVE  ArchiveTypeOK'
    BY <2>2 DEF RemoveObject
  <2>3. ASSUME NEW d \in Decisions, RemoveFails(d)
        PROVE  ArchiveTypeOK'
    BY <2>3 DEF RemoveFails
  <2>4. CASE PurgeReturns
    BY <2>4 DEF PurgeReturns
  <2>5. CASE PurgeDies
    BY <2>5 DEF PurgeDies
  <2>6. ASSUME NEW apps \in SUBSET Applications, PurgeWithoutClient(apps)
        PROVE  ArchiveTypeOK'
    BY <2>6 DEF PurgeWithoutClient
  <2> QED
    BY <1>8, <2>1, <2>2, <2>3, <2>4, <2>5, <2>6 DEF Purge
<1>9. CASE UNCHANGED archiveVars
  BY <1>9 DEF archiveVars, vars, auditVars
<1> QED
  BY <1>1, <1>2, <1>3, <1>4, <1>5, <1>6, <1>7, <1>8, <1>9 DEF ArchiveNext

\* Type correctness of the audit trail's state in every reachable state.
THEOREM ArchiveTypeCorrect == ArchiveSpec => []ArchiveTypeOK
  BY ArchiveTypeInit, ArchiveTypeStep, PTL DEF ArchiveSpec

-----------------------------------------------------------------------------
\* The inductive invariant holds initially.
LEMMA ArchiveInvInit == ArchiveInit => ArchiveInv
  BY ArchiveTypeInit DEF ArchiveInit, ArchiveInv, WorkHasRecord, MarkHasObject, KeysAreWiped,
                  UploadedHasObject, Uploaders

\* Every step keeps the inductive invariant.
LEMMA ArchiveInvStep == ArchiveInv /\ [ArchiveNext]_archiveVars => ArchiveInv'
<1> SUFFICES ASSUME ArchiveInv, [ArchiveNext]_archiveVars
             PROVE  ArchiveInv'
  OBVIOUS
<1>0. ArchiveTypeOK /\ ArchiveTypeOK'
  BY ArchiveTypeStep DEF ArchiveInv
<1> USE <1>0, AppOfType DEF ArchiveInv
<1>1. CASE Next /\ UNCHANGED auditVars
  <2>1. \A a \in Applications : retention_wiped[a] => retention_wiped'[a]
    BY <1>1, WipesAreFinal
  <2> QED
    BY <1>1, <2>1 DEF auditVars, WorkHasRecord, MarkHasObject, Stored,
                      KeysAreWiped, UploadedHasObject, ArchiveTypeOK
<1>2. ASSUME NEW d \in Decisions, Write(d)
      PROVE  ArchiveInv'
  <2>1. /\ UNCHANGED <<object, uploaded, upload, pending, keys, retention_wiped>>
        /\ record \subseteq record'
    BY <1>2 DEF Write, PipelineDecides, WriteAuditRecord, WriteRaises,
                ScheduleAndRespond, WriterDies, vars, uploadVars,
                purgeVars
  <2>2. /\ \A c \in Decisions : stage'[c] \in {"committed", "responded"} => c \in record'
        /\ task' \subseteq record'
    BY <1>2 DEF Write, PipelineDecides, WriteAuditRecord, WriteRaises,
                ScheduleAndRespond, WriterDies, uploadVars, WorkHasRecord, ArchiveTypeOK
  <2>3. WorkHasRecord'
    BY <2>1, <2>2 DEF WorkHasRecord
  <2>4. MarkHasObject' /\ KeysAreWiped' /\ UploadedHasObject'
    BY <2>1 DEF MarkHasObject, Stored, KeysAreWiped, UploadedHasObject
  <2> QED
    BY <2>3, <2>4
<1>3. ASSUME NEW d \in Decisions, TaskStarts(d)
      PROVE  ArchiveInv'
  BY <1>3 DEF TaskStarts, vars, writerVars, purgeVars, WorkHasRecord,
              MarkHasObject, Stored, KeysAreWiped, UploadedHasObject, ArchiveTypeOK,
              Uploaders
<1>4. ASSUME NEW s \in Sweeps, Sweep(s)
      PROVE  ArchiveInv'
  <2> USE DEF vars, writerVars, purgeVars, WorkHasRecord, MarkHasObject,
              Stored, KeysAreWiped, UploadedHasObject, ArchiveTypeOK
  <2>1. CASE SweepStarts(s)
    BY <2>1 DEF SweepStarts, NotUploaded
  <2>2. ASSUME NEW d \in Decisions, SweepSkips(s, d)
        PROVE  ArchiveInv'
    BY <2>2 DEF SweepSkips
  <2>3. ASSUME NEW d \in Decisions, SweepUploads(s, d)
        PROVE  ArchiveInv'
    BY <2>3 DEF SweepUploads, Uploaders
  <2> QED
    BY <1>4, <2>1, <2>2, <2>3 DEF Sweep
<1>5. ASSUME NEW s \in Sweeps, SweepDies(s)
      PROVE  ArchiveInv'
  BY <1>5 DEF SweepDies, vars, writerVars, purgeVars, WorkHasRecord,
              MarkHasObject, Stored, KeysAreWiped, UploadedHasObject, ArchiveTypeOK,
              Uploaders
<1>6. ASSUME NEW u \in Uploaders, NEW d \in Decisions, Upload(u, d)
      PROVE  ArchiveInv'
  <2>1. CASE UploadToMinio(u, d)
    BY <2>1 DEF UploadToMinio, vars, writerVars, purgeVars,
                WorkHasRecord, MarkHasObject, Stored, KeysAreWiped,
                UploadedHasObject, ArchiveTypeOK
  <2>2. CASE MarkUploaded(u, d)
    BY <2>2 DEF MarkUploaded, vars, writerVars, purgeVars,
                WorkHasRecord, MarkHasObject, Stored, KeysAreWiped,
                UploadedHasObject, ArchiveTypeOK
  <2>3. CASE EncryptionRaises(u, d)
    BY <2>3 DEF EncryptionRaises, vars, writerVars, purgeVars,
                WorkHasRecord, MarkHasObject, Stored, KeysAreWiped,
                UploadedHasObject, ArchiveTypeOK
  <2> QED
    BY <1>6, <2>1, <2>2, <2>3 DEF Upload
<1>7. ASSUME NEW u \in Uploaders, NEW d \in Decisions, UploadFails(u, d)
      PROVE  ArchiveInv'
  BY <1>7 DEF UploadFails, vars, writerVars, purgeVars,
              WorkHasRecord, MarkHasObject, Stored, KeysAreWiped,
              UploadedHasObject, ArchiveTypeOK
<1>8. CASE Purge
  <2>1. UNCHANGED <<stage, record, uploaded, task, upload, pending, retention_wiped>>
    BY <1>8 DEF Purge, PurgeStarts, RemoveObject, RemoveFails, PurgeReturns,
                PurgeWithoutClient, PurgeDies, vars, writerVars, uploadVars
  <2>2. /\ object' \subseteq object
        /\ \A d \in object \ object' : retention_wiped[AppOf[d]]
    BY <1>8 DEF Purge, PurgeStarts, RemoveObject, RemoveFails, PurgeReturns,
                PurgeWithoutClient, PurgeDies, KeysAreWiped
  <2>3. \A d \in keys' : retention_wiped[AppOf[d]]
    BY <1>8 DEF Purge, PurgeStarts, RemoveObject, RemoveFails, PurgeReturns,
                PurgeWithoutClient, PurgeDies, KeysAreWiped, KeysOf
  <2> QED
    BY <2>1, <2>2, <2>3 DEF WorkHasRecord, MarkHasObject, Stored,
                            KeysAreWiped, UploadedHasObject
<1>9. CASE UNCHANGED archiveVars
  BY <1>9 DEF archiveVars, vars, auditVars, WorkHasRecord, MarkHasObject, Stored, KeysAreWiped,
              UploadedHasObject
<1> QED
  BY <1>1, <1>2, <1>3, <1>4, <1>5, <1>6, <1>7, <1>8, <1>9 DEF ArchiveNext

\* The inductive invariant holds in every reachable state.
LEMMA ArchiveInvariance == ArchiveSpec => []ArchiveInv
  BY ArchiveInvInit, ArchiveInvStep, PTL DEF ArchiveSpec

\* ADR-003 for any number of decisions and uploaders: nothing of a decision is
\* visible outside before its audit record is durable.
THEOREM AuditFirst == ArchiveSpec => []AuditBeforeResponse
<1>1. ArchiveInv => AuditBeforeResponse
  BY DEF ArchiveInv, WorkHasRecord, AuditBeforeResponse
<1> QED
  BY <1>1, ArchiveInvariance, PTL

\* payload_s3_uploaded tells the truth, whatever uploads, failures, wipes and
\* purges overlap.
THEOREM UploadedTruthful == ArchiveSpec => []UploadedHasObject
<1>1. ArchiveInv => UploadedHasObject
  BY DEF ArchiveInv
<1> QED
  BY <1>1, ArchiveInvariance, PTL

-----------------------------------------------------------------------------
(***************************************************************************)
(* The purge.  That nothing comes back after it rests on the retention     *)
(* component: a wiped application has no payload (its invariant IInv) and  *)
(* gets none again.                                                        *)
(***************************************************************************)

\* Decision d is through with the bucket: its application is wiped, nothing
\* holds its payload any more, and an object it has is flagged.
Settled(d) == retention_wiped[AppOf[d]] /\ ~OnTheWay(d)

\* A purge's decisions were settled when it began, unless they are on record
\* as unfinished; its keys are the objects it has yet to delete.
PurgeInv ==
    \A d \in Decisions \ unfinished :
        /\ AppOf[d] \in purging \cup (purged \ undeleted) => Settled(d)
        /\ AppOf[d] \in purging /\ d \in object /\ ~purge_errors => d \in keys
        /\ AppOf[d] \in purged \ undeleted => d \notin object

\* A settled decision stays settled, and gets no object: the pipeline and the
\* sweeps find no payload, and nobody else has it.
LEMMA SettledStays ==
    ASSUME ArchiveTypeOK, IInv, [ArchiveNext]_archiveVars, NEW d \in Decisions, Settled(d)
    PROVE  Settled(d)' /\ (d \in object' => d \in object)
<1>1. /\ AppOf[d] \in Applications
      /\ retention_wiped[AppOf[d]]
      /\ retention_wiped'[AppOf[d]]
      /\ ~HasPayload(AppOf[d])
  BY StepOfRetention, WipesAreFinal, AppOfType DEF Settled, IInv, WipeIsComplete, HasPayload
<1>2. /\ stage[d] \notin {"decided", "committed"}
      /\ d \notin task
      /\ \A u \in Uploaders : upload[u][d] = "idle"
      /\ d \in object => d \in uploaded
  BY DEF Settled, OnTheWay
<1> DEFINE Goal == /\ stage'[d] \notin {"decided", "committed"}
                   /\ d \notin task'
                   /\ \A u \in Uploaders : upload'[u][d] = "idle"
                   /\ d \in object' => d \in object
                   /\ d \in uploaded => d \in uploaded'
<1> USE DEF ArchiveTypeOK
<1>3. ASSUME NEW c \in Decisions, Write(c)
      PROVE  Goal
  BY <1>1, <1>2, <1>3 DEF Write, PipelineDecides, WriteAuditRecord, WriteRaises,
              ScheduleAndRespond, WriterDies, uploadVars
<1>4. ASSUME NEW c \in Decisions, TaskStarts(c)
      PROVE  Goal
  BY <1>2, <1>4 DEF TaskStarts, writerVars
<1>5. ASSUME NEW s \in Sweeps, Sweep(s) \/ SweepDies(s)
      PROVE  Goal
  <2> s \in Uploaders
    BY DEF Uploaders
  <2>1. CASE SweepStarts(s)
    BY <1>2, <2>1 DEF SweepStarts, writerVars
  <2>2. ASSUME NEW c \in Decisions, SweepSkips(s, c)
        PROVE  Goal
    BY <1>2, <2>2 DEF SweepSkips, writerVars
  <2>3. ASSUME NEW c \in Decisions, SweepUploads(s, c)
        PROVE  Goal
    BY <1>1, <1>2, <2>3 DEF SweepUploads, writerVars
  <2>4. CASE SweepDies(s)
    BY <1>2, <2>4 DEF SweepDies, writerVars
  <2> QED
    BY <1>5, <2>1, <2>2, <2>3, <2>4 DEF Sweep
<1>6. ASSUME NEW u \in Uploaders, NEW c \in Decisions, Upload(u, c) \/ UploadFails(u, c)
      PROVE  Goal
  BY <1>2, <1>6 DEF Upload, EncryptionRaises, UploadToMinio, MarkUploaded, UploadFails,
                    writerVars
<1>7. ASSUME Purge \/ (Next /\ UNCHANGED auditVars) \/ UNCHANGED archiveVars
      PROVE  Goal
  <2>1. UNCHANGED <<stage, task, upload, uploaded>> /\ object' \subseteq object
    BY <1>7 DEF Purge, PurgeStarts, RemoveObject, RemoveFails, PurgeReturns,
                PurgeWithoutClient, PurgeDies, writerVars, uploadVars, auditVars, archiveVars, vars
  <2> QED
    BY <1>2, <2>1
<1>8. Goal
  <2> HIDE DEF Goal
  <2> QED
    BY <1>3, <1>4, <1>5, <1>6, <1>7 DEF ArchiveNext
<1> QED
  BY <1>1, <1>2, <1>8 DEF Settled, OnTheWay

\* Every step keeps the invariant of the purge.
LEMMA PurgeStep == ArchiveInv /\ IInv /\ PurgeInv /\ [ArchiveNext]_archiveVars => PurgeInv'
<1> SUFFICES ASSUME ArchiveInv, IInv, PurgeInv, [ArchiveNext]_archiveVars,
                    NEW d \in Decisions, d \notin unfinished'
             PROVE  /\ AppOf[d] \in purging' \cup (purged' \ undeleted') => Settled(d)'
                    /\ AppOf[d] \in purging' /\ d \in object' /\ ~purge_errors' => d \in keys'
                    /\ AppOf[d] \in purged' \ undeleted' => d \notin object'
  BY DEF PurgeInv
<1>0. ArchiveTypeOK
  BY DEF ArchiveInv
<1>1. Settled(d) => Settled(d)' /\ (d \in object' => d \in object)
  BY <1>0, SettledStays
<1>2. d \notin unfinished =>
        /\ AppOf[d] \in purging \cup (purged \ undeleted) => Settled(d)
        /\ AppOf[d] \in purging /\ d \in object /\ ~purge_errors => d \in keys
        /\ AppOf[d] \in purged \ undeleted => d \notin object
  BY DEF PurgeInv
<1>3. ASSUME NEW apps \in SUBSET Applications, PurgeStarts(apps)
      PROVE  /\ AppOf[d] \in purging' \cup (purged' \ undeleted') => Settled(d)'
             /\ AppOf[d] \in purging' /\ d \in object' /\ ~purge_errors' => d \in keys'
             /\ AppOf[d] \in purged' \ undeleted' => d \notin object'
  <2>1. /\ purging' = apps
        /\ UNCHANGED <<purged, undeleted, object, uploaded, record>>
        /\ keys' = {c \in record \cap uploaded : AppOf[c] \in apps}
        /\ d \notin unfinished
        /\ AppOf[d] \in apps => ~OnTheWay(d) /\ retention_wiped[AppOf[d]]
    BY <1>3 DEF PurgeStarts, KeysOf, writerVars, uploadVars
  <2>2. AppOf[d] \in apps => Settled(d)
    BY <2>1 DEF Settled
  <2>3. AppOf[d] \in apps /\ d \in object => d \in record \cap uploaded
    BY <2>1 DEF OnTheWay, ArchiveInv, WorkHasRecord
  <2> QED
    BY <1>1, <1>2, <2>1, <2>2, <2>3
<1>4. ASSUME NEW c \in Decisions, RemoveObject(c)
      PROVE  /\ AppOf[d] \in purging' \cup (purged' \ undeleted') => Settled(d)'
             /\ AppOf[d] \in purging' /\ d \in object' /\ ~purge_errors' => d \in keys'
             /\ AppOf[d] \in purged' \ undeleted' => d \notin object'
  BY <1>1, <1>2, <1>4 DEF RemoveObject
<1>5. ASSUME NEW c \in Decisions, RemoveFails(c)
      PROVE  /\ AppOf[d] \in purging' \cup (purged' \ undeleted') => Settled(d)'
             /\ AppOf[d] \in purging' /\ d \in object' /\ ~purge_errors' => d \in keys'
             /\ AppOf[d] \in purged' \ undeleted' => d \notin object'
  BY <1>1, <1>2, <1>5 DEF RemoveFails
<1>6. CASE PurgeReturns
  BY <1>1, <1>2, <1>6 DEF PurgeReturns
<1>7. CASE PurgeDies
  BY <1>1, <1>2, <1>7, <1>0 DEF PurgeDies, ArchiveTypeOK
<1>8. CASE UNCHANGED purgeVars
  BY <1>1, <1>2, <1>8 DEF purgeVars
<1>9. Purge \/ UNCHANGED purgeVars
  BY DEF ArchiveNext, archiveVars, auditVars, purgeVars, Write, Sweep, Upload, PipelineDecides,
         WriteAuditRecord, WriteRaises, ScheduleAndRespond, WriterDies, TaskStarts,
         SweepStarts, SweepSkips, SweepUploads, SweepDies, EncryptionRaises, UploadToMinio,
         MarkUploaded, UploadFails
<1>10. ASSUME NEW apps \in SUBSET Applications, PurgeWithoutClient(apps)
       PROVE  /\ AppOf[d] \in purging' \cup (purged' \ undeleted') => Settled(d)'
              /\ AppOf[d] \in purging' /\ d \in object' /\ ~purge_errors' => d \in keys'
              /\ AppOf[d] \in purged' \ undeleted' => d \notin object'
  BY <1>1, <1>2, <1>10 DEF PurgeWithoutClient
<1> QED
  BY <1>3, <1>4, <1>5, <1>6, <1>7, <1>8, <1>9, <1>10 DEF Purge

\* A purge that had a MinIO client and met no error leaves, and lets back in, only
\* objects of decisions that were on their way to the bucket when it read the
\* flags.
THEOREM PurgeCorrect == ArchiveSpec => []PurgeIsComplete
<1>1. ArchiveInit => PurgeInv
  BY DEF ArchiveInit, PurgeInv
<1>2. PurgeInv => PurgeIsComplete
  BY DEF PurgeInv, PurgeIsComplete
<1>3. ArchiveSpec => []IInv
  BY ArchiveImplementsRetention, Invariance, PTL
<1> QED
  BY <1>1, <1>2, <1>3, PurgeStep, ArchiveInvariance, PTL DEF ArchiveSpec
=============================================================================
