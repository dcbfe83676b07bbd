# ComplianceLoop: TLA+ models, checks and proofs

ComplianceLoop decides NBFC loan applications with a retrieval pipeline and keeps
the evidence that regulation asks for: consent under the DPDP Act, a tamper
evident audit trail, storage limitation, breach notification. This directory
models the parts of the repository that keep state and run concurrently, checks
them with TLC on small instances and proves the main safety results with TLAPS
for every value of the constants.

Paths below are relative to the repository (`src/`).

## 1. Inventory

At this commit the packages `api`, `pipeline`, `scraper`, `retro_eval`,
`calibration`, `notifications`, `demo`, `frontend`, `infra` and `docs` contain
empty files. The code is in `workers`, `dpdp`, `audit`, `security`, `retrieval`,
`models`, `db` and `observability`.

| Component | State it keeps | Operations | Interacts with |
|---|---|---|---|
| Notification outbox (`workers/notification_worker.py`, `models/notification_outbox.py`) | rows PENDING / SENT / FAILED / SUPPRESSED, `retry_count`, `next_retry_at`; messages in the Celery broker | `poll_outbox`, `deliver_notification` and its retries | producers in `dpdp/breach_response.py` and migration 0005; Celery settings in `workers/celery_app.py`; dispatcher (empty) |
| Retention (`dpdp/retention_enforcer.py`) | PII columns, `retention_wiped`, `data_retention_expires_at`, `retention_events` | nightly `_wipe_batch`, `compute_retention_expiry`, `wipe_minio_payloads` | same rows as the data subject requests; audit records; bucket |
| Data subject requests (`dpdp/data_subject_handler.py`) | none of its own | erasure, consent withdrawal, access | applications, `retention_events` |
| Audit writer (`audit/writer.py`) | `audit_records` | commit of the record, dispatch of the upload, abort of the pipeline | pipeline, broker |
| Audit archive (`audit/s3_uploader.py`) | objects in MinIO, `payload_s3_uploaded` | upload, mark, half-hourly sweep | applications' payload, retention wipe |
| Consent (`dpdp/consent_manager.py`, `models/consent_version.py`) | `consent_versions` with a partial unique index | `validate_consent`, `activate_consent_version` | the intake endpoint |
| Breach response (`dpdp/breach_response.py`, `break_glass` in migration 0005) | `breach_flag`, outbox rows, the retro-eval queue | flag, freeze, notify, report | audit records, outbox, Redis |
| Audit verifier and hasher (`audit/verifier.py`, `audit/hasher.py`) | reads only | sign, recompute hash and HMAC, report | secrets, audit records, bucket |
| Secrets and cryptography (`security/`) | `os.environ`, cached keys; secrets in Vault | load, validate, reload, encrypt, decrypt, re-encrypt, sign, hash a PAN | applications' payloads and `pan_hmac`, audit records, data subject requests |
| Retrieval index (`retrieval/index_manager.py`, `retriever.py`) | live and staging index files, in-memory index, Redis channel | build, health check, swap, reload, search | workers that hold the index |
| Chunker (`retrieval/chunker.py`) | none | split text | index build |
| Extraction and embedding (`retrieval/corpus`, `embedder.py`) | none | text in, vectors out | index build |
| Database access (`db/`) | pool, timeouts, transactions | sessions, migrations | all |
| Celery (`workers/celery_app.py`, `queues.py`, `schedules.py`) | queues, Beat schedule | route, acknowledge, limit, schedule | all tasks |
| Observability (`observability/`) | metrics, logs, traces | record | none depends on it |

What is hard here, and hard to test:

* The outbox poll does not mark what it enqueues, Celery retries the same
  deliveries with a counter of its own, workers die and tasks are cut off by time
  limits. At-least-once delivery, the retry budget and the absence of concurrent
  deliveries all hang on one row lock and two early returns.
* An erasure request reads rows without locking them and writes them later, while
  the nightly job works through the same table in batches with `SKIP LOCKED`.
* The audit record, the object in the bucket, the flag that says it is there and
  the payload it is made from live in two systems and are changed by four
  processes, each of which may stop between two calls.
* The active consent notice is switched in a transaction that locks nothing; only
  the unique index and the order in which the ORM flushes protect it.
* A sweep with a limit, and no order, must still get round to every record.
* A breach response commits its flags before it freezes tasks and notifies the
  board; it may fail in between, be repeated, or overlap another, and it reads the
  task queue by position while the queue moves.
* The retrieval index is two files and two attributes; directories are renamed under
  processes that read them, and either side may stop between two operations.
* Processes keep the signing keys they were started with while the keys are rotated.
* Keys come from Vault, from the environment, or from both: a variable that is set, even
  to nothing, keeps Vault's value out, and a worker starts without its secrets.
* Handlers log an exception and go on: in the middle of a row that is being wiped, after
  a delivery was committed as sent, in a purge without a client. What was done so far is
  committed, or reported as done.
* The chunker has two loops with windows, overlaps, a minimum and a flush between
  them; text lost at one of the seams is text no query finds.

What makes each component correct:

* outbox: at-least-once delivery within a budget, duplicates only after failures,
  nothing delivered once a row is settled, everything settled in the end;
* retention and data subject requests: no row marked that holds PII, no wipe without
  expiry or request, successful erasures complete, expired rows wiped in the end;
* audit trail: nothing visible before its record, a truthful upload flag, a purge that
  reports no errors complete, payloads archived in the end;
* consent: one notice in force at most, only notices in force accepted, bounded replay;
* breach response: flags and alerts agree, no record is counted twice, a report means
  that flagging and notices are done;
* index: only checked builds are served, a worker that came up keeps answering, a
  healthy index stays on disk;
* verifier and keys: a valid verdict means an authentic record, and a rotation makes no
  intact record look altered;
* chunker: no text lost but fragments, neighbouring chunks overlap, chunks advance.

`PROJECT.json` lists these hazards line by line, with the properties aimed at them.

## 2. Modules

| Module | Models |
|---|---|
| `NotificationDelivery` | abstract promise of the outbox: a notification is accepted, received any number of times, then settled; SENT only after a receipt, nothing received after it is settled; SENT may still be relabelled FAILED |
| `NotificationOutbox` | the worker, the broker and the faults; implements `NotificationDelivery` |
| `AtomicWipe` | abstract promise of storage limitation: a wipe takes all columns of a row at once, marks it and puts them on record, or breaks off in the row; only when it is due, and nothing brings PII back |
| `RetentionWipe` | ingestion's expiry date, the nightly job, erasure requests, consent withdrawal; implements `AtomicWipe` |
| `AuditArchive` | audit writer, upload task, sweep, purge; **composed** with `RetentionWipe`, which it extends: `ArchiveInit` and `ArchiveNext` have the variables of both, and every retention step is a step of the composition |
| `ConsentVersions` | consent gate and activation of notices |
| `BreachResponse` | `breach_response`, `break_glass`, `break_glass_range`, the scan of the retro-eval queue |
| `IndexService` | abstract promise of the index to those who query it: a worker that is up always has an index and an id map, each checked or forced |
| `IndexSwap` | build, health check, swap, publication, load and query of the retrieval index; implements `IndexService` |
| `AuditVerify` | loading, reload and rotation of the HMAC keys; signing and verification of audit records |
| `Chunker` | `chunk_text`, one loop iteration a step |
| `MC*` | constants of the small instances |
| `*_proofs` | theorems about the module of the same name; those about `RetentionWipe` are the first part of `AuditArchive_proofs`, since the composition rests on them |

### NotificationOutbox

`status`, `retry_count`, `failure_reason` are columns; `due` abstracts
`next_retry_at` to whether it has passed. `msgs[n][r]` counts the broker's messages
for row `n` with `self.request.retries = r`. `phase[n]` is the delivery that holds
the row lock: the transaction of `_deliver_notification_async` keeps it from the
SELECT to the commit, so there is at most one, and a task that waits for it has not
acknowledged its message and may be counted as still queued. The delivery is split
at the points where something can come between: the guards
(`DeliverSkips`, `DeliverExhausted`, `DeliverAttempts`), the arrival of the message
at the recipient (`MessageArrives`), and the commit (`CommitSent`, `CommitFailure`).
The SENT commit frees the lock, but the code after it is inside the same `try`
(`finishing`): it returns (`DeliveryReturns`), or raises (`FailureAfterSent`), and then the
handler of a failed delivery counts the attempt, makes the row FAILED if it was the last,
commits and lets the task retry.
Faults are actions: the worker dies before the commit (message requeued by
`acks_late` and `reject_on_worker_lost`) or after it, the soft time limit or a
failing commit makes the task retry without having counted the attempt, the hard
limit drops the message, the lock times out.
`attempts`, `received`, `interrupted` and `miscounted` are history. `notifications/dispatcher` is
empty; it is assumed to deliver or raise, possibly both.

### RetentionWipe

A batch of the job is one transaction on rows it has locked: one action, over any
rows the query may return (no ORDER BY, LIMIT, rows locked by a committing request
skipped). Wiping a row may raise anywhere in the loop's body, which nulls the columns in order
(`Segments` has what it may have nulled), marks the row and adds the event (`RowsEnd`); the
exception is logged, the loop goes on, and the commit at the end writes what was done to
the row (`CommitBatch`). `unrecorded` is history, the columns nulled in such a row. The read and the commit of an erasure request are two actions; the ORM
writes only the columns that were not NULL when read, which `seenPii` records.
Withdrawal changes a column nothing else in the component reads. Demo rows are left
out: both handlers exclude them in their queries.

`Atomic` maps the component to `AtomicWipe`: the columns, the flag, the columns that the
events of a row report, and `Due`, the rows that have expired or whose owner has asked. The
read of a request, a rejected or failed one and the days that pass are steps in which at
most more rows become due. A row in which the job raised is a wipe that broke off.

### AuditArchive

`stage` is a pipeline run at the audit node, `record` the committed audit records,
`object` the bucket, `uploaded` the flag, `upload[u][d]` the uploader `u` on record
`d`: before the PUT, or between the PUT and the flag. `pending` is the list a sweep
has read, `keys` the list a purge has read; `unfinished` is history, the decisions that were on their way
to the bucket when a purge read its keys. The PUT, the flag, each removal and each
SELECT are separate actions. A failed commit may or may not have made the record
durable. `encrypt_payload` calls `AESGCM.encrypt` with a keyword `aad`, which the library
of `requirements/security.txt` does not have; whether the installed one takes it is a constant of the behaviour (`encrypts`, from
`Libraries`), and without it every upload ends in `EncryptionRaises`. A purge in a process that has no MinIO client returns at once
without an error (`PurgeWithoutClient`; `undeleted` is history). `upload_audit_payload_task`, which the writer dispatches, is not defined in
the repository, so nothing obliges the task to run; nothing calls
`wipe_minio_payloads` either, so a purge may start at any time for any applications
and need never start. Object contents are left out: an upload of a record always
writes the same bytes under the same key.

### ConsentVersions

An activation is three steps: SELECT of the target, SELECT of the active row, flush
and commit. The flush follows SQLAlchemy's unit of work, which is outside the
repository: one object per row and session, a column set back to its loaded value is
not written, UPDATEs go in primary key order. Versions are numbers in that order. The
index is checked at each UPDATE. The gate is two steps, the checks on the clock and
the SELECT of the active version. Its docstring speaks of a Redis cache; the code has
none, and the model has none.

### BreachResponse

A call is the transaction of `break_glass` (its UPDATE and its commit are two actions,
since another call may come between: rows it has flagged are waited for, and then no
longer satisfy the UPDATE's condition), the scan, one action per LINDEX, one per
revocation, and the board's notice. The queue is a Redis list: producers push on the
left, where the scan counts from, workers pop on the right. `target` is the
`application_id`, `Range` standing for none. An entry of the list the code can read is
one with `kwargs` and `id` at its top level (`Flat`); Celery's own entries have neither, so
the instance has one task that matches and one that does not, and no property is about the
freeze itself. Failures are those the code distinguishes: an entry that cannot be read is
passed over (`ScanSkips`), Redis or the broker failing otherwise ends the freeze and not the
call (`FreezeRaises`), anything else ends the call (`CallFails`). `before` is history. The alert and the notice are rows of the outbox: what becomes
of them is `NotificationOutbox`.

### IndexSwap

The three directories hold two files each, `memory` is what a worker answers from,
`loaded` the local variables of `load`. Every file operation, rename and assignment is
an action, and the maintainer, a worker or a connection may stop between any two. A
build is known by its number; `Passes` says which pairs of index and id map pass the
golden test set, so a mixture of two builds may pass or fail by choice of the constant.
One maintainer at a time is assumed, as in the module's usage notes.

`Service` maps it to `IndexService`, which sees the two attributes of the workers, the
queries and which builds were forced, and nothing of directories, signals, loads and the
maintainer. The service does not promise that the two attributes belong together: the code
does not keep that (`index_query_consistent`).

### AuditVerify

SHA-256 and HMAC are free constructors: equal results mean equal arguments. `environ`
and `cached` are the two places a process keeps its keys in, `own` the variables that its
own environment sets to something that is no key: empty, as `.env.example` has
`SERVER_HMAC_KEY_PREVIOUS`, or malformed. Vault's value does not replace it (`Injected`), then or at a reload.
A start may not reach Vault: the handler raises, Celery logs it, and the worker runs without
keys (`ProcessStarts`), so that it can neither sign nor check an HMAC (`VerifyRaises`) until a reload
brings them. A verification is two
actions, the SELECT of the row and everything after the download. `Upload` lets the
sweep send what the decisions table holds by then, and `Alter` changes a row or spoils
an object outside the program: what the verifier exists to notice. `scripts/rotate_secrets.sh`
is empty, so the operator is external: he rotates again only when every running
process has been restarted with the current key, by his list (`refreshed`).

### Chunker

A text is the sequence of its paragraphs: the tokens of their sentences, and whether a
paragraph has at most 20 characters. `Split` is `_split_into_paragraphs` with the sentences
of what it keeps: short paragraphs are dropped, and the rest is where its paragraphs end and
how many tokens stand before each sentence. A chunk is a pair of positions. The lists of the
code always hold consecutive elements, so
they are pairs too. The overlap, a backward loop in the code, is the position its loop
ends at (`Keeps`). Two simplifications: token counts are additive over sentences, which
holds for the sums the code takes and nearly for its counts of joined text, and a blank
line between paragraphs counts `Joint` tokens. `TextsSplit`, that a split text is in order and complete, is
an assumption that TLC evaluates for all texts of the instance. `SizesOrdered` (minimum at most the overlap, overlap at most
the size) holds for the defaults, and no caller passes others. Section hints
and character offsets are left out.

## 3. Runs

Type correctness is a theorem of every module and no run checks it. So are
`HashPassedMeansCompared` and `UpMeansServing`, which `ImplementsService` contains.

Every run's bounds are in its cfg. A bound stands in a guard or a constant and is
named in the module (`MaxQueued`, `MaxFaults`, `MaxTime`, `MaxErrors`, `MaxOutages`, `MaxKeys`,
`MaxAltered`, `MaxSignals`, `MaxSentences`, `TokenCounts`).

| Run | Instance | Shows |
|---|---|---|
| `outbox` | two rows, the younger with `max_retries = 0`, two messages per row in the broker at a poll, two Celery retries, two faults, poll batch 1 | attempts are accounted for and within budget, no duplicate without a failure or an interruption, FAILED means exhausted, nothing is delivered once a row is settled and none is opened again, the promise is implemented, every accepted notification is settled |
| `retention` | two applications of one applicant, two erasure requests of his, two PII columns, batch 1, one batch that raises, three days | marked rows are empty, what is nulled is on record unless the job raised in the row, wipes are justified; successful erasures leave nothing; `AtomicWipe` is implemented; expired rows are wiped |
| `audit` | two decisions of one application, one erasure request, a sweep with limit 2, a task, a purge, one outage, both kinds of library | nothing visible before the record is durable; the flag tells the truth; a purge with a client and without errors leaves only what was on its way |
| `consent` | three versions, two activations, two requests, validity and skew one unit, four instants | one active version at most, serial activations keep one, the gate accepts only what was in force, bounded replay |
| `breach` | two calls for any of two applications or a range, three records, one task of each application, one of them readable for the scan, one failure | flags have alerts, every flagged record is counted once, a report means flagged and notified |
| `index` | four builds, one worker, one query, one pending signal, two faults | only checked builds answer, `IndexService` is implemented, checked swaps keep a healthy index, signals take effect |
| `verify` | two processes with any variables of their own, one record, three keys, one alteration, Vault in use and reached or not | valid means authentic, the overlap is enough |
| `chunker` | all texts of up to five sentences of 1, 2, 3 or 6 tokens, a paragraph of one token being short; size 5, overlap 3, minimum 3 | only short paragraphs, and runs shorter than the minimum between large ones, are lost; neighbours overlap; chunks advance |
| `audit_starvation` | two applications, sweep limit 1 | violated: records that cannot be uploaded fill the sweep |
| `consent_takes_effect` | two activations | violated: an activation returns and its version is not active |
| `index_query_consistent` | no faults | violated: a worker that starts while a swap renames the directories reads the index before and the id map after, and answers from the mixture |
| `verify_reload` | as `verify` | violated: a reload after a rotation leaves the process with its old key |

Why the bounds are enough. The actors of one row interact only through that row,
the batch limits and the bucket, so two rows with a limit of one exhibit every
competition for a batch, and two messages per row, which retries and crashes add to, every
race for its lock. A row with zero retries is the degenerate case of the budget. Two faults show
a failure during the recovery from a failure. Three versions let two activations race
for different targets on either side of the active key. Two calls of `breach_response`
show overlap and repetition, two records of one application a call that finds some of
its records flagged already, and a task of either application suffices for pushes and
pops to shift the positions of the scan. Four
builds are the initial one, two that succeed it and one that fails its check; three
keys are the signing key, its successor and the one after, when the overlap of the
first is over. Five sentences let a run of paragraphs, a large paragraph with two windows
and another run follow one another; a sentence of six tokens is larger than a chunk, three
are a window that overshoots, and a paragraph of two is kept by the split and too small for a chunk.
`consent`, `verify` and `breach` reduce by the symmetry of calls,
requests and processes (their properties are invariants); versions are ordered and are
not permuted. Deadlock is not checked: with finitely many rows, requests, calls, sentences
and instants every instance comes to rest.

Fairness.
* Outbox: weak fairness of the poll (Beat, every minute, `workers/schedules.py`), of
  each row's delivery (workers consume the queue; the dispatcher call is cut off by
  the time limits) and of the clock. None for faults, for the arrival of a message or
  for producers.
* Retention: weak fairness of the nightly batch, which does not raise for ever
  (`MaxErrors`); the job loops until a batch is empty, and a lock held by a request lasts as long as its transaction.
* Audit: weak fairness of the wipe, of each sweep and its uploads (every 30 minutes),
  of a purge once started. None for the upload task or for starting a purge.
* Index: weak fairness of the threads of a worker (a load, the listener, a query once
  begun). None for the maintainer.
* The schedule names the wipe and the sweep in `workers/schedules.py` (129-143); the
  list of task modules in `workers/celery_app.py` (134-143) still has both commented
  out. The fairness is that of the schedule.

### Where code and documentation disagree

The four `violation` runs correspond to the entries under "findings" in
`PROJECT.json`: they take several actors and an order nobody would test. The others have no
run, since reading the line shows them; the models do what the code does.

Outbox, retention, audit and consent
* `except Exception` also covers the code after the SENT commit
  (`workers/notification_worker.py:236-259`): when that raises, a delivered notification is counted as
  a failure and may become FAILED, although "else: remains PENDING for next poll cycle" (`:270`) is all the
  handler has in mind; `SettledIsFinal`, `AttemptsAccounted` and `NotificationDelivery` say so;
* an interrupted attempt is not counted, so `max_retries`, "Maximum delivery attempts
  before marking FAILED" (`models/notification_outbox.py:177`), does not bound the attempts
  (`workers/notification_worker.py:261`); `AttemptsWithinBudget` counts interruptions apart;
* a stale message for a FAILED row overwrites `failure_reason`, which is commented as
  the last delivery error (`workers/notification_worker.py:209`);
* the Celery retry attempts a row before `next_retry_at` (`:160`);
* `retention_days = 0` selects the default period (`dpdp/retention_enforcer.py:365`), where a test
  expects immediate expiry (`dpdp/tests/test_retention_enforcer.py:62`);
* an exception in the middle of a row leaves it half wiped, or wiped and marked without its event, and the batch
  commits it (`retention_enforcer.py:250-260`); "Continue with next application" (`:257`) does not undo it.
  `WipeIsComplete` has the exception, and `EventuallyWiped` that the next batch finishes the row;
* `encrypt(..., aad=None)` (`security/encryption.py:144`, and `:199`, `:272`, `:284`) uses a parameter name that
  `cryptography` calls `associated_data`: the call raises, `upload_audit_payload` returns False (`audit/s3_uploader.py:130`), and
  nothing is ever archived, encrypted or decrypted. With `Libraries = {FALSE}`, `ArchivedOrWiped` fails in
  every behaviour that commits a record and keeps its payload; `audit_starvation` takes the library that works and shows the second way it fails.
  The verifier, which cannot decrypt, then checks HMACs only;
* `wipe_minio_payloads` returns `error_count` 0 without deleting anything when the client is not installed
  (`retention_enforcer.py:333`), as in the API (`requirements/api.txt`);
* two overlapping erasures report the same columns as wiped (`data_subject_handler.py:231`);
* a lone activation may fail on the unique index, because the flush writes rows in key
  order and may set the new one before it clears the old (`consent_manager.py:286`); the
  docstring's only error is an unknown version (`:251`);
* `superseded_at` of a version that becomes active again is not cleared (`consent_manager.py:280`);
* `security/encryption.py:28` says the MinIO object is deleted on a wipe, and nothing calls the function that does it;
* `models/audit_record.py:59` names `breach_flag` as the only mutation of an audit record, and the uploader sets `payload_s3_uploaded`.

* `wipe_minio_payloads`, "Delete MinIO encrypted payload objects for wiped applications"
  (`retention_enforcer.py:269`), selects by `payload_s3_uploaded`: an object that is stored and not yet marked
  survives a call without errors (`:311`); `PurgeIsComplete` says that these, and uploads under way, are the only ones.

Breach response
* Celery's messages carry `id` in their headers and the arguments in an encoded body, not
  `kwargs` and `id` at the top level, so with that envelope `Flat` is empty and nothing is
  frozen (`dpdp/breach_response.py:287`), where the docstring says "Freezes pending retro-eval
  Celery tasks for affected records" (`:100`);
* `break_glass_range` raises as soon as a record is in the range: `records_flagged` in
  its inner SELECT is both a column and an output parameter (migration 0005, line 186);
* a call with a time range freezes nothing (`breach_response.py:290`), and a repeated call queues
  another alert and reports 0 records; a call that fails after its `break_glass` reports nothing, so the
  reports of all calls need not add up to the records flagged;
* a task pushed during the scan shifts the list: the scan reads one entry twice and counts
  it twice as frozen, and does not reach the last one (`:283`);
* a revocation lives in the memory of the workers that run at the time (`:300`).

Index
* a failed health check leaves staging as it is (`retrieval/index_manager.py:29`);
* workers do not "reload on next request" when the signal is lost (`:406`);
* after an interrupted swap the next one removes the only backup first (`:17`); `SwapKeepsHealthy`
  holds because the checked staging index takes its place;
* without a golden test set the health check is skipped.

Verifier and keys
* `hmac_check_passed` is reported true when the hash check fails first (`audit/verifier.py:167`, `:60`);
* `verify_by_application_id` leaves out records whose verification raises (`:244`), "one per
  pipeline run" (`:219`);
* a record signed with the old key after a rotation can be verified until the next rotation only;
* `reload_secrets` picks up no key (`verify_reload`). An operator who relies on it has processes that sign with
  a key two rotations old, whose records the others report as tampered with; `OverlapIsEnough` is
  therefore about an operator who restarts;
* `.env.example:71` sets `SERVER_HMAC_KEY_PREVIOUS` to nothing, "kept during rotation for verifying old records"
  (`:70`); a process started with that file and `USE_VAULT` never gets Vault's (`secrets_loader.py:260`) and reports
  records signed with the old key as tampered with. `OverlapIsEnough` excepts such processes;
* "Secrets load failure is fatal" (`workers/celery_app.py:176`): the handler raises inside a signal, Celery logs the
  exception, and the worker starts without keys, or with keys that did not validate;
* "Secrets are validated at startup" (`secrets_loader.py:11`): with `USE_VAULT` and some keys in the environment, Vault's
  values are validated and the environment's are used (`:260`, `:266`);
* the PAN key is to differ from the signing key, and both checks compare the hex strings
  (`secrets_loader.py:190`, `security/pan_handler.py:101`): one key written in two cases passes;
* the cached AES key is not cleared by a reload (`security/encryption.py:94`).

Chunker
* "Maximum tokens per chunk" (`retrieval/chunker.py:169`) is where a window closes, after the element that
  fills it, and a window may begin with an overlap that is larger than asked for; a sentence longer
  than a chunk is a chunk by itself. "No chunk should significantly exceed chunk_size_tokens", a test says, and allows
  1.2 times the size (`retrieval/tests/test_chunker.py:125`);
* "ensuring it can be retrieved" (`:11`): the embedding model reads 512 tokens and cuts the rest silently
  (`retrieval/embedder.py:142`), so a sentence at the end of a chunk that overshoots may be embedded nowhere;
* a large paragraph shares no overlap with its neighbours, and the last chunk may consist of the overlap alone;
* a text below the minimum yields no chunk, as the docstring has it ("Empty if text is too short"), where a test
  expects one (`retrieval/tests/test_chunker.py:82-85`);
* paragraphs of up to 20 characters are dropped before the windows are made (`:398`), headings among them;
* offsets are those of the first occurrence of the text (`:296`), not of the chunk's.

## 4. Proofs

All theorems are about `Spec` of the module (`ArchiveSpec` for the audit archive), for any sets and any bounds that satisfy
the module's ASSUMEs (types of the constants; a positive batch size and sweep limit;
`payload_encrypted` is a PII column; names of actors are distinct). Each follows the
same course: `Init => IInv`, `IInv /\ [Next]_vars => IInv'`, `IInv => P`, then PTL.

* **NotificationOutbox.** `AttemptsWithinBudget` alone is not inductive: nothing in
  it says that the delivery in flight has a retry left. `IInv` adds that a delivery
  in flight belongs to a PENDING row with retries left (`InFlightIsPending`), that one
  which has committed belongs to a SENT row and raises once at most (`FinishingIsSent`), that
  `retry_count` stays within `max_retries`, strictly for SENT rows
  (`RetriesWithinBudget`), that receipts follow attempts
  (`ReceiptsFollowAttempts`) and that no message names a row that does not exist
  (`MessagesNameRows`). From it: `TypeCorrect`, `AccountingCorrect`,
  `BudgetCorrect`, `DuplicatesCorrect`, `FailedCorrect`, `SettledCorrect`, and the refinement
  `OutboxImplementsPromise`, step by step in `PromiseStep`.
* **RetentionWipe.** An erasure writes what it read. The argument is that the read
  stays an upper bound of the row, because columns are only ever emptied
  (`ReadsCover`); with `PiiWasCollected` and `FreshIsEmpty` this is inductive.
  From it: `WipeCorrect`, `JustifiedCorrect`, `ErasureCorrect`.
  The refinement `RetentionImplementsAtomicWipe` is the statement that reading first and
  writing later is harmless. A commit writes NULL to the columns of its read only, and its event names them
  all; by `ReadsCover` that is every column the row still holds, and what it names beyond, columns another
  wipe emptied in between, is on record already, so it is an atomic wipe of the same
  rows (lemma `WipesTheseRows`). A batch wipes its recorded rows and breaks off in the others. Every other step but a submission changes `Due` at
  most, and `Due` only grows (lemma `OnlyDueChanges`).
* **AuditArchive.** First the composition: `ArchiveImplementsRetention` is
  `ArchiveSpec => Spec`, since a step of writer, uploaders or purge leaves the retention
  variables alone; so everything proved of `RetentionWipe`, its inductive invariant and its
  refinement included, holds in the composition. Then `WorkHasRecord`: everything downstream
  of the audit node has a durable record. `MarkHasObject`: an uploader about to set the flag
  has stored the object, or the application was wiped since. `KeysAreWiped`: a purge deletes only
  for wiped applications, and wipes are final (lemma `WipesAreFinal`). From it:
  `AuditFirst`, `UploadedTruthful`. `PurgeCorrect` takes from the retention component that
  a wiped application has no payload and gets none; so a decision that is through with the bucket
  stays so (lemma `SettledStays`), and a purge's keys are the objects left to it (`PurgeInv`).
* **ConsentVersions.** At most one version is active whatever was read, because the
  index decides (`CommitKeepsOne`); a transaction that ran alone commits on reads
  that are still true (`CommitLeavesOne`). From it: `OneActiveCorrect`,
  `SerialCorrect`, `GateCorrect`, `ReplayCorrect`.

* **BreachResponse.** `AuditInv` is inductive: a call that has not committed
  has counted nothing and alerted nobody, its UPDATE works on rows of its own
  application and on all that were there and unflagged, and whoever is past the commit
  has flagged them; from it `AlertsCorrect`, `CountsCorrect`, `FlaggedCorrect`,
  `NotifiedCorrect`.
* **IndexSwap.** Files in the active directory and on their way to an answer passed the
  check or were forced (`FilesChecked`), a load under way and a query under way have read
  readable files (`LoadsReadable`, `QueriesReadable`), and a checked swap carries a
  healthy index from staging to the active directory (`CheckHolds`). From it:
  `AnswersCorrect`, `ServingCorrect`, the action property `SwapCorrect`, and the refinement
  `IndexImplementsService`: the two assignments at the end of a load are the only steps that give
  a worker a file, and the invariant says the files are readable and checked (`ServiceStep`).
* **AuditVerify.** Signatures are injective (lemmas `ShaInjective`, `HmacInjective`), a
  row's signature was made for the original or is spoilt, hence a match means the
  original (`MatchIsOriginal`). For `OverlapCorrect`: the previous key is one behind the deployed one,
  a running process has no key or one that is at most one rotation behind, and one that was
  restarted with the deployed key and has a key has the previous one too, unless its own
  environment sets that (`ProcessesKeepUp`); so a row is signed with the key deployed at the time or the one before (`RowsSignedInTime`). From it also: `AuthenticCorrect`, `ComparedCorrect`.
* **Chunker.** The properties speak of finished chunks and of what is lost in the end; the
  invariant has to say what the open window owes. `WindowOK`: the window is fresh (it
  starts at the beginning or at a large paragraph and nothing before it is owed) or it begins with
  the overlap of the last chunk, which ends in it (`FreshWindow`, `OverlapWindow`). `Covered`: every
  sentence read so far is in a chunk, in the window, or in a run that is too short.
  `ChunksOK` has the properties of finished chunks. From it: `LossCorrect`, `OverlapCorrect`,
  `AdvanceCorrect`, for all sizes that `SizesOrdered` admits and all texts of which `TextsSplit` holds.
  That it holds of every text is an induction over the text, which the prover cannot do; TLC evaluates it for the texts of the instance.

Only model-checked: the liveness properties (`EventuallySettled`, `EventuallyWiped`,
`SignalTakesEffect`; `ArchivedOrWiped` is refuted), because the prover handles neither fairness nor ENABLED. Facts
that need induction over data, or about RECURSIVE operators, are out of its reach
too; no module here has a RECURSIVE operator.

## 5. Not modelled, and the plan

Done, in this order: outbox, retention, audit archive, consent, index, verifier with its
keys, breach response, chunker, the abstract specifications of retention
and index. Left, the most important first:

1. The composition of `BreachResponse` with `NotificationOutbox`: alerts and notices
   queued by a call are delivered in the end.
2. An abstract specification of the audit trail, records and objects without uploaders,
   and of the consent register as far as the code keeps it.
3. The data subject's access request, which only reads: what it shows while rows are wiped.

Left out for good: PAN hashing and re-encryption, which nothing in the repository calls yet
and whose AES half raises in every call; extraction, embedding and model calls (no state of their own),
cryptographic strength, observability (nothing depends on it), the schema as data,
and the packages whose files are empty. Database connectivity appears as outages of
the components that use it.
