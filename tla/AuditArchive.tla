---------------------------- MODULE AuditArchive ----------------------------
(***************************************************************************)
(* The audit trail of a decision and its archive in MinIO, composed with   *)
(* the retention wipes of RetentionWipe:                                   *)
(*                                                                         *)
(*   audit/writer.py          commits the audit record, then dispatches an *)
(*                            upload task, then lets the pipeline respond  *)
(*   audit/s3_uploader.py     uploads the payload object and then sets     *)
(*                            payload_s3_uploaded; a Beat sweep retries    *)
(*                            records that are not uploaded                *)
(*   dpdp/retention_enforcer  wipe_minio_payloads deletes the objects of   *)
(*                            wiped applications                           *)
(*                                                                         *)
(* Every database transaction and every MinIO call is a step of its own;   *)
(* the processes share nothing but the tables and the bucket.              *)
(***************************************************************************)
EXTENDS RetentionWipe

CONSTANTS
    Decisions,        \* pipeline runs that reach the audit node
    AppOf,            \* the application of each decision
    Sweeps,           \* retry_pending_uploads runs that may overlap
    SweepLimit,       \* .limit(100) of the sweep's query
    MaxOutages,       \* bound: failed MinIO or database calls, and crashes
    Libraries         \* whether AESGCM.encrypt of the library takes "aad="

ASSUME AppOfType == AppOf \in [Decisions -> Applications]
ASSUME PayloadIsPii == "payload_encrypted" \in PiiFields
ASSUME SweepLimitPositive == SweepLimit \in Nat \ {0}
ASSUME LibrariesType == Libraries \subseteq BOOLEAN
ASSUME MaxOutagesType == MaxOutages \in Nat
ASSUME TaskIsNoSweep == "task" \notin Sweeps

VARIABLES
    stage,            \* progress of the pipeline run at the audit node
    record,           \* decisions whose audit record is committed
    uploaded,         \* payload_s3_uploaded of those records
    object,           \* decisions whose payload object is in the bucket
    task,             \* decisions with an upload task in the broker
    upload,           \* progress of each uploader on each decision
    pending,          \* records a sweep has selected and not yet processed
    keys,             \* keys wipe_minio_payloads has yet to delete
    purging,          \* applications the running wipe_minio_payloads is for
    purge_errors,     \* its error_count is not 0
    purged,           \* history: applications a call reported no error for
    undeleted,        \* history: those of them no call had a MinIO client for
    unfinished,       \* history: decisions on their way to the bucket at its query
    encrypts,         \* the installed library encrypts for encrypt_payload
    outages           \* bound: failures so far

writerVars == <<stage, record>>
uploadVars == <<uploaded, task, upload, pending>>
purgeVars == <<keys, purging, purge_errors, purged, undeleted, unfinished>>
auditVars == <<stage, record, uploaded, object, task, upload, pending, keys,
               purging, purge_errors, purged, undeleted, unfinished, encrypts, outages>>
archiveVars == <<vars, auditVars>>

Uploaders == Sweeps \cup {"task"}

Stages == {"none", "decided", "committed", "responded", "aborted"}

HasPayload(a) == "payload_encrypted" \in pii[a]

ArchiveInit ==
    /\ Init
    /\ stage = [d \in Decisions |-> "none"]
    /\ record = {}
    /\ uploaded = {}
    /\ object = {}
    /\ task = {}
    /\ upload = [u \in Uploaders |-> [d \in Decisions |-> "idle"]]
    /\ pending = [s \in Sweeps |-> {}]
    /\ keys = {}
    /\ purging = {}
    /\ purge_errors = FALSE
    /\ purged = {}
    /\ undeleted = {}
    /\ unfinished = {}
    /\ encrypts \in Libraries
    /\ outages = 0

\* Something a process waits for fails.
Outage ==
    /\ outages < MaxOutages
    /\ outages' = outages + 1

-----------------------------------------------------------------------------
(***************************************************************************)
(* audit/writer.py: AuditWriter.write_node                                 *)
(***************************************************************************)

\* The pipeline, which needs the payload of the application, has decided.
PipelineDecides(d) ==
    /\ stage[d] = "none"
    /\ HasPayload(AppOf[d])
    /\ stage' = [stage EXCEPT ![d] = "decided"]
    /\ UNCHANGED <<record, object, outages>>
    /\ UNCHANGED <<vars, uploadVars, purgeVars, encrypts>>

\* _write_audit_record commits the record, payload_s3_uploaded = False.
WriteAuditRecord(d) ==
    /\ stage[d] = "decided"
    /\ stage' = [stage EXCEPT ![d] = "committed"]
    /\ record' = record \cup {d}
    /\ UNCHANGED <<object, outages>>
    /\ UNCHANGED <<vars, uploadVars, purgeVars, encrypts>>

\* Mutant: write_node swallows the exception.
WriteRaisesUnnoticed(d) ==
    /\ stage[d] = "decided"
    /\ Outage
    /\ stage' = [stage EXCEPT ![d] = "responded"]
    /\ UNCHANGED <<record, object>>
    /\ UNCHANGED <<vars, uploadVars, purgeVars, encrypts>>

\* The write raises: write_node re-raises and the pipeline aborts.  When the
\* connection breaks during the commit the record may be durable all the same.
WriteRaises(d) ==
    /\ stage[d] = "decided"
    /\ Outage
    /\ stage' = [stage EXCEPT ![d] = "aborted"]
    /\ record' \in {record, record \cup {d}}
    /\ UNCHANGED object
    /\ UNCHANGED <<vars, uploadVars, purgeVars, encrypts>>

\* _schedule_minio_upload, whose failure is only logged, and the response.
ScheduleAndRespond(d) ==
    /\ stage[d] = "committed"
    /\ stage' = [stage EXCEPT ![d] = "responded"]
    /\ task' \in {task, task \cup {d}}
    /\ UNCHANGED <<record, object, uploaded, upload, pending, outages>>
    /\ UNCHANGED <<vars, purgeVars, encrypts>>

\* The server dies between the commit and the response.
WriterDies(d) ==
    /\ stage[d] = "committed"
    /\ Outage
    /\ stage' = [stage EXCEPT ![d] = "aborted"]
    /\ UNCHANGED <<record, object>>
    /\ UNCHANGED <<vars, uploadVars, purgeVars, encrypts>>

-----------------------------------------------------------------------------
(***************************************************************************)
(* audit/s3_uploader.py                                                    *)
(***************************************************************************)

Idle(u) == \A d \in Decisions : upload[u][d] = "idle"

\* A worker takes an upload task.  The task itself is not in the repository;
\* its message carries the arguments of upload_audit_payload.
TaskStarts(d) ==
    /\ d \in task
    /\ upload["task"][d] = "idle"
    /\ task' = task \ {d}
    /\ upload' = [upload EXCEPT !["task"][d] = "put"]
    /\ UNCHANGED <<uploaded, pending, object, outages>>
    /\ UNCHANGED <<vars, writerVars, purgeVars, encrypts>>

NotUploaded == record \ uploaded

\* The sweep's query: LIMIT without ORDER BY, no lock.
SweepStarts(s) ==
    /\ pending[s] = {}
    /\ Idle(s)
    /\ \E b \in SUBSET NotUploaded :
        /\ b # {}
        /\ Cardinality(b) <= SweepLimit
        /\ Cardinality(b) = SweepLimit \/ b = NotUploaded
        /\ pending' = [pending EXCEPT ![s] = b]
    /\ UNCHANGED <<uploaded, task, upload, object, outages>>
    /\ UNCHANGED <<vars, writerVars, purgeVars, encrypts>>

\* The application's payload is NULL: payload_unavailable, next record.
SweepSkips(s, d) ==
    /\ d \in pending[s]
    /\ Idle(s)
    /\ ~HasPayload(AppOf[d])
    /\ pending' = [pending EXCEPT ![s] = @ \ {d}]
    /\ UNCHANGED <<uploaded, task, upload, object, outages>>
    /\ UNCHANGED <<vars, writerVars, purgeVars, encrypts>>

\* Mutant: the flag is set first and the object stored afterwards.
SweepMarksFirst(s, d) ==
    /\ d \in pending[s]
    /\ Idle(s)
    /\ HasPayload(AppOf[d])
    /\ pending' = [pending EXCEPT ![s] = @ \ {d}]
    /\ upload' = [upload EXCEPT ![s][d] = "put"]
    /\ uploaded' = uploaded \cup {d}
    /\ UNCHANGED <<task, object, outages>>
    /\ UNCHANGED <<vars, writerVars, purgeVars, encrypts>>

\* Otherwise upload_audit_payload is called, also when another uploader has
\* finished this record since the query.
SweepUploads(s, d) ==
    /\ d \in pending[s]
    /\ Idle(s)
    /\ HasPayload(AppOf[d])
    /\ pending' = [pending EXCEPT ![s] = @ \ {d}]
    /\ upload' = [upload EXCEPT ![s][d] = "put"]
    /\ UNCHANGED <<uploaded, task, object, outages>>
    /\ UNCHANGED <<vars, writerVars, purgeVars, encrypts>>

\* encrypt_payload passes "aad=" to AESGCM.encrypt.  A library without such a
\* parameter raises a TypeError; upload_audit_payload returns False.
EncryptionRaises(u, d) ==
    /\ upload[u][d] = "put"
    /\ ~encrypts
    /\ upload' = [upload EXCEPT ![u][d] = "idle"]
    /\ UNCHANGED <<uploaded, task, pending, object, outages>>
    /\ UNCHANGED <<vars, writerVars, purgeVars, encrypts>>

\* The payload is encrypted.  _upload_to_minio: put_object under the record's
\* key, which depends on the decision and written_at only, so a repeated upload
\* overwrites.
UploadToMinio(u, d) ==
    /\ upload[u][d] = "put"
    /\ encrypts
    /\ object' = object \cup {d}
    /\ upload' = [upload EXCEPT ![u][d] = "mark"]
    /\ UNCHANGED <<uploaded, task, pending, outages>>
    /\ UNCHANGED <<vars, writerVars, purgeVars, encrypts>>

\* _mark_uploaded, in a transaction of its own.
MarkUploaded(u, d) ==
    /\ upload[u][d] = "mark"
    /\ uploaded' = uploaded \cup {d}
    /\ upload' = [upload EXCEPT ![u][d] = "idle"]
    /\ UNCHANGED <<task, pending, object, outages>>
    /\ UNCHANGED <<vars, writerVars, purgeVars, encrypts>>

\* put_object or the transaction raises: upload_audit_payload returns False.
\* Where only the reply was lost, the object is stored, or the flag set.
UploadFails(u, d) ==
    /\ Outage
    /\ \/ /\ upload[u][d] = "put"
          /\ encrypts
          /\ object' \in {object, object \cup {d}}
          /\ UNCHANGED uploaded
       \/ /\ upload[u][d] = "mark"
          /\ uploaded' \in {uploaded, uploaded \cup {d}}
          /\ UNCHANGED object
    /\ upload' = [upload EXCEPT ![u][d] = "idle"]
    /\ UNCHANGED <<task, pending>>
    /\ UNCHANGED <<vars, writerVars, purgeVars, encrypts>>

\* The worker of a sweep dies; the next one queries again.
SweepDies(s) ==
    /\ pending[s] # {} \/ ~Idle(s)
    /\ Outage
    /\ upload' = [upload EXCEPT ![s] = [d \in Decisions |-> "idle"]]
    /\ pending' = [pending EXCEPT ![s] = {}]
    /\ UNCHANGED <<uploaded, task, object>>
    /\ UNCHANGED <<vars, writerVars, purgeVars, encrypts>>

-----------------------------------------------------------------------------
(***************************************************************************)
(* retention_enforcer.wipe_minio_payloads.  No code of the repository      *)
(* calls it; a caller passes applications that have been wiped.            *)
(***************************************************************************)

\* The query reads payload_s3_uploaded, not the bucket.
KeysOf(apps) == {d \in record \cap uploaded : AppOf[d] \in apps}

\* Not settled one way or the other: the writer or an uploader still has the
\* payload in hand, or the object is stored and the flag not set.
OnTheWay(d) ==
    \/ stage[d] \in {"decided", "committed"}
    \/ d \in task
    \/ \E u \in Uploaders : upload[u][d] # "idle"
    \/ d \in object \ uploaded

PurgeStarts(apps) ==
    /\ purging = {}
    /\ apps # {}
    /\ \A a \in apps : retention_wiped[a]
    /\ keys' = KeysOf(apps)
    /\ purging' = apps
    /\ purge_errors' = FALSE
    /\ unfinished' = unfinished \cup {d \in Decisions : AppOf[d] \in apps /\ OnTheWay(d)}
    /\ UNCHANGED <<purged, undeleted, object, outages>>
    /\ UNCHANGED <<vars, writerVars, uploadVars, encrypts>>

RemoveObject(d) ==
    /\ d \in keys
    /\ object' = object \ {d}
    /\ keys' = keys \ {d}
    /\ UNCHANGED <<purging, purge_errors, purged, undeleted, unfinished, outages>>
    /\ UNCHANGED <<vars, writerVars, uploadVars, encrypts>>

\* Mutant: the error is logged and not counted.
RemoveFailsUncounted(d) ==
    /\ d \in keys
    /\ Outage
    /\ keys' = keys \ {d}
    /\ UNCHANGED <<purging, purge_errors, purged, undeleted, unfinished, object>>
    /\ UNCHANGED <<vars, writerVars, uploadVars, encrypts>>

\* S3Error: counted, and the loop goes on with the next key.
RemoveFails(d) ==
    /\ d \in keys
    /\ Outage
    /\ keys' = keys \ {d}
    /\ purge_errors' = TRUE
    /\ UNCHANGED <<purging, purged, undeleted, unfinished, object>>
    /\ UNCHANGED <<vars, writerVars, uploadVars, encrypts>>

\* The call returns; purged is what its caller may conclude.
PurgeReturns ==
    /\ purging # {}
    /\ keys = {}
    /\ purged' = IF purge_errors THEN purged ELSE purged \cup purging
    /\ undeleted' = IF purge_errors THEN undeleted ELSE undeleted \ purging
    /\ purging' = {}
    /\ UNCHANGED <<keys, purge_errors, unfinished, object, outages>>
    /\ UNCHANGED <<vars, writerVars, uploadVars, encrypts>>

\* Without the MinIO client in the process (the API's requirements do not have
\* it) the import raises: the call returns at once, and reports no error.
PurgeWithoutClient(apps) ==
    /\ purging = {}
    /\ apps # {}
    /\ \A a \in apps : retention_wiped[a]
    /\ undeleted' = undeleted \cup (apps \ purged)
    /\ purged' = purged \cup apps
    /\ UNCHANGED <<keys, purging, purge_errors, unfinished, object, outages>>
    /\ UNCHANGED <<vars, writerVars, uploadVars, encrypts>>

\* Any other exception ends the loop (it is reported as an error), and so does
\* the death of the process.
PurgeDies ==
    /\ purging # {}
    /\ Outage
    /\ keys' = {}
    /\ purging' = {}
    /\ UNCHANGED <<purge_errors, purged, undeleted, unfinished, object>>
    /\ UNCHANGED <<vars, writerVars, uploadVars, encrypts>>

-----------------------------------------------------------------------------
Write(d) ==
    \/ PipelineDecides(d)
    \/ WriteAuditRecord(d)
    \/ WriteRaises(d)
    \/ ScheduleAndRespond(d)
    \/ WriterDies(d)

Sweep(s) ==
    \/ SweepStarts(s)
    \/ \E d \in Decisions : SweepSkips(s, d) \/ SweepUploads(s, d)

Upload(u, d) == EncryptionRaises(u, d) \/ UploadToMinio(u, d) \/ MarkUploaded(u, d)

Purge ==
    \/ \E apps \in SUBSET Applications : PurgeStarts(apps) \/ PurgeWithoutClient(apps)
    \/ \E d \in Decisions : RemoveObject(d) \/ RemoveFails(d)
    \/ PurgeReturns
    \/ PurgeDies

ArchiveNext ==
    \/ Next /\ UNCHANGED auditVars
    \/ \E d \in Decisions : Write(d) \/ TaskStarts(d)
    \/ \E s \in Sweeps : Sweep(s) \/ SweepDies(s)
    \/ \E u \in Uploaders, d \in Decisions : Upload(u, d) \/ UploadFails(u, d)
    \/ Purge

ArchiveSpec == ArchiveInit /\ [][ArchiveNext]_archiveVars

\* Beat starts the sweep every 30 minutes and the wipe every night; a MinIO
\* call or a transaction returns or raises, and a purge that was started goes
\* on.  Nothing obliges one to start, or a worker to know the upload task.
ArchiveFairness ==
    /\ WF_archiveVars(WipeBatch /\ UNCHANGED auditVars)
    /\ \A s \in Sweeps : WF_archiveVars(Sweep(s))
    /\ \A s \in Sweeps, d \in Decisions : WF_archiveVars(Upload(s, d))
    /\ WF_archiveVars(\E d \in Decisions : RemoveObject(d))
    /\ WF_archiveVars(PurgeReturns)

ArchiveFairSpec == ArchiveSpec /\ ArchiveFairness

-----------------------------------------------------------------------------
(***************************************************************************)
(* Properties                                                              *)
(***************************************************************************)

ArchiveTypeOK ==
    /\ stage \in [Decisions -> Stages]
    /\ record \in SUBSET Decisions
    /\ uploaded \in SUBSET Decisions
    /\ object \in SUBSET Decisions
    /\ task \in SUBSET Decisions
    /\ upload \in [Uploaders -> [Decisions -> {"idle", "put", "mark"}]]
    /\ pending \in [Sweeps -> SUBSET Decisions]
    /\ keys \in SUBSET Decisions
    /\ purging \in SUBSET Applications
    /\ purge_errors \in BOOLEAN
    /\ purged \in SUBSET Applications
    /\ undeleted \in SUBSET Applications
    /\ unfinished \in SUBSET Decisions
    /\ encrypts \in BOOLEAN
    /\ outages \in Nat

\* ADR-003: what the world can see of a decision, the response or an object
\* in the bucket, exists only for a decision whose audit record is durable,
\* whichever process died and whichever upload is still running.
AuditBeforeResponse ==
    \A d \in Decisions :
        stage[d] = "responded" \/ d \in object \cup uploaded => d \in record

\* payload_s3_uploaded tells the truth: the object of an uploaded record is in
\* the bucket unless its application was wiped, although the flag and the
\* object are written in two steps by several uploaders and deleted by a third.
UploadedHasObject ==
    \A d \in uploaded : d \in object \/ retention_wiped[AppOf[d]]

\* A record is archived, or its payload is gone before the archive was made:
\* the sweep makes up for lost tasks, failed uploads and dead workers.  What the
\* sweep's docstring claims; it fails in two ways, see README.md.
ArchivedOrWiped ==
    \A d \in Decisions :
        d \in record ~> (d \in uploaded \/ ~HasPayload(AppOf[d]))

\* A call of wipe_minio_payloads that had a MinIO client and reported no error
\* leaves no object of a wiped application, and none comes back later, except
\* for decisions that were on their way to the bucket when it read the flags: a
\* sweep that selected the record before the wipe, or finds it afterwards, does
\* not restore the object.  "No error" from a process without the client means
\* nothing.
PurgeIsComplete ==
    \A d \in Decisions :
        AppOf[d] \in purged \ undeleted /\ d \in object => d \in unfinished
=============================================================================
