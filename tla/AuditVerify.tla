----------------------------- MODULE AuditVerify -----------------------------
(***************************************************************************)
(* The keys that sign audit records, and the verifier: security/           *)
(* secrets_loader.py, security/hmac_utils.py, audit/hasher.py and          *)
(* audit/verifier.py, in several processes that are started, told to       *)
(* reload their secrets and stopped while the key is rotated.              *)
(*                                                                         *)
(* SHA-256 and HMAC are free functions: equal results mean equal inputs.   *)
(* Keys are numbered in the order of their introduction; 0 is no key.      *)
(***************************************************************************)
EXTENDS Naturals

CONSTANTS
    Processes,     \* API servers and workers
    Records,       \* audit records, identified by their decision
    UseVault,      \* USE_VAULT
    NoRecord,      \* not a record
    MaxKeys,       \* bound: keys introduced
    MaxAltered     \* bound: values altered behind the program's back

ASSUME FlagsType == UseVault \in BOOLEAN
ASSUME NoRecordIsNone == NoRecord \notin Records
ASSUME KeysType == MaxKeys \in Nat /\ MaxAltered \in Nat

VARIABLES
    key, previous, \* SERVER_HMAC_KEY and SERVER_HMAC_KEY_PREVIOUS as deployed
    up,            \* the process runs
    own,           \* which of the two its own environment sets, to no key
    environ,       \* the two variables in its os.environ
    cached,        \* _server_hmac_key and _server_hmac_key_previous
    refreshed,     \* the operator's list: the key each process was started with
    row,           \* audit_records
    signedAt,      \* history: the key that was deployed when it was signed
    object,        \* agent outputs in the bucket
    checking,      \* the record a process verifies, and its row as read
    verdict,       \* history: its last VerificationResult, with its inputs
    altered        \* bound: alterations so far

keyVars == <<key, previous>>
processVars == <<up, own, environ, cached, refreshed>>
recordVars == <<row, signedAt, object, altered>>
verifyVars == <<checking, verdict>>
vars == <<key, previous, up, own, environ, cached, refreshed, row, signedAt, object,
          checking, verdict, altered>>

Key == Nat
KeyPair == [current : Key, previous : Key]
NoKeys == [current |-> 0, previous |-> 0]
Settings == SUBSET {"current", "previous"}

\* Agent outputs, and metadata of a decision: as the pipeline produced them, or not.
Contents == {"original", "altered"}
Sha256(c) == <<"sha256", c>>
Hmac(k, hash, meta) == <<k, hash, meta>>

Hashes == {Sha256(c) : c \in Contents}
Hmacs == Key \X Hashes \X Contents
Row == [hash : Hashes, meta : Contents, hmac : Hmacs]
NoRow == [hash |-> Sha256("altered"), meta |-> "altered",
          hmac |-> Hmac(0, Sha256("altered"), "altered")]

\* What verify_by_decision_id could get of the payload.
Payloads == Contents \cup {"none", "unreadable"}

NoCheck == [record |-> NoRecord, row |-> NoRow]
NoVerdict == [record |-> NoRecord, row |-> NoRow, payload |-> "none", is_valid |-> FALSE,
              hash_passed |-> FALSE, hmac_passed |-> FALSE, in_overlap |-> FALSE]

Written == {d \in Records : signedAt[d] # 0}

Init ==
    /\ key = 1
    /\ previous = 0
    /\ up = [p \in Processes |-> FALSE]
    /\ own = [p \in Processes |-> {}]
    /\ environ = [p \in Processes |-> NoKeys]
    /\ cached = [p \in Processes |-> NoKeys]
    /\ refreshed = [p \in Processes |-> 0]
    /\ row = [d \in Records |-> NoRow]
    /\ signedAt = [d \in Records |-> 0]
    /\ object = [d \in Records |-> "none"]
    /\ checking = [p \in Processes |-> NoCheck]
    /\ verdict = [p \in Processes |-> NoVerdict]
    /\ altered = 0

-----------------------------------------------------------------------------
(***************************************************************************)
(* The operator                                                            *)
(***************************************************************************)

\* A new key is deployed and the old one kept as the previous one, once every
\* running process has, by the operator's list, been restarted with the last.
Rotate ==
    /\ key < MaxKeys
    /\ \A p \in Processes : up[p] => refreshed[p] = key
    /\ key' = key + 1
    /\ previous' = key
    /\ UNCHANGED <<processVars, recordVars, verifyVars>>

\* The end of the 90 days.
WindowCloses ==
    /\ previous # 0
    /\ previous' = 0
    /\ UNCHANGED key
    /\ UNCHANGED <<processVars, recordVars, verifyVars>>

-----------------------------------------------------------------------------
(***************************************************************************)
(* secrets_loader.py                                                       *)
(***************************************************************************)

\* What Vault, or without it the environment of a new process, holds.
Deployed == [current |-> key, previous |-> previous]

\* Vault's values go into os.environ where the variable is not there: what is
\* set already stays, also an empty or a malformed value.
Injected(e, set) ==
    [current |-> IF e.current = 0 /\ "current" \notin set
                 THEN Deployed.current ELSE e.current,
     previous |-> IF e.previous = 0 /\ "previous" \notin set
                  THEN Deployed.previous ELSE e.previous]

\* load_secrets at startup, with some variables set by the process's own
\* environment beside Vault: .env.example has SERVER_HMAC_KEY_PREVIOUS= with no
\* value and a SERVER_HMAC_KEY that is no key.  What Vault holds is validated,
\* not what the process will use.  When Vault is not reached the handler
\* raises, and Celery's Signal.send logs that and starts the worker.
ProcessStarts(p, set, reached) ==
    /\ ~up[p]
    /\ set = {} \/ UseVault
    /\ up' = [up EXCEPT ![p] = TRUE]
    /\ own' = [own EXCEPT ![p] = set]
    /\ environ' = [environ EXCEPT ![p] =
                      IF UseVault /\ ~reached THEN NoKeys ELSE Injected(NoKeys, set)]
    /\ cached' = [cached EXCEPT ![p] = NoKeys]
    /\ refreshed' = [refreshed EXCEPT ![p] = key]
    /\ UNCHANGED <<keyVars, recordVars, verifyVars>>

\* reload_secrets; when Vault is not reached it raises with the caches cleared.
Reload(p, reached) ==
    /\ up[p]
    /\ environ' = [environ EXCEPT ![p] =
                      IF UseVault /\ reached THEN Injected(@, own[p]) ELSE @]
    /\ cached' = [cached EXCEPT ![p] = NoKeys]
    /\ UNCHANGED <<up, own, refreshed>>
    /\ UNCHANGED <<keyVars, recordVars, verifyVars>>

ProcessStops(p) ==
    /\ up[p]
    /\ up' = [up EXCEPT ![p] = FALSE]
    /\ own' = [own EXCEPT ![p] = {}]
    /\ environ' = [environ EXCEPT ![p] = NoKeys]
    /\ cached' = [cached EXCEPT ![p] = NoKeys]
    /\ refreshed' = [refreshed EXCEPT ![p] = 0]
    /\ checking' = [checking EXCEPT ![p] = NoCheck]
    /\ verdict' = [verdict EXCEPT ![p] = NoVerdict]
    /\ UNCHANGED <<keyVars, recordVars>>

\* _get_server_hmac_key and _get_previous_hmac_key
ServerKey(p) == IF cached[p].current = 0 THEN environ[p].current ELSE cached[p].current
PreviousKey(p) == IF cached[p].previous = 0 THEN environ[p].previous ELSE cached[p].previous

-----------------------------------------------------------------------------
(***************************************************************************)
(* Writing a record (audit/writer.py) and its payload                      *)
(***************************************************************************)

\* Without a key _load_hmac_key raises and no record is written.
Sign(p, d) ==
    /\ up[p]
    /\ ServerKey(p) # 0
    /\ d \notin Written
    /\ row' = [row EXCEPT ![d] =
                  [hash |-> Sha256("original"), meta |-> "original",
                   hmac |-> Hmac(ServerKey(p), Sha256("original"), "original")]]
    /\ signedAt' = [signedAt EXCEPT ![d] = key]
    /\ cached' = [cached EXCEPT ![p].current = ServerKey(p)]
    /\ UNCHANGED <<up, own, environ, refreshed, object, altered>>
    /\ UNCHANGED <<keyVars, verifyVars>>

\* The writer's task sends the outputs that were hashed, the sweep those that
\* the decisions table holds by then.
Upload(d, c) ==
    /\ d \in Written
    /\ object[d] = "none"
    /\ object' = [object EXCEPT ![d] = c]
    /\ UNCHANGED <<row, signedAt, altered>>
    /\ UNCHANGED <<keyVars, processVars, verifyVars>>

\* Something other than the program changes the row or spoils the object.
Alter(d) ==
    /\ d \in Written
    /\ altered < MaxAltered
    /\ altered' = altered + 1
    /\ \/ /\ \/ row' = [row EXCEPT ![d].hash = Sha256("altered")]
             \/ row' = [row EXCEPT ![d].meta = "altered"]
             \/ row' = [row EXCEPT ![d].hmac = NoRow.hmac]
          /\ UNCHANGED object
       \/ /\ object[d] # "none"
          /\ object' = [object EXCEPT ![d] = "unreadable"]
          /\ UNCHANGED row
    /\ UNCHANGED signedAt
    /\ UNCHANGED <<keyVars, processVars, verifyVars>>

-----------------------------------------------------------------------------
(***************************************************************************)
(* verify_by_decision_id                                                   *)
(***************************************************************************)

VerifyReads(p, d) ==
    /\ up[p]
    /\ checking[p] = NoCheck
    /\ d \in Written
    /\ checking' = [checking EXCEPT ![p] = [record |-> d, row |-> row[d]]]
    /\ verdict' = [verdict EXCEPT ![p] = NoVerdict]
    /\ UNCHANGED <<keyVars, processVars, recordVars>>

\* Mutant: only the current key is tried.
MatchesCurrentOnly(p, hmac, hash, meta) == hmac = Hmac(ServerKey(p), hash, meta)

\* verify_record_hmac: the current key, then the previous one if there is one.
Matches(p, hmac, hash, meta) ==
    \/ hmac = Hmac(ServerKey(p), hash, meta)
    \/ PreviousKey(p) # 0 /\ hmac = Hmac(PreviousKey(p), hash, meta)

\* Mutant: the HMAC of the stored hash is checked and the payload is not.
FullCheckHmacOnly(p, r, payload) ==
    LET ok == Matches(p, r.hmac, r.hash, r.meta)
    IN [is_valid |-> ok, hash_passed |-> TRUE, hmac_passed |-> ok]

\* verify_audit_record_integrity: what its failure reason mentions.
Integrity(p, r, payload) ==
    IF r.hash # Sha256(payload) THEN "hash"
    ELSE IF ~Matches(p, r.hmac, Sha256(payload), r.meta) THEN "hmac"
    ELSE "nothing"

\* _run_full_verification; the flags are read off the failure reason, in which
\* a mismatch of the hash does not mention the HMAC.
FullCheck(p, r, payload) ==
    LET reason == Integrity(p, r, payload)
    IN [is_valid |-> reason = "nothing", hash_passed |-> reason # "hash",
        hmac_passed |-> reason # "hmac"]

\* _run_hmac_only_verification
HmacOnlyCheck(p, r) ==
    LET signed == Matches(p, r.hmac, r.hash, r.meta)
    IN [is_valid |-> signed, hash_passed |-> FALSE, hmac_passed |-> signed]

\* The previous key is still deployed, the process was restarted with the new
\* one and does not set the previous one itself, and the record was signed
\* after the rotation, by whichever process.
InOverlap(p, d) ==
    /\ previous # 0
    /\ refreshed[p] = key
    /\ "previous" \notin own[p]
    /\ signedAt[d] = key

\* The key caches after verify_record_hmac.
KeysUsed(p, r) ==
    [current |-> ServerKey(p),
     previous |-> IF r.hmac = Hmac(ServerKey(p), r.hash, r.meta)
                  THEN cached[p].previous ELSE PreviousKey(p)]

\* The payload is downloaded and decrypted, or that fails for whatever reason,
\* and the row as read is judged.  The HMAC, which a mismatch of the hash makes
\* unnecessary, needs a key.
VerifyConcludes(p, downloaded) ==
    LET d == checking[p].record
        r == checking[p].row
        payload == IF downloaded THEN object[d] ELSE "none"
        result == IF downloaded THEN FullCheck(p, r, payload) ELSE HmacOnlyCheck(p, r)
    IN /\ d # NoRecord
       /\ downloaded => object[d] \in Contents
       /\ ServerKey(p) # 0 \/ (downloaded /\ r.hash # Sha256(payload))
       /\ verdict' = [verdict EXCEPT ![p] =
              [record |-> d, row |-> r, payload |-> payload,
               is_valid |-> result.is_valid, hash_passed |-> result.hash_passed,
               hmac_passed |-> result.hmac_passed, in_overlap |-> InOverlap(p, d)]]
       /\ checking' = [checking EXCEPT ![p] = NoCheck]
       /\ cached' = IF downloaded /\ r.hash # Sha256(payload) THEN cached
                     ELSE [cached EXCEPT ![p] = KeysUsed(p, r)]
       /\ UNCHANGED <<up, own, environ, refreshed>>
       /\ UNCHANGED <<keyVars, recordVars>>

\* There is no key to compute the HMAC with: _load_hmac_key raises.
VerifyRaises(p) ==
    /\ checking[p] # NoCheck
    /\ ServerKey(p) = 0
    /\ checking' = [checking EXCEPT ![p] = NoCheck]
    /\ UNCHANGED verdict
    /\ UNCHANGED <<keyVars, processVars, recordVars>>

-----------------------------------------------------------------------------
Operator == Rotate \/ WindowCloses

Process(p) ==
    \/ \E set \in Settings, reached \in BOOLEAN : ProcessStarts(p, set, reached)
    \/ \E reached \in BOOLEAN : Reload(p, reached)
    \/ ProcessStops(p)

Record(d) ==
    \/ \E p \in Processes : Sign(p, d)
    \/ \E c \in Contents : Upload(d, c)
    \/ Alter(d)

Verify(p) ==
    \/ \E d \in Records : VerifyReads(p, d)
    \/ \E downloaded \in BOOLEAN : VerifyConcludes(p, downloaded)
    \/ VerifyRaises(p)

Next ==
    \/ Operator
    \/ \E p \in Processes : Process(p) \/ Verify(p)
    \/ \E d \in Records : Record(d)

Spec == Init /\ [][Next]_vars

-----------------------------------------------------------------------------
(***************************************************************************)
(* Properties                                                              *)
(***************************************************************************)

TypeOK ==
    /\ key \in Nat \ {0}
    /\ previous \in Key
    /\ up \in [Processes -> BOOLEAN]
    /\ own \in [Processes -> Settings]
    /\ environ \in [Processes -> KeyPair]
    /\ cached \in [Processes -> KeyPair]
    /\ refreshed \in [Processes -> Key]
    /\ row \in [Records -> Row]
    /\ signedAt \in [Records -> Key]
    /\ object \in [Records -> Payloads]
    /\ checking \in [Processes -> [record : Records \cup {NoRecord}, row : Row]]
    /\ verdict \in [Processes ->
          [record : Records \cup {NoRecord}, row : Row, payload : Payloads,
           is_valid : BOOLEAN, hash_passed : BOOLEAN, hmac_passed : BOOLEAN,
           in_overlap : BOOLEAN]]
    /\ altered \in Nat

\* is_valid promises a record "intact and authentic": the row is as it was
\* signed, and so is the payload whenever the verifier could read it.
ValidMeansAuthentic ==
    \A p \in Processes :
        LET v == verdict[p]
        IN v.is_valid => /\ v.row.hash = Sha256("original")
                         /\ v.row.meta = "original"
                         /\ v.payload # "altered"

\* hash_check_passed is reported only for a payload that was read and hashes
\* to the stored value.
HashPassedMeansCompared ==
    \A p \in Processes :
        LET v == verdict[p]
        IN v.hash_passed => v.payload \in Contents /\ v.row.hash = Sha256(v.payload)

Untouched(v) ==
    /\ v.row.hash = Sha256("original")
    /\ v.row.meta = "original"
    /\ v.row.hmac # NoRow.hmac
    /\ v.payload # "altered"

\* The overlap is enough: while the previous key is deployed, no record signed
\* since the rotation is reported as tampered with by a process that was
\* restarted with the new key, although other processes still sign with the old
\* one, or got a key late.  A process whose own environment sets the previous
\* key to nothing, as .env.example does, is excepted: it never gets Vault's.
OverlapIsEnough ==
    \A p \in Processes :
        verdict[p].in_overlap /\ Untouched(verdict[p]) => verdict[p].is_valid

\* What reload_secrets is documented to do, "Called after key rotation ... to
\* pick up new keys without restarting the application": when Vault is reached
\* and the environment the process was started in has no key of its own, the
\* process signs with the deployed key afterwards.
ReloadPicksUpKey ==
    [][\A p \in Processes :
          Reload(p, TRUE) /\ "current" \notin own[p] => ServerKey(p)' = key]_vars
==============================================================================
