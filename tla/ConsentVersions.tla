--------------------------- MODULE ConsentVersions ---------------------------
(***************************************************************************)
(* The consent gate and the activation of consent notices:                 *)
(* dpdp/consent_manager.py over the table of models/consent_version.py     *)
(* with the partial unique index of migration 0001.                        *)
(*                                                                         *)
(* activate_consent_version is one READ COMMITTED transaction of two       *)
(* SELECTs and a flush, without row locks, so other activations may commit *)
(* between its steps.  What it flushes follows SQLAlchemy's unit of work:  *)
(* a row already loaded is not refreshed by the second SELECT, a column    *)
(* set to the value it was loaded with is not written, and the UPDATEs are *)
(* emitted in primary key order.                                           *)
(***************************************************************************)
EXTENDS Naturals, FiniteSets

CONSTANTS
    Versions,         \* rows of consent_versions, numbered in key order
    Initial,          \* the version that migration 0004 seeds as active
    NoVersion,        \* scalar_one_or_none() = None
    Admins,           \* calls of activate_consent_version
    Posts,            \* POST /v1/applications requests
    Validity,         \* DPDP_CONSENT_VALIDITY_HOURS
    Skew,             \* tolerated clock skew
    MaxTime           \* bound: how far the clock runs

ASSUME VersionsAreNumbers == Versions \subseteq Nat
ASSUME InitialExists == Initial \in Versions
ASSUME NoVersionIsNone == NoVersion \notin Versions
ASSUME TimesType == Validity \in Nat /\ Skew \in Nat /\ MaxTime \in Nat

VARIABLES
    active,           \* versions with is_active
    superseded,       \* versions with superseded_at
    pc,               \* progress of each activation
    goal,             \* new_version
    goalWasActive,    \* new_version.is_active as it was loaded
    current,          \* current_active
    overlapped,       \* history: two activations were ever under way at once
    now,              \* datetime.now()
    gate,             \* progress and result of each validate_consent
    claim,            \* the consent fields of each request
    arrived,          \* time of its validation
    inForce           \* history: versions active at some time during it

activationVars == <<pc, goal, goalWasActive, current, overlapped>>
gateVars == <<gate, claim, arrived>>
vars == <<active, superseded, pc, goal, goalWasActive, current, overlapped,
          now, gate, claim, arrived, inForce>>

Errors == {"DPDP_CONSENT_NOT_GIVEN", "DPDP_CONSENT_TIMESTAMP_FUTURE",
           "DPDP_CONSENT_EXPIRED", "DPDP_NO_ACTIVE_CONSENT_VERSION",
           "DPDP_CONSENT_VERSION_MISMATCH"}

\* given is FALSE for everything that "is not True", such as the string "true".
Claim == [given : BOOLEAN, version : Versions, timestamp : 0..(MaxTime + Skew + 1)]

Init ==
    /\ active = {Initial}
    /\ superseded = {}
    /\ pc = [a \in Admins |-> "idle"]
    /\ goal = [a \in Admins |-> Initial]
    /\ goalWasActive = [a \in Admins |-> FALSE]
    /\ current = [a \in Admins |-> NoVersion]
    /\ overlapped = FALSE
    /\ now = 0
    /\ gate = [p \in Posts |-> "idle"]
    /\ claim = [p \in Posts |-> [given |-> FALSE, version |-> Initial, timestamp |-> 0]]
    /\ arrived = [p \in Posts |-> 0]
    /\ inForce = [p \in Posts |-> {}]

Tick ==
    /\ now < MaxTime
    /\ now' = now + 1
    /\ UNCHANGED <<active, superseded, inForce>>
    /\ UNCHANGED <<activationVars, gateVars>>

-----------------------------------------------------------------------------
(***************************************************************************)
(* activate_consent_version                                                *)
(***************************************************************************)

UnderWay(a) == pc[a] \in {"target", "both"}

\* The first SELECT finds the version to activate.
FindsTarget(a, v) ==
    /\ pc[a] = "idle"
    /\ pc' = [pc EXCEPT ![a] = "target"]
    /\ goal' = [goal EXCEPT ![a] = v]
    /\ goalWasActive' = [goalWasActive EXCEPT ![a] = v \in active]
    /\ overlapped' = (overlapped \/ \E b \in Admins : UnderWay(b))
    /\ UNCHANGED <<active, superseded, current, now, inForce>>
    /\ UNCHANGED gateVars

\* It finds nothing: ValueError.
TargetUnknown(a) ==
    /\ pc[a] = "idle"
    /\ pc' = [pc EXCEPT ![a] = "unknown"]
    /\ UNCHANGED <<active, superseded, goal, goalWasActive, current, overlapped,
                   now, inForce>>
    /\ UNCHANGED gateVars

\* The second SELECT finds the version that is active by now.
FindsCurrent(a) ==
    /\ pc[a] = "target"
    /\ pc' = [pc EXCEPT ![a] = "both"]
    /\ current' = [current EXCEPT ![a] =
                      IF active = {} THEN NoVersion ELSE CHOOSE v \in active : TRUE]
    /\ UNCHANGED <<active, superseded, goal, goalWasActive, overlapped, now, inForce>>
    /\ UNCHANGED gateVars

\* current_active is another row: its is_active = False is flushed.
Replaces(a) == current[a] # NoVersion /\ current[a] # goal[a]

\* is_active = True is flushed for new_version unless it was loaded as True.
SetsActive(a) == ~goalWasActive[a]

Deactivated(a) == IF Replaces(a) THEN active \ {current[a]} ELSE active

\* Mutant: the code deactivates after it activates, so that re-activating the
\* active version deactivates it.
ActivatedThenDeactivated(a) ==
    (active \cup {goal[a]}) \ {current[a]}

Activated(a) == Deactivated(a) \cup (IF SetsActive(a) THEN {goal[a]} ELSE {})

\* Mutant: the migration creates the index without unique = True.
IndexNotUnique(a) == TRUE

\* ix_consent_versions_active: when is_active = True is written, no other row
\* may have it.  The two UPDATEs come in key order.
IndexAllows(a) ==
    SetsActive(a) =>
        (IF Replaces(a) /\ goal[a] < current[a] THEN active ELSE Deactivated(a))
            \subseteq {goal[a]}

ActivationCommits(a) ==
    /\ pc[a] = "both"
    /\ IndexAllows(a)
    /\ pc' = [pc EXCEPT ![a] = "ok"]
    /\ active' = Activated(a)
    /\ superseded' = IF current[a] = NoVersion THEN superseded
                     ELSE superseded \cup {current[a]}
    /\ inForce' = [p \in Posts |->
                      IF gate[p] = "checked" THEN inForce[p] \cup active' ELSE inForce[p]]
    /\ UNCHANGED <<goal, goalWasActive, current, overlapped, now>>
    /\ UNCHANGED gateVars

\* IntegrityError: the transaction is rolled back.
ActivationFails(a) ==
    /\ pc[a] = "both"
    /\ ~IndexAllows(a)
    /\ pc' = [pc EXCEPT ![a] = "failed"]
    /\ UNCHANGED <<active, superseded, goal, goalWasActive, current, overlapped,
                   now, inForce>>
    /\ UNCHANGED gateVars

-----------------------------------------------------------------------------
(***************************************************************************)
(* validate_consent                                                        *)
(***************************************************************************)

\* Mutant: the age is not checked.
ClockErrorUnlimited(c) ==
    IF ~c.given THEN "DPDP_CONSENT_NOT_GIVEN"
    ELSE IF c.timestamp > now + Skew THEN "DPDP_CONSENT_TIMESTAMP_FUTURE"
    ELSE "none"

\* Checks 1 to 3, in this order, at one reading of the clock.
ClockError(c) ==
    IF ~c.given THEN "DPDP_CONSENT_NOT_GIVEN"
    ELSE IF c.timestamp > now + Skew THEN "DPDP_CONSENT_TIMESTAMP_FUTURE"
    ELSE IF c.timestamp + Validity < now THEN "DPDP_CONSENT_EXPIRED"
    ELSE "none"

GateChecks(p, c) ==
    /\ gate[p] = "idle"
    /\ claim' = [claim EXCEPT ![p] = c]
    /\ arrived' = [arrived EXCEPT ![p] = now]
    /\ inForce' = [inForce EXCEPT ![p] = active]
    /\ gate' = [gate EXCEPT ![p] =
                   IF ClockError(c) = "none" THEN "checked" ELSE ClockError(c)]
    /\ UNCHANGED <<active, superseded, now>>
    /\ UNCHANGED activationVars

\* Mutant: the version is looked up in a cache that activation does not clear.
VersionErrorCached(p) ==
    IF claim[p].version \notin active \cup superseded
    THEN "DPDP_CONSENT_VERSION_MISMATCH" ELSE "valid"

\* Check 4: get_active_consent_version and the comparison.
VersionError(p) ==
    IF active = {} THEN "DPDP_NO_ACTIVE_CONSENT_VERSION"
    ELSE IF claim[p].version \notin active THEN "DPDP_CONSENT_VERSION_MISMATCH"
    ELSE "valid"

GateReadsActive(p) ==
    /\ gate[p] = "checked"
    /\ gate' = [gate EXCEPT ![p] = VersionError(p)]
    /\ UNCHANGED <<active, superseded, now, claim, arrived, inForce>>
    /\ UNCHANGED activationVars

-----------------------------------------------------------------------------
Activate(a) ==
    \/ \E v \in Versions : FindsTarget(a, v)
    \/ TargetUnknown(a)
    \/ FindsCurrent(a)
    \/ ActivationCommits(a)
    \/ ActivationFails(a)

Validate(p) ==
    \/ \E c \in Claim : GateChecks(p, c)
    \/ GateReadsActive(p)

Next ==
    \/ Tick
    \/ \E a \in Admins : Activate(a)
    \/ \E p \in Posts : Validate(p)

Spec == Init /\ [][Next]_vars

\* A call that was made runs to its end.
FairSpec ==
    /\ Spec
    /\ \A a \in Admins : WF_vars(FindsCurrent(a) \/ ActivationCommits(a) \/ ActivationFails(a))
    /\ \A p \in Posts : WF_vars(GateReadsActive(p))

-----------------------------------------------------------------------------
(***************************************************************************)
(* Properties                                                              *)
(***************************************************************************)

TypeOK ==
    /\ active \in SUBSET Versions
    /\ superseded \in SUBSET Versions
    /\ pc \in [Admins -> {"idle", "target", "both", "ok", "failed", "unknown"}]
    /\ goal \in [Admins -> Versions]
    /\ goalWasActive \in [Admins -> BOOLEAN]
    /\ current \in [Admins -> Versions \cup {NoVersion}]
    /\ overlapped \in BOOLEAN
    /\ now \in Nat
    /\ gate \in [Posts -> {"idle", "checked", "valid"} \cup Errors]
    /\ claim \in [Posts -> Claim]
    /\ arrived \in [Posts -> Nat]
    /\ inForce \in [Posts -> SUBSET Versions]

\* The column is_active: only one version can be active, whatever activations
\* overlap.
AtMostOneActive == \A v, w \in active : v = w

\* One activation after the other never leaves the gate without a notice, not
\* even when the active version is activated again.
SerialActivationKeepsOne == ~overlapped => active # {}

\* A request passes the gate only with a notice that was in force at some time
\* while it was being validated.
AcceptedWasInForce ==
    \A p \in Posts : gate[p] = "valid" => claim[p].version \in inForce[p]

\* A consent that is presented again is accepted for the validity period and
\* the tolerated skew, and no longer.
ReplayWindowBounded ==
    \A p, q \in Posts :
        /\ gate[p] = "valid" /\ gate[q] = "valid"
        /\ claim[p].timestamp = claim[q].timestamp
        => arrived[p] <= arrived[q] + Validity + Skew

\* activate_consent_version: after calling it, applications must reference the
\* new version; so the call returns with that version active.
ActivationTakesEffect ==
    [][\A a \in Admins :
          pc[a] = "both" /\ pc'[a] = "ok" => goal[a] \in active']_vars
==============================================================================
