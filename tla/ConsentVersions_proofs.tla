----------------------- MODULE ConsentVersions_proofs -----------------------
(***************************************************************************)
(* Proofs about ConsentVersions for any number of versions, overlapping    *)
(* activations and concurrent requests.                                    *)
(***************************************************************************)
EXTENDS ConsentVersions, TLAPS

\* While no two activations have overlapped, the one that is under way is
\* alone and what it has read is still true.
ReadsAreCurrent ==
    ~overlapped =>
        \A a \in Admins :
            /\ \A b \in Admins : UnderWay(a) /\ UnderWay(b) => a = b
            /\ UnderWay(a) => goalWasActive[a] = (goal[a] \in active)
            /\ pc[a] = "both" => current[a] \in active

\* A request that passed the clock checks knows the versions in force since.
ActiveIsInForce == \A p \in Posts : gate[p] = "checked" => active \subseteq inForce[p]

\* A request that passed the clock checks has a fresh timestamp.
TimestampFresh ==
    \A p \in Posts :
        gate[p] \in {"checked", "valid"} =>
            /\ claim[p].timestamp <= arrived[p] + Skew
            /\ arrived[p] <= claim[p].timestamp + Validity

\* The inductive invariant.
IInv ==
    /\ TypeOK
    /\ AtMostOneActive
    /\ ReadsAreCurrent
    /\ SerialActivationKeepsOne
    /\ ActiveIsInForce
    /\ AcceptedWasInForce
    /\ TimestampFresh

-----------------------------------------------------------------------------
\* The initial state has the types of TypeOK.
LEMMA TypeInit == Init => TypeOK
<1> SUFFICES ASSUME Init
             PROVE  TypeOK
  OBVIOUS
<1>1. [given |-> FALSE, version |-> Initial, timestamp |-> 0] \in Claim
  BY InitialExists, TimesType DEF Claim
<1>2. claim \in [Posts -> Claim]
  BY <1>1 DEF Init
<1> QED
  BY <1>2, InitialExists DEF Init, TypeOK

\* What an activation makes of the table is a set of versions.
LEMMA ActivatedType ==
    ASSUME TypeOK, NEW a \in Admins
    PROVE  Activated(a) \in SUBSET Versions
  BY DEF TypeOK, Activated, Deactivated

\* Every step keeps the types.
LEMMA TypeStep == TypeOK /\ [Next]_vars => TypeOK'
<1> SUFFICES ASSUME TypeOK, [Next]_vars
             PROVE  TypeOK'
  OBVIOUS
<1> USE DEF TypeOK, activationVars, gateVars
<1>1. CASE Tick
  BY <1>1 DEF Tick
<1>2. ASSUME NEW a \in Admins, NEW v \in Versions, FindsTarget(a, v)
      PROVE  TypeOK'
  BY <1>2 DEF FindsTarget
<1>3. ASSUME NEW a \in Admins, TargetUnknown(a)
      PROVE  TypeOK'
  BY <1>3 DEF TargetUnknown
<1>4. ASSUME NEW a \in Admins, FindsCurrent(a)
      PROVE  TypeOK'
  <2>1. (IF active = {} THEN NoVersion ELSE CHOOSE v \in active : TRUE)
            \in Versions \cup {NoVersion}
    OBVIOUS
  <2> QED
    BY <1>4, <2>1 DEF FindsCurrent
<1>5. ASSUME NEW a \in Admins, ActivationCommits(a)
      PROVE  TypeOK'
  <2>1. active' \in SUBSET Versions
    BY <1>5, ActivatedType DEF ActivationCommits
  <2>2. inForce' \in [Posts -> SUBSET Versions]
    BY <1>5, <2>1 DEF ActivationCommits
  <2>3. superseded' \in SUBSET Versions
    BY <1>5 DEF ActivationCommits
  <2> QED
    BY <1>5, <2>1, <2>2, <2>3 DEF ActivationCommits
<1>6. ASSUME NEW a \in Admins, ActivationFails(a)
      PROVE  TypeOK'
  BY <1>6 DEF ActivationFails
<1>7. ASSUME NEW p \in Posts, NEW c \in Claim, GateChecks(p, c)
      PROVE  TypeOK'
  <2>1. ClockError(c) \in Errors \cup {"none"}
    BY DEF ClockError, Errors
  <2> QED
    BY <1>7, <2>1 DEF GateChecks
<1>8. ASSUME NEW p \in Posts, GateReadsActive(p)
      PROVE  TypeOK'
  <2>1. VersionError(p) \in Errors \cup {"valid"}
    BY DEF VersionError, Errors
  <2> QED
    BY <1>8, <2>1 DEF GateReadsActive
<1>9. CASE UNCHANGED vars
  BY <1>9 DEF vars
<1> QED
  BY <1>1, <1>2, <1>3, <1>4, <1>5, <1>6, <1>7, <1>8, <1>9
     DEF Next, Activate, Validate

\* Type correctness in every reachable state.
THEOREM TypeCorrect == Spec => []TypeOK
  BY TypeInit, TypeStep, PTL DEF Spec

-----------------------------------------------------------------------------
\* The inductive invariant holds initially.
LEMMA InvInit == Init => IInv
  BY TypeInit DEF Init, IInv, AtMostOneActive, ReadsAreCurrent, UnderWay,
                  SerialActivationKeepsOne, ActiveIsInForce,
                  AcceptedWasInForce, TimestampFresh

\* Whatever the transaction read, the unique index lets it commit only a table
\* with at most one active version.
LEMMA CommitKeepsOne ==
    ASSUME TypeOK, AtMostOneActive, NEW a \in Admins, IndexAllows(a)
    PROVE  \A v, w \in Activated(a) : v = w
<1>1. CASE SetsActive(a)
  BY <1>1 DEF AtMostOneActive, IndexAllows, Activated, Deactivated
<1>2. CASE ~SetsActive(a)
  BY <1>2 DEF AtMostOneActive, Activated, Deactivated
<1> QED
  BY <1>1, <1>2

\* A transaction whose reads are still true leaves a version active.
LEMMA CommitLeavesOne ==
    ASSUME TypeOK, AtMostOneActive, NEW a \in Admins, current[a] \in active,
           goalWasActive[a] = (goal[a] \in active)
    PROVE  Activated(a) # {}
<1>1. CASE goal[a] \in active
  <2>1. current[a] = goal[a]
    BY <1>1 DEF AtMostOneActive
  <2> QED
    BY <1>1, <2>1 DEF Activated, Deactivated, Replaces
<1>2. CASE goal[a] \notin active
  BY <1>2 DEF Activated, SetsActive
<1> QED
  BY <1>1, <1>2

\* Every step keeps the inductive invariant.
LEMMA InvStep == IInv /\ [Next]_vars => IInv'
<1> SUFFICES ASSUME IInv, [Next]_vars
             PROVE  IInv'
  OBVIOUS
<1>0. TypeOK /\ TypeOK'
  BY TypeStep DEF IInv
<1> USE <1>0 DEF IInv
<1>1. CASE Tick
  BY <1>1 DEF Tick, activationVars, gateVars, AtMostOneActive, ReadsAreCurrent,
              UnderWay, SerialActivationKeepsOne, ActiveIsInForce,
              AcceptedWasInForce, TimestampFresh
<1>2. ASSUME NEW a \in Admins, NEW v \in Versions, FindsTarget(a, v)
      PROVE  IInv'
  <2>1. ReadsAreCurrent'
    BY <1>2 DEF FindsTarget, ReadsAreCurrent, UnderWay, TypeOK
  <2> QED
    BY <1>2, <2>1 DEF FindsTarget, gateVars, AtMostOneActive,
                      SerialActivationKeepsOne, ActiveIsInForce,
                      AcceptedWasInForce, TimestampFresh
<1>3. ASSUME NEW a \in Admins, TargetUnknown(a)
      PROVE  IInv'
  <2>1. ReadsAreCurrent'
    BY <1>3 DEF TargetUnknown, ReadsAreCurrent, UnderWay, TypeOK
  <2> QED
    BY <1>3, <2>1 DEF TargetUnknown, gateVars, AtMostOneActive,
                      SerialActivationKeepsOne, ActiveIsInForce,
                      AcceptedWasInForce, TimestampFresh
<1>4. ASSUME NEW a \in Admins, FindsCurrent(a)
      PROVE  IInv'
  <2>1. ReadsAreCurrent'
    BY <1>4 DEF FindsCurrent, ReadsAreCurrent, SerialActivationKeepsOne,
                UnderWay, TypeOK
  <2> QED
    BY <1>4, <2>1 DEF FindsCurrent, gateVars, AtMostOneActive,
                      SerialActivationKeepsOne, ActiveIsInForce,
                      AcceptedWasInForce, TimestampFresh
<1>5. ASSUME NEW a \in Admins, ActivationCommits(a)
      PROVE  IInv'
  <2>1. AtMostOneActive'
    BY <1>5, CommitKeepsOne DEF ActivationCommits, AtMostOneActive
  <2>2. ReadsAreCurrent'
    BY <1>5 DEF ActivationCommits, ReadsAreCurrent, UnderWay, TypeOK
  <2>3. SerialActivationKeepsOne'
    <3> SUFFICES ASSUME ~overlapped
                 PROVE  Activated(a) # {}
      BY <1>5 DEF ActivationCommits, SerialActivationKeepsOne
    <3> QED
      BY <1>5, CommitLeavesOne DEF ActivationCommits, ReadsAreCurrent, UnderWay
  <2>4. ActiveIsInForce'
    BY <1>5 DEF ActivationCommits, gateVars, ActiveIsInForce, TypeOK
  <2>5. AcceptedWasInForce' /\ TimestampFresh'
    BY <1>5 DEF ActivationCommits, gateVars, AcceptedWasInForce, TimestampFresh, TypeOK
  <2> QED
    BY <2>1, <2>2, <2>3, <2>4, <2>5
<1>6. ASSUME NEW a \in Admins, ActivationFails(a)
      PROVE  IInv'
  <2>1. ReadsAreCurrent'
    BY <1>6 DEF ActivationFails, ReadsAreCurrent, UnderWay, TypeOK
  <2> QED
    BY <1>6, <2>1 DEF ActivationFails, gateVars, AtMostOneActive,
                      SerialActivationKeepsOne, ActiveIsInForce,
                      AcceptedWasInForce, TimestampFresh
<1>7. ASSUME NEW p \in Posts, NEW c \in Claim, GateChecks(p, c)
      PROVE  IInv'
  <2>1. AtMostOneActive' /\ ReadsAreCurrent' /\ SerialActivationKeepsOne'
    BY <1>7 DEF GateChecks, activationVars, AtMostOneActive, ReadsAreCurrent,
                UnderWay, SerialActivationKeepsOne
  <2>2. ClockError(c) # "valid" /\ ClockError(c) # "checked"
    BY DEF ClockError
  <2>3. ActiveIsInForce' /\ AcceptedWasInForce'
    BY <1>7, <2>2 DEF GateChecks, ActiveIsInForce, AcceptedWasInForce, TypeOK
  <2>4. TimestampFresh'
    <3> SUFFICES ASSUME NEW q \in Posts, gate'[q] \in {"checked", "valid"}
                 PROVE  /\ claim'[q].timestamp <= arrived'[q] + Skew
                        /\ arrived'[q] <= claim'[q].timestamp + Validity
      BY DEF TimestampFresh
    <3>1. CASE q = p
      <4>1. ClockError(c) = "none" /\ claim'[q] = c /\ arrived'[q] = now
        BY <1>7, <2>2, <3>1 DEF GateChecks, TypeOK
      <4>2. c.timestamp \in Nat
        BY TimesType DEF Claim
      <4> QED
        BY <4>1, <4>2, TimesType DEF ClockError, TypeOK
    <3>2. CASE q # p
      BY <1>7, <3>2 DEF GateChecks, TimestampFresh, TypeOK
    <3> QED
      BY <3>1, <3>2
  <2> QED
    BY <2>1, <2>3, <2>4
<1>8. ASSUME NEW p \in Posts, GateReadsActive(p)
      PROVE  IInv'
  <2>1. AtMostOneActive' /\ ReadsAreCurrent' /\ SerialActivationKeepsOne'
    BY <1>8 DEF GateReadsActive, activationVars, AtMostOneActive, ReadsAreCurrent,
                UnderWay, SerialActivationKeepsOne
  <2>2. /\ VersionError(p) # "checked"
        /\ VersionError(p) = "valid" => claim[p].version \in active
    BY DEF VersionError
  <2>3. ActiveIsInForce' /\ AcceptedWasInForce' /\ TimestampFresh'
    BY <1>8, <2>2 DEF GateReadsActive, ActiveIsInForce, AcceptedWasInForce,
                      TimestampFresh, TypeOK
  <2> QED
    BY <2>1, <2>3
<1>9. CASE UNCHANGED vars
  BY <1>9 DEF vars, AtMostOneActive, ReadsAreCurrent, UnderWay,
              SerialActivationKeepsOne, ActiveIsInForce, AcceptedWasInForce,
              TimestampFresh
<1> QED
  BY <1>1, <1>2, <1>3, <1>4, <1>5, <1>6, <1>7, <1>8, <1>9
     DEF Next, Activate, Validate

\* The inductive invariant holds in every reachable state.
LEMMA Invariance == Spec => []IInv
  BY InvInit, InvStep, PTL DEF Spec

\* Overlapping activations never leave two versions active.
THEOREM OneActiveCorrect == Spec => []AtMostOneActive
<1>1. IInv => AtMostOneActive
  BY DEF IInv
<1> QED
  BY <1>1, Invariance, PTL

\* Activations that do not overlap never leave the gate without a notice.
THEOREM SerialCorrect == Spec => []SerialActivationKeepsOne
<1>1. IInv => SerialActivationKeepsOne
  BY DEF IInv
<1> QED
  BY <1>1, Invariance, PTL

\* A request passes only with a notice in force while it was being validated.
THEOREM GateCorrect == Spec => []AcceptedWasInForce
<1>1. IInv => AcceptedWasInForce
  BY DEF IInv
<1> QED
  BY <1>1, Invariance, PTL

\* A consent can be presented again for at most the validity period plus the
\* skew, whatever the clock, the validity and the number of requests.
THEOREM ReplayCorrect == Spec => []ReplayWindowBounded
<1>1. IInv => ReplayWindowBounded
  <2> SUFFICES ASSUME IInv, NEW p \in Posts, NEW q \in Posts,
                      gate[p] = "valid", gate[q] = "valid",
                      claim[p].timestamp = claim[q].timestamp
               PROVE  arrived[p] <= arrived[q] + Validity + Skew
    BY DEF ReplayWindowBounded
  <2>1. claim[p].timestamp \in Nat /\ arrived[p] \in Nat /\ arrived[q] \in Nat
    BY TimesType DEF IInv, TypeOK, Claim
  <2> QED
    BY <2>1, TimesType DEF IInv, TimestampFresh
<1> QED
  BY <1>1, Invariance, PTL
=============================================================================
