-------------------------- MODULE AuditVerify_proofs --------------------------
(***************************************************************************)
(* Proofs about AuditVerify.                                               *)
(***************************************************************************)
EXTENDS AuditVerify, TLAPS

-----------------------------------------------------------------------------
(***************************************************************************)
(* Facts about hashes and signatures                                       *)
(***************************************************************************)

Original == Sha256("original")

\* A signature a row may hold: a spoilt one, or one made for the original.
SignedOrSpoilt(r) ==
    \/ r.hmac = NoRow.hmac
    \/ \E k \in Key : r.hmac = Hmac(k, Original, "original")

\* Equal hashes have equal inputs.
LEMMA ShaInjective ==
  ASSUME NEW a, NEW b, Sha256(a) = Sha256(b)
  PROVE  a = b
BY DEF Sha256

\* Equal signatures have equal keys and equal messages.
LEMMA HmacInjective ==
  ASSUME NEW k1, NEW h1, NEW m1, NEW k2, NEW h2, NEW m2,
         Hmac(k1, h1, m1) = Hmac(k2, h2, m2)
  PROVE  k1 = k2 /\ h1 = h2 /\ m1 = m2
BY DEF Hmac

\* The types of hashes and signatures.
LEMMA HashTypes ==
  /\ \A c \in Contents : Sha256(c) \in Hashes
  /\ \A k \in Key, h \in Hashes, c \in Contents : Hmac(k, h, c) \in Hmacs
  /\ NoRow \in Row
  /\ Original \in Hashes
BY DEF Hashes, Hmacs, Hmac, NoRow, Row, Key, Contents, Original

\* No verification key matches a signature but for the original message.
LEMMA MatchIsOriginal ==
  ASSUME NEW p \in Processes, NEW r, NEW h, NEW m,
         SignedOrSpoilt(r), ServerKey(p) # 0, Matches(p, r.hmac, h, m)
  PROVE  h = Original /\ m = "original"
<1>1. PICK k : k # 0 /\ r.hmac = Hmac(k, h, m)
  BY DEF Matches
<1>2. r.hmac # NoRow.hmac
  <2>1. NoRow.hmac = Hmac(0, Sha256("altered"), "altered")
    BY DEF NoRow
  <2>. QED BY <1>1, <2>1, HmacInjective
<1>3. PICK j \in Key : r.hmac = Hmac(j, Original, "original")
  BY <1>2 DEF SignedOrSpoilt
<1>4. Hmac(k, h, m) = Hmac(j, Original, "original")
  BY <1>1, <1>3
<1>. QED BY <1>4, HmacInjective

-----------------------------------------------------------------------------
(***************************************************************************)
(* Types                                                                   *)
(***************************************************************************)

\* Every step keeps the types.
LEMMA TypeStep == TypeOK /\ [Next]_vars => TypeOK'
<1>. SUFFICES ASSUME TypeOK, [Next]_vars PROVE TypeOK'
  OBVIOUS
<1>. USE DEF Key, KeyPair, keyVars, processVars, recordVars, verifyVars
<1>1. CASE Rotate
  BY <1>1 DEF TypeOK, Rotate
<1>2. CASE WindowCloses
  BY <1>2 DEF TypeOK, WindowCloses
<1>3. ASSUME NEW p \in Processes, NEW set \in Settings, NEW reached \in BOOLEAN,
             ProcessStarts(p, set, reached)
      PROVE  TypeOK'
  <2>1. NoKeys \in KeyPair /\ Injected(NoKeys, set) \in KeyPair
    BY DEF TypeOK, Injected, Deployed, NoKeys
  <2>. HIDE DEF KeyPair
  <2>2. environ' \in [Processes -> KeyPair]
    BY <1>3, <2>1 DEF TypeOK, ProcessStarts
  <2>3. cached' \in [Processes -> KeyPair]
    BY <1>3, <2>1 DEF TypeOK, ProcessStarts
  <2>. QED BY <1>3, <2>2, <2>3 DEF TypeOK, ProcessStarts
<1>4. ASSUME NEW p \in Processes, NEW reached \in BOOLEAN, Reload(p, reached) PROVE TypeOK'
  BY <1>4 DEF TypeOK, Reload, Injected, Deployed, NoKeys
<1>5. ASSUME NEW p \in Processes, ProcessStops(p) PROVE TypeOK'
  <2>1. NoCheck \in [record : Records \cup {NoRecord}, row : Row]
    BY HashTypes DEF NoCheck
  <2>2. NoVerdict \in [record : Records \cup {NoRecord}, row : Row, payload : Payloads,
           is_valid : BOOLEAN, hash_passed : BOOLEAN, hmac_passed : BOOLEAN,
           in_overlap : BOOLEAN]
    BY HashTypes DEF NoVerdict, Payloads
  <2>3. {} \in Settings
    BY DEF Settings
  <2>. QED BY <1>5, <2>1, <2>2, <2>3 DEF TypeOK, ProcessStops, NoKeys
<1>6. ASSUME NEW p \in Processes, NEW d \in Records, Sign(p, d) PROVE TypeOK'
  <2>1. ServerKey(p) \in Key
    BY DEF TypeOK, ServerKey
  <2>2. [hash |-> Sha256("original"), meta |-> "original",
         hmac |-> Hmac(ServerKey(p), Sha256("original"), "original")] \in Row
    BY <2>1, HashTypes DEF Row, Contents
  <2>. QED BY <1>6, <2>1, <2>2 DEF TypeOK, Sign
<1>7. ASSUME NEW d \in Records, NEW c \in Contents, Upload(d, c) PROVE TypeOK'
  BY <1>7 DEF TypeOK, Upload, Payloads
<1>8. ASSUME NEW d \in Records, Alter(d) PROVE TypeOK'
  <2>1. NoRow.hmac \in Hmacs
    BY HashTypes DEF Row
  <2>2. row' \in [Records -> Row]
    <3>1. Sha256("altered") \in Hashes
      BY HashTypes DEF Contents
    <3>2. row[d] \in Row
      BY DEF TypeOK
    <3>. HIDE DEF Key
    <3>3. \A h \in Hashes : [row EXCEPT ![d].hash = h] \in [Records -> Row]
      BY <3>2 DEF TypeOK, Row
    <3>4. [row EXCEPT ![d].meta = "altered"] \in [Records -> Row]
      BY <3>2 DEF TypeOK, Row, Contents
    <3>5. \A s \in Hmacs : [row EXCEPT ![d].hmac = s] \in [Records -> Row]
      BY <3>2 DEF TypeOK, Row
    <3>. QED BY <1>8, <2>1, <3>1, <3>3, <3>4, <3>5 DEF TypeOK, Alter
  <2>. QED BY <1>8, <2>2 DEF TypeOK, Alter, Payloads
<1>9. ASSUME NEW p \in Processes, NEW d \in Records, VerifyReads(p, d) PROVE TypeOK'
  <2>1. NoVerdict \in [record : Records \cup {NoRecord}, row : Row, payload : Payloads,
           is_valid : BOOLEAN, hash_passed : BOOLEAN, hmac_passed : BOOLEAN,
           in_overlap : BOOLEAN]
    BY HashTypes DEF NoVerdict, Payloads
  <2>. QED BY <1>9, <2>1 DEF TypeOK, VerifyReads
<1>10. ASSUME NEW p \in Processes, NEW downloaded \in BOOLEAN, VerifyConcludes(p, downloaded)
       PROVE  TypeOK'
  <2>. DEFINE d == checking[p].record
              r == checking[p].row
              payload == IF downloaded THEN object[d] ELSE "none"
              result == IF downloaded THEN FullCheck(p, r, payload) ELSE HmacOnlyCheck(p, r)
  <2>1. d \in Records /\ r \in Row /\ payload \in Payloads
    BY <1>10 DEF TypeOK, VerifyConcludes, Payloads
  <2>2. result.is_valid \in BOOLEAN /\ result.hash_passed \in BOOLEAN /\ result.hmac_passed \in BOOLEAN
    BY DEF FullCheck, Integrity, HmacOnlyCheck, Matches
  <2>3. InOverlap(p, d) \in BOOLEAN
    BY DEF InOverlap
  <2>. HIDE DEF d, r, payload, result
  <2>4. verdict' \in [Processes ->
          [record : Records \cup {NoRecord}, row : Row, payload : Payloads,
           is_valid : BOOLEAN, hash_passed : BOOLEAN, hmac_passed : BOOLEAN,
           in_overlap : BOOLEAN]]
    <3>1. verdict' = [verdict EXCEPT ![p] =
              [record |-> d, row |-> r, payload |-> payload,
               is_valid |-> result.is_valid, hash_passed |-> result.hash_passed,
               hmac_passed |-> result.hmac_passed, in_overlap |-> InOverlap(p, d)]]
      BY <1>10 DEF VerifyConcludes, d, r, payload, result
    <3>. QED BY <2>1, <2>2, <2>3, <3>1 DEF TypeOK
  <2>5. checking' \in [Processes -> [record : Records \cup {NoRecord}, row : Row]]
    BY <1>10, HashTypes DEF TypeOK, VerifyConcludes, NoCheck
  <2>6. KeysUsed(p, checking[p].row) \in KeyPair
    BY DEF TypeOK, KeysUsed, ServerKey, PreviousKey
  <2>7. cached' \in [Processes -> KeyPair]
    BY <1>10, <2>6 DEF TypeOK, VerifyConcludes
  <2>. QED BY <1>10, <2>4, <2>5, <2>7 DEF TypeOK, VerifyConcludes
<1>11. CASE UNCHANGED vars
  BY <1>11 DEF TypeOK, vars
<1>12. ASSUME NEW p \in Processes, VerifyRaises(p) PROVE TypeOK'
  BY <1>12, HashTypes DEF TypeOK, VerifyRaises, NoCheck
<1>. QED
  BY <1>1, <1>2, <1>3, <1>4, <1>5, <1>6, <1>7, <1>8, <1>9, <1>10, <1>11, <1>12
     DEF Next, Operator, Process, Record, Verify

\* The types hold at first.
LEMMA TypeInit == Init => TypeOK
<1>1. NoVerdict \in [record : Records \cup {NoRecord}, row : Row, payload : Payloads,
           is_valid : BOOLEAN, hash_passed : BOOLEAN, hmac_passed : BOOLEAN,
           in_overlap : BOOLEAN]
  BY HashTypes DEF NoVerdict, Payloads
<1>2. NoCheck \in [record : Records \cup {NoRecord}, row : Row]
  BY HashTypes DEF NoCheck
<1>. QED
  BY <1>1, <1>2, HashTypes DEF Init, TypeOK, NoKeys, KeyPair, Key, Payloads, Settings

\* Types: the state of keys, processes, records and verdicts keeps its types.
THEOREM TypeCorrect == Spec => []TypeOK
BY TypeInit, TypeStep, PTL DEF Spec

-----------------------------------------------------------------------------
(***************************************************************************)
(* What a verdict says                                                     *)
(***************************************************************************)

\* What a process has cached is in its environment.
ProcessesHaveKeys ==
    \A p \in Processes :
        /\ cached[p].current \in {0, environ[p].current}
        /\ cached[p].previous \in {0, environ[p].previous}
        /\ checking[p].record # NoRecord => up[p]

\* Signatures of rows, and of rows as read, are spoilt or made for the original.
RowsAreSigned ==
    /\ \A d \in Records : SignedOrSpoilt(row[d])
    /\ \A p \in Processes : SignedOrSpoilt(checking[p].row)

VInv ==
    /\ TypeOK
    /\ ProcessesHaveKeys
    /\ RowsAreSigned
    /\ ValidMeansAuthentic
    /\ HashPassedMeansCompared

\* The keys of a process are those of its environment.
LEMMA KeysInEnviron ==
  ASSUME TypeOK, ProcessesHaveKeys, NEW p \in Processes
  PROVE  ServerKey(p) = environ[p].current /\ PreviousKey(p) = environ[p].previous
BY DEF ProcessesHaveKeys, ServerKey, PreviousKey

\* Every step keeps the keys of the processes in order.
LEMMA ProcessStep == TypeOK /\ ProcessesHaveKeys /\ [Next]_vars => ProcessesHaveKeys'
<1>. SUFFICES ASSUME TypeOK, ProcessesHaveKeys, [Next]_vars PROVE ProcessesHaveKeys'
  OBVIOUS
<1>. USE DEF ProcessesHaveKeys, keyVars, processVars, recordVars, verifyVars
<1>1. CASE Rotate \/ WindowCloses
  BY <1>1 DEF Rotate, WindowCloses
<1>3. ASSUME NEW p \in Processes, NEW set \in Settings, NEW reached \in BOOLEAN,
             ProcessStarts(p, set, reached)
      PROVE  ProcessesHaveKeys'
  BY <1>3 DEF TypeOK, ProcessStarts, NoKeys, KeyPair
<1>4. ASSUME NEW p \in Processes, NEW reached \in BOOLEAN, Reload(p, reached)
      PROVE  ProcessesHaveKeys'
  BY <1>4 DEF TypeOK, Reload, Injected, Deployed, NoKeys, KeyPair
<1>5. ASSUME NEW p \in Processes, ProcessStops(p) PROVE ProcessesHaveKeys'
  BY <1>5 DEF TypeOK, ProcessStops, NoKeys, NoCheck, KeyPair
<1>6. ASSUME NEW p \in Processes, NEW d \in Records, Sign(p, d) PROVE ProcessesHaveKeys'
  BY <1>6, KeysInEnviron DEF TypeOK, Sign, KeyPair
<1>7. ASSUME NEW d \in Records, NEW c \in Contents, Upload(d, c) PROVE ProcessesHaveKeys'
  BY <1>7 DEF Upload
<1>8. ASSUME NEW d \in Records, Alter(d) PROVE ProcessesHaveKeys'
  BY <1>8 DEF Alter
<1>9. ASSUME NEW p \in Processes, NEW d \in Records, VerifyReads(p, d)
      PROVE  ProcessesHaveKeys'
  BY <1>9 DEF TypeOK, VerifyReads
<1>10. ASSUME NEW p \in Processes, NEW downloaded \in BOOLEAN, VerifyConcludes(p, downloaded)
       PROVE  ProcessesHaveKeys'
  <2>1. KeysUsed(p, checking[p].row).current = environ[p].current
    BY KeysInEnviron DEF KeysUsed
  <2>2. KeysUsed(p, checking[p].row).previous \in {0, environ[p].previous}
    BY KeysInEnviron DEF KeysUsed
  <2>. QED BY <1>10, <2>1, <2>2 DEF TypeOK, VerifyConcludes, NoCheck, KeyPair
<1>11. CASE UNCHANGED vars
  BY <1>11 DEF vars
<1>12. ASSUME NEW p \in Processes, VerifyRaises(p) PROVE ProcessesHaveKeys'
  BY <1>12 DEF TypeOK, VerifyRaises, NoCheck
<1>. QED
  BY <1>1, <1>3, <1>4, <1>5, <1>6, <1>7, <1>8, <1>9, <1>10, <1>11, <1>12
     DEF Next, Operator, Process, Record, Verify

\* An alteration keeps a signature or spoils it.
LEMMA AlterKeepsOrSpoils ==
  ASSUME TypeOK, NEW d \in Records, Alter(d)
  PROVE  \A e \in Records : row'[e].hmac \in {row[e].hmac, NoRow.hmac}
<1>. row[d] \in Row /\ row \in [Records -> Row]
  BY DEF TypeOK
<1>1. CASE row' = [row EXCEPT ![d].hash = Sha256("altered")]
  BY <1>1 DEF Row
<1>2. CASE row' = [row EXCEPT ![d].meta = "altered"]
  BY <1>2 DEF Row
<1>3. CASE row' = [row EXCEPT ![d].hmac = NoRow.hmac]
  BY <1>3 DEF Row
<1>4. CASE row' = row
  BY <1>4
<1>. QED BY <1>1, <1>2, <1>3, <1>4 DEF Alter

\* Every step keeps the signatures in order.
LEMMA RowStep == TypeOK /\ RowsAreSigned /\ [Next]_vars => RowsAreSigned'
<1>. SUFFICES ASSUME TypeOK, RowsAreSigned, [Next]_vars PROVE RowsAreSigned'
  OBVIOUS
<1>. USE DEF RowsAreSigned, keyVars, processVars, recordVars, verifyVars
<1>1. CASE UNCHANGED <<row, checking>>
  BY <1>1 DEF SignedOrSpoilt
<1>2. ASSUME NEW p \in Processes, checking' = [checking EXCEPT ![p] = NoCheck], UNCHANGED row
      PROVE  RowsAreSigned'
  BY <1>2 DEF TypeOK, SignedOrSpoilt, NoCheck
<1>3. ASSUME NEW p \in Processes, NEW d \in Records, Sign(p, d) PROVE RowsAreSigned'
  <2>1. ServerKey(p) \in Key
    BY DEF TypeOK, ServerKey, KeyPair
  <2>2. row'[d].hmac = Hmac(ServerKey(p), Original, "original")
    BY <1>3 DEF TypeOK, Sign, Original
  <2>3. \A e \in Records : e # d => row'[e] = row[e]
    BY <1>3 DEF TypeOK, Sign
  <2>4. UNCHANGED checking
    BY <1>3 DEF Sign
  <2>. QED BY <2>1, <2>2, <2>3, <2>4 DEF SignedOrSpoilt
<1>4. ASSUME NEW d \in Records, Alter(d) PROVE RowsAreSigned'
  <2>1. \A e \in Records : row'[e].hmac \in {row[e].hmac, NoRow.hmac}
    BY <1>4, AlterKeepsOrSpoils
  <2>2. UNCHANGED checking
    BY <1>4 DEF Alter
  <2>. QED BY <2>1, <2>2 DEF SignedOrSpoilt
<1>5. ASSUME NEW p \in Processes, NEW d \in Records, VerifyReads(p, d) PROVE RowsAreSigned'
  BY <1>5 DEF TypeOK, VerifyReads, SignedOrSpoilt
<1>. QED
  BY <1>1, <1>2, <1>3, <1>4, <1>5
     DEF Next, vars, Operator, Process, Record, Verify, Rotate, WindowCloses, ProcessStarts,
         Reload, ProcessStops, Upload, VerifyConcludes, VerifyRaises

\* A verdict is only replaced by the empty one or by that of a verification.
LEMMA VerdictChanges ==
  ASSUME TypeOK, [Next]_vars, NEW p \in Processes
  PROVE  \/ verdict'[p] = verdict[p]
         \/ verdict'[p] = NoVerdict
         \/ \E downloaded \in BOOLEAN : VerifyConcludes(p, downloaded)
<1>1. CASE UNCHANGED verdict
  BY <1>1
<1>2. ASSUME NEW q \in Processes, verdict' = [verdict EXCEPT ![q] = NoVerdict]
      PROVE  verdict'[p] \in {verdict[p], NoVerdict}
  BY <1>2 DEF TypeOK
<1>3. ASSUME NEW q \in Processes, NEW downloaded \in BOOLEAN, VerifyConcludes(q, downloaded)
      PROVE  q = p \/ verdict'[p] = verdict[p]
  BY <1>3 DEF TypeOK, VerifyConcludes
<1>. QED
  BY <1>1, <1>2, <1>3
     DEF Next, vars, Operator, Process, Record, Verify, Rotate, WindowCloses, ProcessStarts,
         Reload, ProcessStops, Sign, Upload, Alter, VerifyReads, VerifyRaises,
         keyVars, processVars, recordVars, verifyVars

\* The verdict of a verification, spelt out.
LEMMA VerdictIs ==
  ASSUME TypeOK, NEW p \in Processes, NEW downloaded \in BOOLEAN,
         VerifyConcludes(p, downloaded)
  PROVE  LET d == checking[p].record
             r == checking[p].row
             v == verdict'[p]
         IN /\ d \in Records
            /\ v.record = d /\ v.row = r
            /\ v.in_overlap = InOverlap(p, d)
            /\ ServerKey(p) # 0 \/ (downloaded /\ r.hash # Sha256(object[d]))
            /\ downloaded =>
                  /\ v.payload = object[d] /\ object[d] \in Contents
                  /\ v.hash_passed <=> r.hash = Sha256(object[d])
                  /\ v.is_valid <=> /\ r.hash = Sha256(object[d])
                                    /\ Matches(p, r.hmac, r.hash, r.meta)
            /\ ~downloaded =>
                  /\ v.payload = "none"
                  /\ ~v.hash_passed
                  /\ v.is_valid <=> Matches(p, r.hmac, r.hash, r.meta)
<1>. DEFINE d == checking[p].record
            r == checking[p].row
<1>1. d \in Records
  BY DEF TypeOK, VerifyConcludes
<1>0. ServerKey(p) # 0 \/ (downloaded /\ r.hash # Sha256(object[d]))
  BY DEF VerifyConcludes
<1>2. CASE downloaded
  <2>1. object[d] \in Contents
    BY <1>2 DEF VerifyConcludes
  <2>2. verdict'[p] = [record |-> d, row |-> r, payload |-> object[d],
               is_valid |-> FullCheck(p, r, object[d]).is_valid,
               hash_passed |-> FullCheck(p, r, object[d]).hash_passed,
               hmac_passed |-> FullCheck(p, r, object[d]).hmac_passed,
               in_overlap |-> InOverlap(p, d)]
    BY <1>2 DEF TypeOK, VerifyConcludes
  <2>3. CASE r.hash = Sha256(object[d])
    <3>1. /\ FullCheck(p, r, object[d]).is_valid = Matches(p, r.hmac, r.hash, r.meta)
          /\ FullCheck(p, r, object[d]).hash_passed
      BY <2>3 DEF FullCheck, Integrity, Matches
    <3>. QED BY <1>0, <1>1, <1>2, <2>1, <2>2, <2>3, <3>1
  <2>4. CASE r.hash # Sha256(object[d])
    <3>1. /\ ~FullCheck(p, r, object[d]).is_valid
          /\ ~FullCheck(p, r, object[d]).hash_passed
      BY <2>4 DEF FullCheck, Integrity
    <3>. QED BY <1>0, <1>1, <1>2, <2>1, <2>2, <2>4, <3>1
  <2>. QED BY <2>3, <2>4
<1>3. CASE ~downloaded
  <2>1. verdict'[p] = [record |-> d, row |-> r, payload |-> "none",
               is_valid |-> HmacOnlyCheck(p, r).is_valid,
               hash_passed |-> HmacOnlyCheck(p, r).hash_passed,
               hmac_passed |-> HmacOnlyCheck(p, r).hmac_passed,
               in_overlap |-> InOverlap(p, d)]
    BY <1>3 DEF TypeOK, VerifyConcludes
  <2>2. /\ HmacOnlyCheck(p, r).is_valid = Matches(p, r.hmac, r.hash, r.meta)
        /\ ~HmacOnlyCheck(p, r).hash_passed
    BY DEF HmacOnlyCheck
  <2>. QED BY <1>0, <1>1, <1>3, <2>1, <2>2
<1>. QED BY <1>2, <1>3

\* Every step keeps the verdicts sound.
LEMMA VerdictStep == VInv /\ [Next]_vars => ValidMeansAuthentic' /\ HashPassedMeansCompared'
<1>. SUFFICES ASSUME VInv, [Next]_vars, NEW p \in Processes
              PROVE  LET v == verdict'[p]
                     IN /\ v.is_valid => /\ v.row.hash = Sha256("original")
                                         /\ v.row.meta = "original"
                                         /\ v.payload # "altered"
                        /\ v.hash_passed => /\ v.payload \in Contents
                                            /\ v.row.hash = Sha256(v.payload)
  BY DEF ValidMeansAuthentic, HashPassedMeansCompared
<1>1. CASE verdict'[p] = verdict[p]
  BY <1>1 DEF VInv, ValidMeansAuthentic, HashPassedMeansCompared
<1>2. CASE verdict'[p] = NoVerdict
  BY <1>2 DEF NoVerdict
<1>3. ASSUME NEW downloaded \in BOOLEAN, VerifyConcludes(p, downloaded)
      PROVE  LET v == verdict'[p]
             IN /\ v.is_valid => /\ v.row.hash = Sha256("original")
                                 /\ v.row.meta = "original"
                                 /\ v.payload # "altered"
                /\ v.hash_passed => /\ v.payload \in Contents
                                    /\ v.row.hash = Sha256(v.payload)
  <2>. DEFINE r == checking[p].row
  <2>1. TypeOK /\ ProcessesHaveKeys /\ SignedOrSpoilt(r)
    BY DEF VInv, RowsAreSigned
  <2>2. ServerKey(p) # 0 \/ (downloaded /\ ~verdict'[p].is_valid)
    BY <1>3, <2>1, VerdictIs
  <2>3. Matches(p, r.hmac, r.hash, r.meta) /\ verdict'[p].is_valid
        => r.hash = Original /\ r.meta = "original"
    BY <2>1, <2>2, MatchIsOriginal
  <2>4. \A c \in Contents : r.hash = Sha256(c) /\ r.hash = Original => c = "original"
    BY ShaInjective DEF Original
  <2>5. CASE downloaded
    <3>1. /\ verdict'[p].row = r
          /\ verdict'[p].payload \in Contents
          /\ verdict'[p].hash_passed => r.hash = Sha256(verdict'[p].payload)
          /\ verdict'[p].is_valid => /\ r.hash = Sha256(verdict'[p].payload)
                                     /\ Matches(p, r.hmac, r.hash, r.meta)
      BY <1>3, <2>1, <2>5, VerdictIs
    <3>. HIDE DEF r
    <3>. QED BY <2>3, <2>4, <3>1 DEF Original
  <2>6. CASE ~downloaded
    <3>1. /\ verdict'[p].row = r
          /\ verdict'[p].payload = "none"
          /\ ~verdict'[p].hash_passed
          /\ verdict'[p].is_valid => Matches(p, r.hmac, r.hash, r.meta)
      BY <1>3, <2>1, <2>6, VerdictIs
    <3>. HIDE DEF r
    <3>. QED BY <2>3, <3>1 DEF Original
  <2>. QED BY <2>5, <2>6
<1>. QED BY <1>1, <1>2, <1>3, VerdictChanges DEF VInv

\* The invariant holds at first and in every step.
LEMMA VInvCorrect == Spec => []VInv
<1>1. Init => VInv
  <2>. SUFFICES ASSUME Init PROVE VInv
    OBVIOUS
  <2>1. TypeOK
    BY TypeInit
  <2>2. ProcessesHaveKeys
    BY DEF Init, ProcessesHaveKeys, NoKeys, NoCheck
  <2>3. RowsAreSigned
    BY DEF Init, RowsAreSigned, SignedOrSpoilt, NoCheck
  <2>4. ValidMeansAuthentic /\ HashPassedMeansCompared
    BY DEF Init, ValidMeansAuthentic, HashPassedMeansCompared, NoVerdict
  <2>. QED BY <2>1, <2>2, <2>3, <2>4 DEF VInv
<1>2. VInv /\ [Next]_vars => VInv'
  BY TypeStep, ProcessStep, RowStep, VerdictStep DEF VInv
<1>. QED BY <1>1, <1>2, PTL DEF Spec

\* A record declared valid is as it was signed, whatever was altered, however
\* the keys were rotated and whether or not the payload could be read.
THEOREM AuthenticCorrect == Spec => []ValidMeansAuthentic
<1>1. VInv => ValidMeansAuthentic
  BY DEF VInv
<1>. QED BY <1>1, VInvCorrect, PTL

\* hash_check_passed is never reported without the comparison.
THEOREM ComparedCorrect == Spec => []HashPassedMeansCompared
<1>1. VInv => HashPassedMeansCompared
  BY DEF VInv
<1>. QED BY <1>1, VInvCorrect, PTL

-----------------------------------------------------------------------------
(***************************************************************************)
(* The overlap of two keys                                                 *)
(***************************************************************************)

\* The previous key, if there is one, is the one before the current one.
PreviousIsOneBehind == previous \in {0, key - 1}

\* A running process that has a key is at most one rotation behind, and has the
\* previous key when it is not behind and does not set that itself.  One that
\* could not reach Vault has neither key.
ProcessesKeepUp ==
    \A p \in Processes : up[p] =>
        /\ refreshed[p] \in {key, key - 1}
        /\ environ[p].current \in {0, refreshed[p], key}
        /\ environ[p].current = 0 /\ "current" \notin own[p] => environ[p].previous = 0
        /\ /\ refreshed[p] = key
           /\ previous # 0
           /\ environ[p].current # 0
           /\ "previous" \notin own[p]
           => environ[p].previous = previous
        /\ "current" \in own[p] => environ[p].current = 0

\* The row of d is signed with the key deployed then, or the one before.
SignedInTime(r, d) ==
    \/ r.hmac = NoRow.hmac
    \/ \E k \in {signedAt[d], signedAt[d] - 1} : r.hmac = Hmac(k, Original, "original")

RowsSignedInTime ==
    /\ \A d \in Written : SignedInTime(row[d], d)
    /\ \A p \in Processes : checking[p].record # NoRecord =>
          /\ checking[p].record \in Written
          /\ SignedInTime(checking[p].row, checking[p].record)

KInv ==
    /\ PreviousIsOneBehind
    /\ ProcessesKeepUp
    /\ RowsSignedInTime
    /\ OverlapIsEnough

\* Every step keeps the keys in order.
LEMMA KeyStep ==
  ASSUME VInv, KInv, [Next]_vars
  PROVE  PreviousIsOneBehind' /\ ProcessesKeepUp'
<1>. USE DEF keyVars, processVars, recordVars, verifyVars, PreviousIsOneBehind, ProcessesKeepUp
<1>. TypeOK /\ PreviousIsOneBehind /\ ProcessesKeepUp
  BY DEF VInv, KInv
<1>1. CASE UNCHANGED <<key, previous, up, own, environ, refreshed>>
  BY <1>1
<1>2. CASE Rotate
  BY <1>2 DEF TypeOK, Rotate
<1>3. CASE WindowCloses
  BY <1>3 DEF TypeOK, WindowCloses
<1>4. ASSUME NEW p \in Processes, NEW set \in Settings, NEW reached \in BOOLEAN,
             ProcessStarts(p, set, reached)
      PROVE  PreviousIsOneBehind' /\ ProcessesKeepUp'
  <2>1. /\ key' = key /\ previous' = previous /\ refreshed'[p] = key /\ own'[p] = set
        /\ \A q \in Processes : q # p => /\ environ'[q] = environ[q] /\ up'[q] = up[q]
                                        /\ own'[q] = own[q] /\ refreshed'[q] = refreshed[q]
    BY <1>4 DEF TypeOK, ProcessStarts
  <2>2. \/ environ'[p] = NoKeys
        \/ environ'[p] = Injected(NoKeys, set)
    BY <1>4 DEF TypeOK, ProcessStarts
  <2>3. /\ environ'[p].current = 0 /\ environ'[p].previous = 0
        \/ /\ environ'[p].current = IF "current" \in set THEN 0 ELSE key
           /\ environ'[p].previous = IF "previous" \in set THEN 0 ELSE previous
    BY <2>2 DEF Injected, Deployed, NoKeys
  <2>. QED BY <2>1, <2>3 DEF TypeOK
<1>5. ASSUME NEW p \in Processes, NEW reached \in BOOLEAN, Reload(p, reached)
      PROVE  PreviousIsOneBehind' /\ ProcessesKeepUp'
  <2>1. /\ key' = key /\ previous' = previous /\ up' = up /\ own' = own
        /\ refreshed' = refreshed /\ up[p]
        /\ \A q \in Processes : q # p => environ'[q] = environ[q]
    BY <1>5 DEF TypeOK, Reload
  <2>2. environ'[p] = environ[p] \/ environ'[p] = Injected(environ[p], own[p])
    BY <1>5 DEF TypeOK, Reload
  <2>3. \/ environ'[p] = environ[p]
        \/ /\ environ'[p].current = IF environ[p].current = 0 /\ "current" \notin own[p]
                                    THEN key ELSE environ[p].current
           /\ environ'[p].previous = IF environ[p].previous = 0 /\ "previous" \notin own[p]
                                     THEN previous ELSE environ[p].previous
    BY <2>2 DEF Injected, Deployed
  <2>. QED BY <2>1, <2>3 DEF TypeOK
<1>6. ASSUME NEW p \in Processes, ProcessStops(p)
      PROVE  PreviousIsOneBehind' /\ ProcessesKeepUp'
  BY <1>6 DEF TypeOK, ProcessStops
<1>. QED
  BY <1>1, <1>2, <1>3, <1>4, <1>5, <1>6
     DEF Next, vars, Operator, Process, Record, Verify, Sign, Upload, Alter, VerifyReads,
         VerifyConcludes, VerifyRaises

\* Every step keeps rows signed in time.
LEMMA SignStep ==
  ASSUME VInv, KInv, [Next]_vars
  PROVE  RowsSignedInTime'
<1>. USE DEF keyVars, processVars, recordVars, verifyVars, RowsSignedInTime, Written
<1>. TypeOK /\ RowsSignedInTime /\ ProcessesKeepUp /\ ProcessesHaveKeys
  BY DEF VInv, KInv
<1>1. CASE UNCHANGED <<row, checking, signedAt>>
  BY <1>1 DEF SignedInTime
<1>2. ASSUME NEW p \in Processes, checking' = [checking EXCEPT ![p] = NoCheck],
             UNCHANGED <<row, signedAt>>
      PROVE  RowsSignedInTime'
  BY <1>2 DEF TypeOK, SignedInTime, NoCheck
<1>3. ASSUME NEW p \in Processes, NEW d \in Records, Sign(p, d) PROVE RowsSignedInTime'
  <2>1. row'[d].hmac = Hmac(environ[p].current, Original, "original")
    BY <1>3, KeysInEnviron DEF TypeOK, Sign, Original
  <2>2. environ[p].current \in {key, key - 1} /\ signedAt'[d] = key
    BY <1>3, KeysInEnviron DEF TypeOK, Sign, ProcessesKeepUp
  <2>3. \A e \in Records : e # d => row'[e] = row[e] /\ signedAt'[e] = signedAt[e]
    BY <1>3 DEF TypeOK, Sign
  <2>4. UNCHANGED checking /\ d \notin Written
    BY <1>3 DEF Sign
  <2>5. SignedInTime(row[d], d)'
    BY <2>1, <2>2 DEF SignedInTime
  <2>. QED BY <2>3, <2>4, <2>5 DEF SignedInTime
<1>4. ASSUME NEW d \in Records, Alter(d) PROVE RowsSignedInTime'
  <2>1. \A e \in Records : row'[e].hmac \in {row[e].hmac, NoRow.hmac}
    BY <1>4, AlterKeepsOrSpoils
  <2>2. UNCHANGED <<checking, signedAt>>
    BY <1>4 DEF Alter
  <2>. QED BY <2>1, <2>2 DEF SignedInTime
<1>5. ASSUME NEW p \in Processes, NEW d \in Records, VerifyReads(p, d)
      PROVE  RowsSignedInTime'
  BY <1>5 DEF TypeOK, VerifyReads, SignedInTime
<1>. QED
  BY <1>1, <1>2, <1>3, <1>4, <1>5
     DEF Next, vars, Operator, Process, Record, Verify, Rotate, WindowCloses, ProcessStarts,
         Reload, ProcessStops, Upload, VerifyConcludes, VerifyRaises

\* Every step keeps the overlap sufficient.
LEMMA OverlapStep ==
  ASSUME VInv, KInv, [Next]_vars
  PROVE  OverlapIsEnough'
<1>. SUFFICES ASSUME NEW p \in Processes, verdict'[p].in_overlap, Untouched(verdict'[p])
              PROVE  verdict'[p].is_valid
  BY DEF OverlapIsEnough, Untouched
<1>. TypeOK /\ ProcessesHaveKeys
  BY DEF VInv
<1>1. CASE verdict'[p] = verdict[p]
  BY <1>1 DEF KInv, OverlapIsEnough
<1>2. CASE verdict'[p] = NoVerdict
  BY <1>2 DEF NoVerdict
<1>3. ASSUME NEW downloaded \in BOOLEAN, VerifyConcludes(p, downloaded)
      PROVE  verdict'[p].is_valid
  <2>. DEFINE d == checking[p].record
              r == checking[p].row
  <2>1. d \in Records /\ d # NoRecord /\ verdict'[p].row = r /\ InOverlap(p, d)
    BY <1>3, VerdictIs DEF VerifyConcludes
  <2>2. signedAt[d] = key /\ up[p]
    BY <2>1 DEF InOverlap, ProcessesHaveKeys
  <2>0. environ[p].current # 0
    <3>1. CASE downloaded
      <4>1. verdict'[p].payload = object[d] /\ object[d] \in Contents
        BY <1>3, <3>1, VerdictIs
      <4>2. r.hash = Sha256(object[d])
        BY <2>1, <4>1 DEF Untouched, Contents
      <4>. QED BY <1>3, <4>2, VerdictIs, KeysInEnviron
    <3>2. CASE ~downloaded
      BY <1>3, <3>2, VerdictIs, KeysInEnviron
    <3>. QED BY <3>1, <3>2
  <2>3. environ[p].current = key /\ environ[p].previous = key - 1 /\ key - 1 # 0
    BY <2>0, <2>1, <2>2 DEF InOverlap, KInv, ProcessesKeepUp, PreviousIsOneBehind
  <2>4. \E k \in {key, key - 1} : r.hmac = Hmac(k, Original, "original")
    BY <2>1, <2>2 DEF KInv, RowsSignedInTime, SignedInTime, Untouched
  <2>5. r.hash = Original /\ r.meta = "original"
    BY <2>1 DEF Untouched, Original
  <2>6. Matches(p, r.hmac, r.hash, r.meta)
    BY <2>3, <2>4, <2>5, KeysInEnviron DEF Matches
  <2>7. CASE downloaded
    <3>1. verdict'[p].payload = object[d] /\ object[d] \in Contents
      BY <1>3, <2>7, VerdictIs
    <3>2. r.hash = Sha256(object[d])
      BY <2>5, <3>1 DEF Untouched, Contents, Original
    <3>. QED BY <1>3, <2>6, <2>7, <3>2, VerdictIs
  <2>8. CASE ~downloaded
    BY <1>3, <2>6, <2>8, VerdictIs
  <2>. QED BY <2>7, <2>8
<1>. QED BY <1>1, <1>2, <1>3, VerdictChanges

\* The keys are in order in every state.
LEMMA KInvCorrect == Spec => []KInv
<1>1. Init => KInv
  BY DEF Init, KInv, PreviousIsOneBehind, ProcessesKeepUp, RowsSignedInTime, Written, NoCheck,
         OverlapIsEnough, NoVerdict
<1>2. VInv /\ KInv /\ [Next]_vars => KInv'
  BY KeyStep, SignStep, OverlapStep DEF KInv
<1>. QED BY <1>1, <1>2, VInvCorrect, PTL DEF Spec

\* If processes are restarted before the next rotation and do not set the previous
\* key themselves, the overlap of two keys is enough: no record signed since the
\* rotation is taken for tampered with, also beside processes that start without
\* Vault or without a usable key of their own.
THEOREM OverlapCorrect == Spec => []OverlapIsEnough
<1>1. KInv => OverlapIsEnough
  BY DEF KInv
<1>. QED BY <1>1, KInvCorrect, PTL
==============================================================================
