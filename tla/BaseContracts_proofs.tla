----------------------- MODULE BaseContracts_proofs -----------------------
(***************************************************************************)
(* Proofs about the registry and the stack deployed around it, for any     *)
(* sets of fixtures, digests, results and senders.                         *)
(*                                                                         *)
(* First the registry on its own.  Its inductive invariant is TypeOK /\    *)
(* StatusMatchesRecords /\ RecordsAreReports: the status byte alone does   *)
(* not determine what _report may do next, the two maps alone do not say   *)
(* that a lane contradicted itself, and the set of accepted reports ties   *)
(* both.  Then the stack: BaseSpec implements the registry's own           *)
(* specification, so the registry's theorems carry over; the invariants    *)
(* that relate several contracts are proved on top of them.                *)
(***************************************************************************)
EXTENDS BaseContracts, TLAPS

\* The inductive invariant.
IInv ==
    /\ TypeOK
    /\ StatusMatchesRecords
    /\ RecordsAreReports

\* The two lanes, and what the other one is.
LEMMA LaneFacts ==
    /\ \A l \in Lanes : Other(l) \in Lanes /\ Other(l) # l /\ Other(Other(l)) = l
    /\ \A l, m \in Lanes : m = l \/ m = Other(l)
    /\ \A l \in Lanes : l = "level3" \/ l = "level4"
    /\ Other("level3") = "level4" /\ Other("level4") = "level3"
    /\ "level3" \in Lanes /\ "level4" \in Lanes
BY DEF Lanes, Other

\* A report is made by one of the two lanes and has the type of its event.
LEMMA ReportStep ==
    ASSUME NEW sender \in Addresses, NEW f \in Fixtures,
           NEW id \in AttestationIds, NEW result \in Results,
           ReportLevel3(sender, f, id, result) \/ ReportLevel4(sender, f, id, result)
    PROVE  \E l \in Lanes : Report(l, f, id, result)
BY LaneFacts DEF ReportLevel3, ReportLevel4

\* The type invariant survives a report of any lane.
LEMMA ReportTypeOK ==
    ASSUME TypeOK, NEW l \in Lanes, NEW f \in Fixtures, NEW id \in AttestationIds,
           NEW result \in Results, Report(l, f, id, result)
    PROVE  TypeOK'
<1>1. result \in ValidResults /\ UNCHANGED wiringVars
  BY DEF Report
<1>2. accepted' \in [Fixtures -> SUBSET [lane : Lanes, id : AttestationIds]]
  BY DEF Report, TypeOK
<1>3. status' \in [Fixtures -> Statuses]
  <2>1. CASE SelfContradiction(l, f, id)
    BY <2>1 DEF SelfContradiction, TypeOK, Statuses
  <2>2. CASE FirstReport(l, f, id, result)
    <3>1. Reconcile(l, attestation[Other(l)][f], id) \in Statuses
      BY DEF Reconcile, Statuses
    <3>2. QED BY <2>2, <3>1 DEF FirstReport, TypeOK
  <2>3. QED BY <2>1, <2>2 DEF Report
<1>4. attestation' \in [Lanes -> [Fixtures -> AttestationRecord]]
  <2>1. CASE SelfContradiction(l, f, id)
    BY <2>1 DEF SelfContradiction, TypeOK
  <2>2. CASE FirstReport(l, f, id, result)
    <3>1. [attestationId |-> id, result |-> result, exists |-> TRUE] \in AttestationRecord
      BY <1>1 DEF AttestationRecord
    <3>2. QED BY <2>2, <3>1 DEF FirstReport, TypeOK
  <2>3. QED BY <2>1, <2>2 DEF Report
<1>5. QED BY <1>1, <1>2, <1>3, <1>4 DEF TypeOK, wiringVars

\* Records, status and accepted reports of the fixture that is reported on;
\* every other fixture is untouched.
LEMMA ReportFrame ==
    ASSUME TypeOK, NEW l \in Lanes, NEW f \in Fixtures, NEW id \in AttestationIds,
           NEW result \in Results, Report(l, f, id, result)
    PROVE  /\ \A g \in Fixtures \ {f} :
                 /\ status'[g] = status[g] /\ accepted'[g] = accepted[g]
                 /\ \A m \in Lanes : attestation'[m][g] = attestation[m][g]
           /\ attestation'[Other(l)][f] = attestation[Other(l)][f]
           /\ accepted'[f] = accepted[f] \union {[lane |-> l, id |-> id]}
<1>1. accepted'[f] = accepted[f] \union {[lane |-> l, id |-> id]}
  BY DEF Report, TypeOK
<1>2. \A g \in Fixtures \ {f} : status'[g] = status[g] /\ accepted'[g] = accepted[g]
  BY DEF Report, TypeOK, SelfContradiction, FirstReport
<1>3. \A m \in Lanes, g \in Fixtures :
         g # f \/ m # l => attestation'[m][g] = attestation[m][g]
  BY DEF Report, TypeOK, SelfContradiction, FirstReport
<1>4. QED BY <1>1, <1>2, <1>3, LaneFacts

\* The exists flag of a record is a Boolean.
LEMMA RecordExists == \A r \in AttestationRecord : r.exists \in BOOLEAN
<1> SUFFICES ASSUME NEW r \in AttestationRecord PROVE r.exists \in BOOLEAN
  OBVIOUS
<1>1. CASE r = NoRecord
  BY <1>1 DEF NoRecord
<1>2. CASE r \in [attestationId : AttestationIds, result : ValidResults, exists : {TRUE}]
  <2>1. r.exists \in {TRUE}
    BY <1>2
  <2>2. QED BY <2>1
<1>3. QED BY <1>1, <1>2 DEF AttestationRecord

\* What a report does to its own fixture, without the arrays.
LEMMA ReportEffect ==
    ASSUME TypeOK, NEW l \in Lanes, NEW f \in Fixtures, NEW id \in AttestationIds,
           NEW result \in Results, Report(l, f, id, result)
    PROVE  /\ status[f] \notin Closed
           /\ \/ /\ Has(l, f) /\ attestation[l][f].attestationId # id
                 /\ attestation'[l][f] = attestation[l][f]
                 /\ status'[f] = "Conflict"
              \/ /\ ~Has(l, f)
                 /\ attestation'[l][f] =
                        [attestationId |-> id, result |-> result, exists |-> TRUE]
                 /\ status'[f] = Reconcile(l, attestation[Other(l)][f], id)
<1>1. CASE SelfContradiction(l, f, id)
  BY <1>1 DEF Report, SelfContradiction, TypeOK, Has
<1>2. CASE FirstReport(l, f, id, result)
  BY <1>2 DEF Report, FirstReport, TypeOK, Has
<1>3. QED BY <1>1, <1>2 DEF Report

\* The status byte still names the records after a report.
LEMMA ReportStatus ==
    ASSUME TypeOK, StatusMatchesRecords, NEW l \in Lanes, NEW f \in Fixtures,
           NEW id \in AttestationIds, NEW result \in Results, Report(l, f, id, result)
    PROVE  StatusMatchesRecords'
<1> DEFINE S(g) ==
        /\ status[g] = "Unknown" <=> ~Has("level3", g) /\ ~Has("level4", g)
        /\ status[g] = "CREAttested" => Has("level3", g) /\ ~Has("level4", g)
        /\ status[g] = "WormholeVerified" => ~Has("level3", g) /\ Has("level4", g)
        /\ status[g] = "DualFinalized" <=>
               Has("level3", g) /\ Has("level4", g) /\ Agree(g)
<1>1. \A g \in Fixtures \ {f} : S(g)'
  BY ReportFrame, LaneFacts DEF StatusMatchesRecords, Has, Agree
<1>2. S(f)'
  <2>1. /\ status[f] \notin Closed
        /\ \/ /\ Has(l, f) /\ attestation[l][f].attestationId # id
              /\ attestation'[l][f] = attestation[l][f]
              /\ status'[f] = "Conflict"
           \/ /\ ~Has(l, f)
              /\ attestation'[l][f] =
                     [attestationId |-> id, result |-> result, exists |-> TRUE]
              /\ status'[f] = Reconcile(l, attestation[Other(l)][f], id)
    BY ReportEffect
  <2>2. attestation'[Other(l)][f] = attestation[Other(l)][f]
    BY ReportFrame
  <2>3. S(f)
    BY DEF StatusMatchesRecords
  <2>4. \A m \in Lanes : Has(m, f) \in BOOLEAN
    <3>1. \A m \in Lanes : attestation[m][f] \in AttestationRecord
      BY DEF TypeOK
    <3>2. QED BY <3>1, RecordExists DEF Has
  <2>5. CASE l = "level3"
    BY <2>1, <2>2, <2>3, <2>4, <2>5, LaneFacts DEF Has, Agree, Reconcile, Closed
  <2>6. CASE l = "level4"
    BY <2>1, <2>2, <2>3, <2>4, <2>6, LaneFacts DEF Has, Agree, Reconcile, Closed
  <2>7. QED BY <2>5, <2>6, LaneFacts
<1>3. QED BY <1>1, <1>2 DEF StatusMatchesRecords

\* Accepted reports and records still explain each other after a report.
LEMMA ReportRecords ==
    ASSUME TypeOK, RecordsAreReports, NEW l \in Lanes, NEW f \in Fixtures,
           NEW id \in AttestationIds, NEW result \in Results, Report(l, f, id, result)
    PROVE  RecordsAreReports'
<1> DEFINE Stored(g) == \A m \in Lanes : Has(m, g) =>
               [lane |-> m, id |-> attestation[m][g].attestationId] \in accepted[g]
           Explained(g) == status[g] # "Conflict" =>
               \A c \in accepted[g] :
                   Has(c.lane, g) /\ c.id = attestation[c.lane][g].attestationId
<1>1. \A g \in Fixtures \ {f} : Stored(g)' /\ Explained(g)'
  <2>1. SUFFICES ASSUME NEW g \in Fixtures \ {f} PROVE Stored(g)' /\ Explained(g)'
    OBVIOUS
  <2>2. /\ status'[g] = status[g] /\ accepted'[g] = accepted[g]
        /\ \A m \in Lanes : attestation'[m][g] = attestation[m][g]
    BY ReportFrame
  <2>3. \A c \in accepted[g] : c.lane \in Lanes
    BY DEF TypeOK
  <2>4. Stored(g)' BY <2>2 DEF RecordsAreReports, Has
  <2>5. Explained(g)' BY <2>2, <2>3 DEF RecordsAreReports, Has
  <2>6. QED BY <2>4, <2>5
<1>2. Stored(f)'
  <2>1. SUFFICES ASSUME NEW m \in Lanes, Has(m, f)'
                 PROVE [lane |-> m, id |-> attestation'[m][f].attestationId] \in accepted'[f]
    BY DEF Has
  <2>2. CASE m = l
    <3>1. /\ accepted'[f] = accepted[f] \union {[lane |-> l, id |-> id]}
          /\ \/ Has(l, f) /\ attestation'[l][f] = attestation[l][f]
             \/ attestation'[l][f] =
                    [attestationId |-> id, result |-> result, exists |-> TRUE]
      BY ReportEffect, ReportFrame
    <3>2. Has(l, f) => [lane |-> l, id |-> attestation[l][f].attestationId] \in accepted[f]
      BY DEF RecordsAreReports
    <3>3. QED BY <2>2, <3>1, <3>2
  <2>3. CASE m = Other(l)
    BY <2>1, <2>3, ReportFrame DEF RecordsAreReports, Has
  <2>4. QED BY <2>2, <2>3, LaneFacts
<1>3. Explained(f)'
  <2>1. SUFFICES ASSUME status'[f] # "Conflict", NEW c \in accepted'[f]
                 PROVE Has(c.lane, f)' /\ c.id = attestation'[c.lane][f].attestationId
    OBVIOUS
  <2>2. /\ ~Has(l, f)
        /\ attestation'[l][f] =
               [attestationId |-> id, result |-> result, exists |-> TRUE]
        /\ status[f] # "Conflict"
    BY <2>1, ReportEffect DEF Closed
  <2>3. CASE c = [lane |-> l, id |-> id]
    BY <2>2, <2>3 DEF Has
  <2>4. CASE c \in accepted[f]
    <3>1. Has(c.lane, f) /\ c.id = attestation[c.lane][f].attestationId /\ c.lane \in Lanes
      BY <2>2, <2>4 DEF RecordsAreReports, TypeOK
    <3>2. c.lane = Other(l)
      BY <2>2, <3>1, LaneFacts
    <3>3. QED BY <3>1, <3>2, ReportFrame DEF Has
  <2>5. QED BY <2>3, <2>4, ReportFrame
<1>4. QED BY <1>1, <1>2, <1>3 DEF RecordsAreReports

-----------------------------------------------------------------------------

\* The constructor establishes the inductive invariant.
LEMMA InitIInv == Init => IInv
<1> SUFFICES ASSUME Init PROVE IInv
  OBVIOUS
<1> USE DEF Init
<1>1. TypeOK
  BY RegistryAssumption DEF TypeOK, Statuses, AttestationRecord
<1>2. \A l \in Lanes, f \in Fixtures : ~Has(l, f)
  BY DEF Has, NoRecord
<1>3. StatusMatchesRecords
  BY <1>2, LaneFacts DEF StatusMatchesRecords
<1>4. RecordsAreReports
  BY <1>2 DEF RecordsAreReports
<1>5. QED BY <1>1, <1>3, <1>4 DEF IInv

\* Every transaction preserves it.
LEMMA NextIInv == IInv /\ [Next]_registryVars => IInv'
<1> SUFFICES ASSUME IInv, [Next]_registryVars PROVE IInv'
  OBVIOUS
<1> USE DEF IInv
<1>1. CASE UNCHANGED reportVars /\ TypeOK'
  BY <1>1 DEF reportVars, StatusMatchesRecords, RecordsAreReports, Has, Agree
<1>2. ASSUME NEW sender \in Addresses, NEW new \in Addresses \union {ZeroAddress},
             TransferRegistry(sender, new)
      PROVE  UNCHANGED reportVars /\ TypeOK'
  BY <1>2 DEF TransferRegistry, TypeOK, reportVars
<1>3. ASSUME NEW sender \in Addresses,
             NEW l3 \in Addresses \union {ZeroAddress},
             NEW l4 \in Addresses \union {ZeroAddress},
             SetReporters(sender, l3, l4)
      PROVE  UNCHANGED reportVars /\ TypeOK'
  BY <1>3 DEF SetReporters, TypeOK, reportVars
<1>4. ASSUME NEW sender \in Addresses, NEW f \in Fixtures, NEW id \in AttestationIds,
             NEW result \in Results,
             ReportLevel3(sender, f, id, result) \/ ReportLevel4(sender, f, id, result)
      PROVE  IInv'
  <2>1. PICK l \in Lanes : Report(l, f, id, result)
    BY <1>4, ReportStep
  <2>2. QED BY <2>1, ReportTypeOK, ReportStatus, ReportRecords
<1>5. CASE UNCHANGED registryVars
  <2>1. UNCHANGED reportVars /\ TypeOK'
    BY <1>5 DEF registryVars, reportVars, wiringVars, TypeOK
  <2>2. QED BY <2>1, <1>1
<1>6. QED BY <1>1, <1>2, <1>3, <1>4, <1>5 DEF Next

\* The inductive invariant holds of every reachable state.
THEOREM RegistryInvariant == Spec => []IInv
BY InitIInv, NextIInv, PTL DEF Spec

\* Every variable keeps the type its Solidity declaration gives it; in
\* particular no record with a result outside HOME, DRAW, AWAY is ever stored.
THEOREM TypeCorrect == Spec => []TypeOK
<1>1. IInv => TypeOK BY DEF IInv
<1>2. QED BY <1>1, RegistryInvariant, PTL

\* The status byte summarises the records of both lanes at all times.
THEOREM StatusCorrect == Spec => []StatusMatchesRecords
<1>1. IInv => StatusMatchesRecords BY DEF IInv
<1>2. QED BY <1>1, RegistryInvariant, PTL

\* Records are accepted reports, and contradictions always freeze.
THEOREM RecordsCorrect == Spec => []RecordsAreReports
<1>1. IInv => RecordsAreReports BY DEF IInv
<1>2. QED BY <1>1, RegistryInvariant, PTL

-----------------------------------------------------------------------------

\* What a single transaction of anybody leaves alone.
Once ==
    /\ \A l \in Lanes, f \in Fixtures :
           Has(l, f) => attestation'[l][f] = attestation[l][f]
    /\ \A f \in Fixtures : status[f] \in Closed => status'[f] = status[f]
    /\ level3Receiver # ZeroAddress =>
           level3Receiver' = level3Receiver /\ level4Receiver' = level4Receiver

\* One step of the write-once fields.
LEMMA OnceStep ==
    ASSUME TypeOK, [Next]_registryVars
    PROVE  Once
<1> SUFFICES ASSUME Next PROVE Once
  BY DEF Once, registryVars, wiringVars, reportVars
<1>1. ASSUME NEW sender \in Addresses, NEW new \in Addresses \union {ZeroAddress},
             TransferRegistry(sender, new)
      PROVE  Once
  BY <1>1 DEF TransferRegistry, reportVars, Once
<1>2. ASSUME NEW sender \in Addresses,
             NEW l3 \in Addresses \union {ZeroAddress},
             NEW l4 \in Addresses \union {ZeroAddress},
             SetReporters(sender, l3, l4)
      PROVE  Once
  BY <1>2 DEF SetReporters, reportVars, Once
<1>3. ASSUME NEW sender \in Addresses, NEW f \in Fixtures, NEW id \in AttestationIds,
             NEW result \in Results,
             ReportLevel3(sender, f, id, result) \/ ReportLevel4(sender, f, id, result)
      PROVE  Once
  <2>1. PICK l \in Lanes : Report(l, f, id, result)
    BY <1>3, ReportStep
  <2>2. /\ status[f] \notin Closed
        /\ Has(l, f) => attestation'[l][f] = attestation[l][f]
        /\ attestation'[Other(l)][f] = attestation[Other(l)][f]
    BY <2>1, ReportEffect, ReportFrame
  <2>3. \A g \in Fixtures \ {f} :
           /\ status'[g] = status[g]
           /\ \A m \in Lanes : attestation'[m][g] = attestation[m][g]
    BY <2>1, ReportFrame
  <2>4. UNCHANGED wiringVars
    BY <2>1 DEF Report
  <2>5. QED BY <2>2, <2>3, <2>4, LaneFacts DEF wiringVars, Once
<1>4. QED BY <1>1, <1>2, <1>3 DEF Next

\* What is stored stays stored, a decided fixture stays decided, and the
\* reporters are wired once.
THEOREM WriteOnceCorrect == Spec => WriteOnce
<1>1. TypeOK /\ [Next]_registryVars => [Once]_registryVars
  BY OnceStep
<1>2. QED BY <1>1, TypeCorrect, PTL DEF Spec, WriteOnce, Once

-----------------------------------------------------------------------------
\* The registry implements DualFinality.

\* The verdict on claims that disagree.
LEMMA VerdictConflict ==
    ASSUME NEW C, NEW c \in C, NEW d \in C, c.id # d.id
    PROVE  DF!Verdict(C) = "Conflict"
BY DEF DF!Verdict

\* The verdict on a single claim names its lane.
LEMMA VerdictSingle ==
    ASSUME NEW l \in Lanes, NEW id
    PROVE  DF!Verdict({[lane |-> l, id |-> id]}) =
               IF l = "level3" THEN "CREAttested" ELSE "WormholeVerified"
BY LaneFacts DEF DF!Verdict, DF!Heard

\* The verdict on one claim of each lane for one digest.
LEMMA VerdictDual ==
    ASSUME NEW l \in Lanes, NEW id
    PROVE  DF!Verdict({[lane |-> Other(l), id |-> id], [lane |-> l, id |-> id]})
               = "DualFinalized"
BY LaneFacts DEF DF!Verdict, DF!Heard

\* An undecided fixture's accepted reports are exactly its stored records.
LEMMA OpenClaims ==
    ASSUME TypeOK, RecordsAreReports, NEW f \in Fixtures, status[f] \notin Closed,
           NEW l \in Lanes
    PROVE  accepted[f] =
               (IF Has(l, f) THEN {[lane |-> l, id |-> attestation[l][f].attestationId]}
                             ELSE {})
               \union
               (IF Has(Other(l), f)
                THEN {[lane |-> Other(l), id |-> attestation[Other(l)][f].attestationId]}
                ELSE {})
<1>1. \A c \in accepted[f] :
         /\ c = [lane |-> c.lane, id |-> c.id] /\ c.lane \in Lanes
         /\ Has(c.lane, f) /\ c.id = attestation[c.lane][f].attestationId
  BY DEF RecordsAreReports, TypeOK, Closed
<1>2. \A m \in Lanes : Has(m, f) =>
         [lane |-> m, id |-> attestation[m][f].attestationId] \in accepted[f]
  BY DEF RecordsAreReports
<1>3. QED BY <1>1, <1>2, LaneFacts

\* A report is one Take of the abstract specification: the status written by
\* the code is the verdict on all claims, the new one included.
LEMMA ReportIsTake ==
    ASSUME IInv, NEW l \in Lanes, NEW f \in Fixtures, NEW id \in AttestationIds,
           NEW result \in Results, Report(l, f, id, result)
    PROVE  DF!Next
<1> DEFINE c == [lane |-> l, id |-> id]
           o == attestation[Other(l)][f]
           before == accepted[f]
<1> USE DEF IInv
<1>1. status[f] \notin Closed
  BY DEF Report
<1>2. before = (IF Has(l, f) THEN {[lane |-> l, id |-> attestation[l][f].attestationId]}
                             ELSE {})
               \union
               (IF Has(Other(l), f) THEN {[lane |-> Other(l), id |-> o.attestationId]}
                                    ELSE {})
  BY <1>1, OpenClaims
<1>3. ASSUME SelfContradiction(l, f, id)
      PROVE  /\ c \notin before
             /\ status' = [status EXCEPT ![f] = DF!Verdict(before \union {c})]
  <2> DEFINE d == [lane |-> l, id |-> attestation[l][f].attestationId]
  <2>1. Has(l, f) /\ d.id # c.id
    BY <1>3 DEF SelfContradiction, Has
  <2>2. d \in before /\ c \notin before
    BY <1>2, <2>1, LaneFacts
  <2>3. DF!Verdict(before \union {c}) = "Conflict"
    <3>1. d \in before \union {c} /\ c \in before \union {c}
      BY <2>2
    <3> HIDE DEF c, d, before
    <3>2. QED BY <2>1, <3>1, VerdictConflict
  <2>4. status' = [status EXCEPT ![f] = "Conflict"]
    BY <1>3 DEF SelfContradiction
  <2>5. QED BY <2>2, <2>3, <2>4
<1>4. ASSUME FirstReport(l, f, id, result)
      PROVE  /\ c \notin before
             /\ status' = [status EXCEPT ![f] = DF!Verdict(before \union {c})]
  <2>1. ~Has(l, f) /\ status' = [status EXCEPT ![f] = Reconcile(l, o, id)]
    BY <1>4 DEF FirstReport, Has
  <2>2. c \notin before
    BY <1>2, <2>1, LaneFacts
  <2>3. CASE ~Has(Other(l), f)
    <3>1. before \union {c} = {c}
      BY <1>2, <2>1, <2>3
    <3>2. Reconcile(l, o, id) = IF l = "level3" THEN "CREAttested" ELSE "WormholeVerified"
      BY <2>3 DEF Reconcile, Has
    <3>3. DF!Verdict(before \union {c}) = Reconcile(l, o, id)
      BY <3>1, <3>2, VerdictSingle
    <3>4. QED BY <2>1, <2>2, <3>3
  <2>4. CASE Has(Other(l), f) /\ o.attestationId = id
    <3>1. before \union {c} = {[lane |-> Other(l), id |-> id], c}
      BY <1>2, <2>1, <2>4
    <3>2. Reconcile(l, o, id) = "DualFinalized"
      BY <2>4 DEF Reconcile, Has
    <3>3. DF!Verdict(before \union {c}) = Reconcile(l, o, id)
      BY <3>1, <3>2, VerdictDual
    <3>4. QED BY <2>1, <2>2, <3>3
  <2>5. CASE Has(Other(l), f) /\ o.attestationId # id
    <3> DEFINE d == [lane |-> Other(l), id |-> o.attestationId]
    <3>1. d \in before \union {c} /\ c \in before \union {c} /\ d.id # c.id
      BY <1>2, <2>5
    <3>2. DF!Verdict(before \union {c}) = "Conflict"
      <4> HIDE DEF c, d, before
      <4>1. QED BY <3>1, VerdictConflict
    <3>3. Reconcile(l, o, id) = "Conflict"
      BY <2>5 DEF Reconcile, Has
    <3>4. QED BY <2>1, <2>2, <3>2, <3>3
  <2>6. QED BY <2>3, <2>4, <2>5
<1>5. /\ c \notin before
      /\ status' = [status EXCEPT ![f] = DF!Verdict(before \union {c})]
  BY <1>3, <1>4 DEF Report
<1>6. accepted' = [accepted EXCEPT ![f] = @ \union {c}]
  BY DEF Report
<1>7. DF!Take(f, c)
  BY <1>1, <1>5, <1>6 DEF DF!Take, DF!Terminal, Closed
<1>8. c \in DF!Claim
  BY DEF DF!Claim, DF!Lanes, Lanes
<1>9. QED BY <1>7, <1>8 DEF DF!Next

\* The registry contract implements dual finality: at every moment the public
\* status of a fixture is the verdict on the set of all reports accepted for
\* it, so neither the order of the lanes nor repetition can change the result.
THEOREM RegistryImplementsDualFinality == Spec => ImplementsDualFinality
<1>1. Init => DF!Init
  BY DEF Init, DF!Init
<1>2. IInv /\ [Next]_registryVars => [DF!Next]_(DF!vars)
  <2> SUFFICES ASSUME IInv, [Next]_registryVars PROVE DF!Next \/ UNCHANGED DF!vars
    OBVIOUS
  <2>1. ASSUME NEW sender \in Addresses, NEW f \in Fixtures, NEW id \in AttestationIds,
               NEW result \in Results,
               ReportLevel3(sender, f, id, result) \/ ReportLevel4(sender, f, id, result)
        PROVE  DF!Next
    BY <2>1, ReportStep, ReportIsTake
  <2>2. ASSUME NEW sender \in Addresses, NEW new \in Addresses \union {ZeroAddress},
               TransferRegistry(sender, new)
        PROVE  UNCHANGED DF!vars
    BY <2>2 DEF TransferRegistry, reportVars, DF!vars
  <2>3. ASSUME NEW sender \in Addresses,
               NEW l3 \in Addresses \union {ZeroAddress},
               NEW l4 \in Addresses \union {ZeroAddress},
               SetReporters(sender, l3, l4)
        PROVE  UNCHANGED DF!vars
    BY <2>3 DEF SetReporters, reportVars, DF!vars
  <2>4. CASE UNCHANGED registryVars
    BY <2>4 DEF registryVars, reportVars, DF!vars
  <2>5. QED BY <2>1, <2>2, <2>3, <2>4 DEF Next
<1>3. QED BY <1>1, <1>2, RegistryInvariant, PTL DEF Spec, ImplementsDualFinality, DF!Spec

\* The verdict on no claims.
LEMMA NoClaims == DF!Verdict({}) = "Unknown"
BY DEF DF!Verdict, DF!Heard

\* The public status is a function of the accepted reports alone: which lane
\* spoke first, and what was stored or refused on the way, cannot be told from it.
StatusIsVerdict == \A f \in Fixtures : status[f] = DF!Verdict(accepted[f])

\* For every fixture, at all times.
THEOREM VerdictCorrect == Spec => []StatusIsVerdict
<1>1. Init => StatusIsVerdict
  BY NoClaims DEF Init, StatusIsVerdict
<1>2. TypeOK /\ StatusIsVerdict /\ [DF!Next]_(DF!vars) => StatusIsVerdict'
  <2> SUFFICES ASSUME TypeOK, StatusIsVerdict, DF!Next \/ UNCHANGED DF!vars
               PROVE  StatusIsVerdict'
    OBVIOUS
  <2>1. ASSUME NEW f \in Fixtures, NEW c, DF!Take(f, c)
        PROVE  StatusIsVerdict'
    <3>1. /\ accepted'[f] = accepted[f] \union {c}
          /\ status'[f] = DF!Verdict(accepted[f] \union {c})
          /\ \A g \in Fixtures \ {f} : accepted'[g] = accepted[g] /\ status'[g] = status[g]
      BY <2>1 DEF DF!Take, TypeOK
    <3>2. DF!Verdict(accepted'[f]) = status'[f]
      BY <3>1
    <3>3. \A g \in Fixtures \ {f} : status'[g] = DF!Verdict(accepted'[g])
      BY <3>1 DEF StatusIsVerdict
    <3>4. QED BY <3>2, <3>3 DEF StatusIsVerdict
  <2>2. CASE UNCHANGED DF!vars
    BY <2>2 DEF DF!vars, StatusIsVerdict
  <2>3. QED BY <2>1, <2>2 DEF DF!Next
<1>3. QED
  BY <1>1, <1>2, TypeCorrect, RegistryImplementsDualFinality, PTL
     DEF Spec, ImplementsDualFinality, DF!Spec

\* A frozen fixture has seen two reports that differ.
LEMMA ConflictIsReal ==
    ASSUME TypeOK, StatusIsVerdict, NEW f \in Fixtures, status[f] = "Conflict"
    PROVE  \E c, d \in accepted[f] : c.id # d.id
<1> DEFINE C == accepted[f]
<1>1. DF!Verdict(C) = "Conflict" /\ \A c \in C : c.lane \in Lanes
  BY DEF StatusIsVerdict, TypeOK
<1> SUFFICES ASSUME \A c, d \in C : c.id = d.id PROVE FALSE
  OBVIOUS
<1> HIDE DEF C
<1>2. C = {} => DF!Verdict(C) = "Unknown"
  BY NoClaims
<1>3. PICK c \in C : TRUE
  BY <1>1, <1>2
<1>4. DF!Heard(C, "level3") \/ DF!Heard(C, "level4")
  BY <1>1, <1>3 DEF DF!Heard, Lanes
<1>5. QED BY <1>1, <1>3, <1>4 DEF DF!Verdict

-----------------------------------------------------------------------------
\* A CRE report that does not revert is a Level 3 report of the registry.
LEMMA OnReportIsReport ==
    ASSUME NEW sender, NEW r \in Reports, OnReport(sender, r)
    PROVE  /\ r.fixture \in Fixtures /\ r.id \in AttestationIds /\ r.result \in Results
           /\ ReportLevel3(Level3Address, r.fixture, r.id, r.result)
           /\ Report("level3", r.fixture, r.id, r.result)
BY BaseAssumption DEF OnReport, ReportLevel3

\* A VAA that is consumed is a Level 4 report of the registry.
LEMMA ConsumeIsReport ==
    ASSUME NEW v \in Vaas, ConsumeVaa(v)
    PROVE  /\ v.body.fixture \in Fixtures /\ IdOf(v.body) \in AttestationIds
           /\ v.body.result \in Results
           /\ ReportLevel4(Level4Address, v.body.fixture, IdOf(v.body), v.body.result)
           /\ Report("level4", v.body.fixture, IdOf(v.body), v.body.result)
BY BaseAssumption DEF ConsumeVaa, ReportLevel4

\* The transactions of the stack, by what they touch.
LEMMA BaseStep ==
    ASSUME BaseNext
    PROVE  \/ \E sender \in Accounts : Administer(sender)
           \/ \E sender \in Accounts, r \in Reports : OnReport(sender, r)
           \/ \E v \in Vaas : ConsumeVaa(v)
           \/ \E sender \in Accounts : ClaimPayout(sender)
           \/ Settle
BY DEF BaseNext, OnReportVaa, SubmitVaa

\* Administration leaves reports, stores and market alone.
LEMMA AdminFrame ==
    ASSUME NEW sender \in Accounts, Administer(sender)
    PROVE  /\ UNCHANGED <<reportVars, level3Vars, level4Vars, market>>
           /\ [Next]_registryVars
<1>1. sender \in Addresses /\ Level3Address \in Addresses /\ Level4Address \in Addresses
  BY BaseAssumption
<1>2. CASE WireReporters(sender)
  BY <1>1, <1>2 DEF WireReporters, SetReporters, Next
<1>3. ASSUME NEW new \in Accounts \union {ZeroAddress}, TransferRegistryOwnership(sender, new)
      PROVE  /\ UNCHANGED <<reportVars, level3Vars, level4Vars, market>>
             /\ [Next]_registryVars
  BY <1>1, <1>3, BaseAssumption DEF TransferRegistryOwnership, TransferRegistry, Next
<1>4. ASSUME NEW new, NEW d, TransferOwnership(d, sender, new) \/ SetForwarder(d, sender, new)
      PROVE  /\ UNCHANGED <<reportVars, level3Vars, level4Vars, market>>
             /\ [Next]_registryVars
  BY <1>4 DEF TransferOwnership, SetForwarder, registryVars
<1>5. QED BY <1>2, <1>3, <1>4 DEF Administer

\* Seen from the registry, the deployed stack is the registry alone.
LEMMA BaseNextIsNext == BaseNext => [Next]_registryVars
<1> SUFFICES ASSUME BaseNext PROVE [Next]_registryVars
  OBVIOUS
<1>1. Level3Address \in Addresses /\ Level4Address \in Addresses
  BY BaseAssumption
<1>2. ASSUME NEW sender \in Accounts, NEW r \in Reports, OnReport(sender, r)
      PROVE  Next
  BY <1>1, <1>2, OnReportIsReport DEF Next
<1>3. ASSUME NEW v \in Vaas, ConsumeVaa(v)
      PROVE  Next
  BY <1>1, <1>3, ConsumeIsReport DEF Next
<1>4. ASSUME NEW sender \in Accounts, ClaimPayout(sender) \/ Settle
      PROVE  UNCHANGED registryVars
  BY <1>4 DEF ClaimPayout, Settle
<1>5. QED BY <1>2, <1>3, <1>4, BaseStep, AdminFrame DEF Settle

\* The deployed stack implements the registry's specification: the receivers
\* drive it only through the transactions its own specification allows.
THEOREM BaseImplementsRegistry == BaseSpec => Spec
<1>1. BaseInit => Init
  BY DEF BaseInit
<1>2. [BaseNext]_vars => [Next]_registryVars
  BY BaseNextIsNext DEF vars
<1>3. QED BY <1>1, <1>2, PTL DEF BaseSpec, Spec

\* So the deployed stack keeps the promise of dual finality as well.
THEOREM BaseImplementsDualFinality == BaseSpec => ImplementsDualFinality
BY BaseImplementsRegistry, RegistryImplementsDualFinality, PTL

-----------------------------------------------------------------------------
\* Replay protection.

\* The invariant of both lanes' replay protection.
Spent == VaaSpentExactly /\ Level3SpentExactly

\* What a delivery adds to the accepted reports, and nothing else.
LEMMA OnReportAccepts ==
    ASSUME TypeOK, NEW sender, NEW r \in Reports, OnReport(sender, r)
    PROVE  \A g \in Fixtures :
              accepted'[g] = IF g = r.fixture
                             THEN accepted[g] \union {[lane |-> "level3", id |-> r.id]}
                             ELSE accepted[g]
BY DEF OnReport, ReportLevel3, Report, TypeOK

\* A consumed VAA is accepted for its own fixture and for no other.
LEMMA ConsumeAccepts ==
    ASSUME TypeOK, NEW v \in Vaas, ConsumeVaa(v)
    PROVE  \A g \in Fixtures :
              accepted'[g] = IF g = v.body.fixture
                             THEN accepted[g] \union {[lane |-> "level4", id |-> IdOf(v.body)]}
                             ELSE accepted[g]
BY DEF ConsumeVaa, ReportLevel4, Report, TypeOK

\* Consuming a VAA keeps the Level 4 replay protection exact.
LEMMA ConsumeVaaSpent ==
    ASSUME TypeOK, Spent, NEW v \in Vaas, ConsumeVaa(v)
    PROVE  Spent'
<1> DEFINE b == v.body
           c == [lane |-> "level4", id |-> IdOf(b)]
<1>1. /\ b \notin consumedVaaHashes /\ b.sequence \notin consumedSequences
      /\ consumedVaaHashes' = consumedVaaHashes \union {b}
      /\ consumedSequences' = consumedSequences \union {b.sequence}
      /\ consumedAttestations' = consumedAttestations
  BY DEF ConsumeVaa, Fresh, level3Vars
<1>2. \A g \in Fixtures :
         accepted'[g] = IF g = b.fixture THEN accepted[g] \union {c} ELSE accepted[g]
  BY ConsumeAccepts
<1>3. b.fixture \in Fixtures
  BY BaseAssumption
<1>4. VaaSpentExactly'
  <2>1. consumedSequences' = {h.sequence : h \in consumedVaaHashes'}
    BY <1>1 DEF Spent, VaaSpentExactly
  <2>2. \A h, k \in consumedVaaHashes' : h.sequence = k.sequence => h = k
    BY <1>1 DEF Spent, VaaSpentExactly
  <2>3. \A h \in consumedVaaHashes' : [lane |-> "level4", id |-> IdOf(h)] \in accepted'[h.fixture]
    <3>1. SUFFICES ASSUME NEW h \in consumedVaaHashes'
                   PROVE [lane |-> "level4", id |-> IdOf(h)] \in accepted'[h.fixture]
      OBVIOUS
    <3>2. CASE h = b BY <1>2, <1>3, <3>2
    <3>3. CASE h \in consumedVaaHashes
      <4>1. [lane |-> "level4", id |-> IdOf(h)] \in accepted[h.fixture]
        BY <3>3 DEF Spent, VaaSpentExactly
      <4>2. CASE h.fixture \in Fixtures BY <4>1, <4>2, <1>2
      <4>3. CASE h.fixture \notin Fixtures
        BY <4>1, <4>3 DEF ConsumeVaa, ReportLevel4, Report, TypeOK
      <4>4. QED BY <4>2, <4>3
    <3>4. QED BY <1>1, <3>2, <3>3
  <2>4. \A f \in Fixtures : \A x \in accepted'[f] :
           x.lane = "level4" => \E h \in consumedVaaHashes' : h.fixture = f /\ IdOf(h) = x.id
    <3>1. SUFFICES ASSUME NEW f \in Fixtures, NEW x \in accepted'[f], x.lane = "level4"
                   PROVE \E h \in consumedVaaHashes' : h.fixture = f /\ IdOf(h) = x.id
      OBVIOUS
    <3>2. CASE x \in accepted[f]
      BY <1>1, <3>1, <3>2 DEF Spent, VaaSpentExactly
    <3>3. CASE f = b.fixture /\ x = c
      BY <1>1, <3>3
    <3>4. QED BY <1>2, <3>2, <3>3
  <2>5. QED BY <2>1, <2>2, <2>3, <2>4 DEF VaaSpentExactly, IdOf, Compute
<1>5. Level3SpentExactly'
  <2>1. \A f \in Fixtures : \A x \in accepted'[f] : x.lane = "level3" => x \in accepted[f]
    <3>1. c.lane # "level3"
      OBVIOUS
    <3>2. \A f \in Fixtures : \A x \in accepted'[f] : x \in accepted[f] \/ x = c
      BY <1>2
    <3> HIDE DEF c
    <3>3. QED BY <3>1, <3>2
  <2>2. \A f \in Fixtures : accepted[f] \subseteq accepted'[f]
    BY <1>2
  <2>3. \A f \in Fixtures : \A x \in accepted'[f] :
           x.lane = "level3" => x.id \in consumedAttestations'
    BY <1>1, <2>1 DEF Spent, Level3SpentExactly
  <2>4. \A id \in consumedAttestations :
           \E f \in Fixtures :
               /\ [lane |-> "level3", id |-> id] \in accepted'[f]
               /\ \A g \in Fixtures \ {f} :
                      [lane |-> "level3", id |-> id] \notin accepted'[g]
    <3>1. SUFFICES ASSUME NEW id \in consumedAttestations
                   PROVE \E f \in Fixtures :
                            /\ [lane |-> "level3", id |-> id] \in accepted'[f]
                            /\ \A g \in Fixtures \ {f} :
                                   [lane |-> "level3", id |-> id] \notin accepted'[g]
      OBVIOUS
    <3>2. PICK f \in Fixtures :
             /\ [lane |-> "level3", id |-> id] \in accepted[f]
             /\ \A g \in Fixtures \ {f} :
                    [lane |-> "level3", id |-> id] \notin accepted[g]
      BY DEF Spent, Level3SpentExactly
    <3>3. [lane |-> "level3", id |-> id].lane = "level3"
      OBVIOUS
    <3>4. QED BY <2>1, <2>2, <3>2, <3>3
  <2>5. QED BY <1>1, <2>3, <2>4 DEF Level3SpentExactly
<1>6. QED BY <1>4, <1>5 DEF Spent

\* Delivering a CRE report keeps the Level 3 replay protection exact.
LEMMA OnReportSpent ==
    ASSUME TypeOK, Spent, NEW sender, NEW r \in Reports, OnReport(sender, r)
    PROVE  Spent'
<1> DEFINE c == [lane |-> "level3", id |-> r.id]
<1>1. /\ r.id \notin consumedAttestations
      /\ consumedAttestations' = consumedAttestations \union {r.id}
      /\ consumedVaaHashes' = consumedVaaHashes /\ consumedSequences' = consumedSequences
  BY DEF OnReport, level4Vars
<1>2. \A g \in Fixtures :
         accepted'[g] = IF g = r.fixture THEN accepted[g] \union {c} ELSE accepted[g]
  BY OnReportAccepts
<1>3. r.fixture \in Fixtures
  BY BaseAssumption
<1>4. \A g \in Fixtures : c \notin accepted[g]
  BY <1>1 DEF Spent, Level3SpentExactly
<1>5. Level3SpentExactly'
  <2>1. \A f \in Fixtures : \A x \in accepted'[f] :
           x.lane = "level3" => x.id \in consumedAttestations'
    <3>1. c.id = r.id
      OBVIOUS
    <3>2. \A f \in Fixtures : \A x \in accepted'[f] : x \in accepted[f] \/ x = c
      BY <1>2
    <3> HIDE DEF c
    <3>3. QED BY <1>1, <3>1, <3>2 DEF Spent, Level3SpentExactly
  <2>2. ASSUME NEW id \in consumedAttestations
        PROVE  \E f \in Fixtures :
                  /\ [lane |-> "level3", id |-> id] \in accepted'[f]
                  /\ \A g \in Fixtures \ {f} : [lane |-> "level3", id |-> id] \notin accepted'[g]
    <3>1. PICK f \in Fixtures :
             /\ [lane |-> "level3", id |-> id] \in accepted[f]
             /\ \A g \in Fixtures \ {f} : [lane |-> "level3", id |-> id] \notin accepted[g]
      BY DEF Spent, Level3SpentExactly
    <3>2. \A g \in Fixtures : [lane |-> "level3", id |-> id] \in accepted'[g] =>
                               [lane |-> "level3", id |-> id] \in accepted[g]
      <4>1. [lane |-> "level3", id |-> id] # c
        BY <1>1
      <4> HIDE DEF c
      <4>2. QED BY <1>2, <4>1
    <3>3. [lane |-> "level3", id |-> id] \in accepted'[f]
      <4> HIDE DEF c
      <4>1. QED BY <1>2, <3>1
    <3>4. QED BY <3>1, <3>2, <3>3
  <2>3. /\ c \in accepted'[r.fixture]
        /\ \A g \in Fixtures \ {r.fixture} : c \notin accepted'[g]
    BY <1>2, <1>3, <1>4
  <2>4. QED BY <1>1, <1>3, <2>1, <2>2, <2>3 DEF Level3SpentExactly
<1>6. VaaSpentExactly'
  <2>1. \A f \in Fixtures : \A x \in accepted'[f] : x.lane = "level4" => x \in accepted[f]
    <3>1. c.lane # "level4"
      OBVIOUS
    <3>2. \A f \in Fixtures : \A x \in accepted'[f] : x \in accepted[f] \/ x = c
      BY <1>2
    <3> HIDE DEF c
    <3>3. QED BY <3>1, <3>2
  <2>2. \A h \in consumedVaaHashes :
           [lane |-> "level4", id |-> IdOf(h)] \in accepted'[h.fixture]
    <3>1. SUFFICES ASSUME NEW h \in consumedVaaHashes
                   PROVE [lane |-> "level4", id |-> IdOf(h)] \in accepted'[h.fixture]
      OBVIOUS
    <3>2. [lane |-> "level4", id |-> IdOf(h)] \in accepted[h.fixture]
      BY DEF Spent, VaaSpentExactly
    <3>3. CASE h.fixture \in Fixtures BY <1>2, <3>2, <3>3
    <3>4. CASE h.fixture \notin Fixtures
      BY <3>2, <3>4 DEF OnReport, ReportLevel3, Report, TypeOK
    <3>5. QED BY <3>3, <3>4
  <2>3. QED BY <1>1, <2>1, <2>2 DEF Spent, VaaSpentExactly, IdOf, Compute
<1>7. QED BY <1>5, <1>6 DEF Spent

\* The two replay-protection invariants speak of these variables only.
LEMMA SpentStutter ==
    ASSUME Spent, UNCHANGED <<reportVars, level3Vars, level4Vars>>
    PROVE  Spent'
BY DEF Spent, VaaSpentExactly, Level3SpentExactly, reportVars, level3Vars, level4Vars,
       IdOf, Compute

\* Nothing is used up, and nothing was accepted, at deployment.
LEMMA InitSpent == BaseInit => Spent
BY DEF BaseInit, Init, Spent, VaaSpentExactly, Level3SpentExactly

\* Replay protection is exact on both lanes, whatever VAAs and reports are
\* delivered, by whom and how often: one VAA per sequence, one fixture per
\* Level 3 digest, and nothing consumed by a delivery that was refused.
THEOREM SpentInvariant == BaseSpec => []Spent
<1>1. TypeOK /\ Spent /\ [BaseNext]_vars => Spent'
  <2> SUFFICES ASSUME TypeOK, Spent, [BaseNext]_vars PROVE Spent'
    OBVIOUS
  <2>1. ASSUME NEW sender \in Accounts, Administer(sender)
        PROVE  Spent'
    BY <2>1, AdminFrame, SpentStutter
  <2>2. ASSUME NEW sender \in Accounts, NEW r \in Reports, OnReport(sender, r)
        PROVE  Spent'
    BY <2>2, OnReportSpent
  <2>3. ASSUME NEW v \in Vaas, ConsumeVaa(v)
        PROVE  Spent'
    BY <2>3, ConsumeVaaSpent
  <2>4. ASSUME NEW sender \in Accounts, ClaimPayout(sender) \/ Settle
        PROVE  Spent'
    BY <2>4, SpentStutter DEF ClaimPayout, Settle, registryVars
  <2>5. CASE Settle
    BY <2>5, SpentStutter DEF Settle, registryVars
  <2>6. CASE UNCHANGED vars
    BY <2>6, SpentStutter DEF vars, registryVars
  <2>7. QED BY <2>1, <2>2, <2>3, <2>4, <2>5, <2>6, BaseStep
<1>2. QED BY <1>1, InitSpent, BaseImplementsRegistry, TypeCorrect, PTL DEF BaseSpec

\* As the runs state it, lane by lane.
THEOREM VaaSpentCorrect == BaseSpec => []VaaSpentExactly
<1>1. Spent => VaaSpentExactly BY DEF Spent
<1>2. QED BY <1>1, SpentInvariant, PTL

\* The forwarder's reports are used up exactly as they are accepted, one by one.
THEOREM Level3SpentCorrect == BaseSpec => []Level3SpentExactly
<1>1. Spent => Level3SpentExactly BY DEF Spent
<1>2. QED BY <1>1, SpentInvariant, PTL

-----------------------------------------------------------------------------
\* The Level 4 receiver and the registry.

\* The invariant: the receiver's copy is the registry's, and both are backed.
Level4Inv ==
    /\ level4Store \in [Fixtures ->
           [attestationId : AttestationIds, result : ValidResults,
            vaaHash : {v.body : v \in Vaas}, exists : {TRUE}] \union {NoLevel4}]
    /\ ReceiverMirrorsRegistry
    /\ Level4Backed

\* A CRE report leaves the Level 4 lane of the registry alone.
LEMMA OnReportKeepsLevel4 ==
    ASSUME TypeOK, NEW sender, NEW r \in Reports, OnReport(sender, r)
    PROVE  /\ \A f \in Fixtures : attestation'["level4"][f] = attestation["level4"][f]
           /\ UNCHANGED level4Vars
BY BaseAssumption
   DEF OnReport, ReportLevel3, Report, FirstReport, SelfContradiction, TypeOK, Lanes

\* Receiver and registry agree on whether a VAA is the first of its fixture.
LEMMA ConsumeStores ==
    ASSUME TypeOK, Level4Inv, NEW v \in Vaas, ConsumeVaa(v)
    PROVE  \/ /\ Has("level4", v.body.fixture)
              /\ UNCHANGED <<attestation, level4Store>>
           \/ /\ ~Has("level4", v.body.fixture)
              /\ level4Store' = [level4Store EXCEPT ![v.body.fixture] =
                     [attestationId |-> IdOf(v.body), result |-> v.body.result,
                      vaaHash |-> v.body, exists |-> TRUE]]
              /\ attestation' = [attestation EXCEPT !["level4"][v.body.fixture] =
                     [attestationId |-> IdOf(v.body), result |-> v.body.result,
                      exists |-> TRUE]]
<1>1. v.body.fixture \in Fixtures
  BY BaseAssumption
<1>2. /\ level4Store[v.body.fixture].exists = Has("level4", v.body.fixture)
      /\ level4Store[v.body.fixture].attestationId =
             attestation["level4"][v.body.fixture].attestationId
  BY <1>1 DEF Level4Inv, ReceiverMirrorsRegistry
<1>3. \/ SelfContradiction("level4", v.body.fixture, IdOf(v.body))
      \/ FirstReport("level4", v.body.fixture, IdOf(v.body), v.body.result)
  BY DEF ConsumeVaa, ReportLevel4, Report
<1>4. StoreOutcome(v.body)
  BY DEF ConsumeVaa
<1>5. CASE Has("level4", v.body.fixture)
  BY <1>2, <1>3, <1>4, <1>5 DEF StoreOutcome, SelfContradiction, FirstReport, Has
<1>6. CASE ~Has("level4", v.body.fixture)
  BY <1>2, <1>3, <1>4, <1>6 DEF StoreOutcome, SelfContradiction, FirstReport, Has
<1>7. QED BY <1>5, <1>6

\* A consumed VAA backs what the Level 4 receiver stores.
LEMMA ConsumeKeepsLevel4Inv ==
    ASSUME TypeOK, Level4Inv, NEW v \in Vaas, ConsumeVaa(v)
    PROVE  Level4Inv'
<1> DEFINE h == v.body.fixture
<1>1. h \in Fixtures /\ IdOf(v.body) \in AttestationIds /\ v.body.result \in ValidResults
  BY BaseAssumption DEF ConsumeVaa, Authentic
<1>2. /\ v.signed /\ v.body.chain = SourceChain /\ v.body.emitter = RegisteredEmitter
      /\ v.body.destination = OurChain
      /\ consumedVaaHashes' = consumedVaaHashes \union {v.body}
  BY DEF ConsumeVaa, Authentic
<1>3. level4Store \in [Fixtures ->
           [attestationId : AttestationIds, result : ValidResults,
            vaaHash : {w.body : w \in Vaas}, exists : {TRUE}] \union {NoLevel4}]
  BY DEF Level4Inv
<1>4. CASE Has("level4", h) /\ UNCHANGED <<attestation, level4Store>>
  BY <1>2, <1>4 DEF Level4Inv, ReceiverMirrorsRegistry, Level4Backed, Has, Backs, IdOf, Compute
<1>5. CASE /\ level4Store' = [level4Store EXCEPT ![h] =
                  [attestationId |-> IdOf(v.body), result |-> v.body.result,
                   vaaHash |-> v.body, exists |-> TRUE]]
           /\ attestation' = [attestation EXCEPT !["level4"][h] =
                  [attestationId |-> IdOf(v.body), result |-> v.body.result,
                   exists |-> TRUE]]
  <2>1. attestation \in [Lanes -> [Fixtures -> AttestationRecord]]
    BY DEF TypeOK
  <2>2. /\ attestation'["level4"][h] = [attestationId |-> IdOf(v.body),
                                        result |-> v.body.result, exists |-> TRUE]
        /\ level4Store'[h] = [attestationId |-> IdOf(v.body), result |-> v.body.result,
                              vaaHash |-> v.body, exists |-> TRUE]
    BY <1>1, <1>3, <1>5, <2>1 DEF Lanes
  <2>3. \A f \in Fixtures \ {h} : /\ attestation'["level4"][f] = attestation["level4"][f]
                                  /\ level4Store'[f] = level4Store[f]
    BY <1>1, <1>3, <1>5, <2>1 DEF Lanes
  <2>4. level4Store' \in [Fixtures ->
           [attestationId : AttestationIds, result : ValidResults,
            vaaHash : {w.body : w \in Vaas}, exists : {TRUE}] \union {NoLevel4}]
    BY <1>1, <1>3, <1>5
  <2>5. ReceiverMirrorsRegistry'
    <3> DEFINE Mirrors(f) == /\ level4Store[f].exists = attestation["level4"][f].exists
                             /\ level4Store[f].attestationId =
                                    attestation["level4"][f].attestationId
                             /\ level4Store[f].result = attestation["level4"][f].result
    <3>1. ReceiverMirrorsRegistry <=> \A f \in Fixtures : Mirrors(f)
      BY DEF ReceiverMirrorsRegistry, Has
    <3>2. Mirrors(h)'
      BY <2>2
    <3>3. \A f \in Fixtures \ {h} : Mirrors(f)'
      BY <2>3, <3>1 DEF Level4Inv
    <3> HIDE DEF Mirrors
    <3>4. (\A f \in Fixtures : Mirrors(f))'
      BY <3>2, <3>3
    <3>5. QED BY <3>4 DEF ReceiverMirrorsRegistry, Has, Mirrors
  <2>6. Level4Backed'
    <3>1. Backs(v, h)'
      BY <1>2, <2>2 DEF Backs, IdOf, Compute
    <3>2. ASSUME NEW f \in Fixtures, f # h, Has("level4", f)'
          PROVE  \E w \in Vaas : Backs(w, f)'
      <4>1. PICK w \in Vaas : Backs(w, f)
        BY <2>3, <3>2 DEF Level4Inv, Level4Backed, Has
      <4>2. Backs(w, f)'
        BY <1>2, <2>3, <3>2, <4>1 DEF Backs, IdOf, Compute
      <4>3. QED BY <4>2
    <3>3. QED BY <3>1, <3>2 DEF Level4Backed
  <2>7. QED BY <2>4, <2>5, <2>6 DEF Level4Inv
<1>6. QED BY <1>4, <1>5, ConsumeStores

\* Anything that leaves the Level 4 lane alone keeps its invariant.
LEMMA Level4Stutter ==
    ASSUME Level4Inv, UNCHANGED level4Vars,
           \A f \in Fixtures : attestation'["level4"][f] = attestation["level4"][f]
    PROVE  Level4Inv'
<1>1. UNCHANGED <<consumedVaaHashes, level4Store>>
  BY DEF level4Vars
<1>2. \A f \in Fixtures, w \in Vaas : Backs(w, f) => Backs(w, f)'
  BY <1>1 DEF Backs, IdOf, Compute
<1>3. Level4Backed'
  BY <1>2 DEF Level4Inv, Level4Backed, Has
<1>4. ReceiverMirrorsRegistry'
  BY <1>1 DEF Level4Inv, ReceiverMirrorsRegistry, Has
<1>5. QED BY <1>1, <1>3, <1>4 DEF Level4Inv

\* At deployment there is nothing to back.
LEMMA InitLevel4 == BaseInit => Level4Inv
<1> SUFFICES ASSUME BaseInit PROVE Level4Inv
  OBVIOUS
<1>1. /\ attestation = [l \in Lanes |-> [f \in Fixtures |-> NoRecord]]
      /\ level4Store = [f \in Fixtures |-> NoLevel4]
  BY DEF BaseInit, Init
<1>2. \A f \in Fixtures : attestation["level4"][f] = NoRecord /\ level4Store[f] = NoLevel4
  BY <1>1 DEF Lanes
<1>3. ReceiverMirrorsRegistry /\ Level4Backed
  <2>1. /\ NoLevel4.exists = NoRecord.exists
        /\ NoLevel4.attestationId = NoRecord.attestationId
        /\ NoLevel4.result = NoRecord.result
        /\ ~NoRecord.exists
    BY DEF NoRecord, NoLevel4
  <2>2. QED BY <1>2, <2>1 DEF ReceiverMirrorsRegistry, Level4Backed, Has
<1>4. QED BY <1>1, <1>3 DEF Level4Inv

\* The Level 4 lane stands on a quorum VAA and both of its copies agree, in
\* every reachable state of every deployment.
THEOREM Level4Invariant == BaseSpec => []Level4Inv
<1>1. TypeOK /\ Level4Inv /\ [BaseNext]_vars => Level4Inv'
  <2> SUFFICES ASSUME TypeOK, Level4Inv, [BaseNext]_vars PROVE Level4Inv'
    OBVIOUS
  <2>1. ASSUME NEW sender \in Accounts, Administer(sender)
        PROVE  Level4Inv'
    BY <2>1, AdminFrame, Level4Stutter DEF reportVars
  <2>2. ASSUME NEW sender \in Accounts, NEW r \in Reports, OnReport(sender, r)
        PROVE  Level4Inv'
    BY <2>2, OnReportKeepsLevel4, Level4Stutter
  <2>3. ASSUME NEW v \in Vaas, ConsumeVaa(v)
        PROVE  Level4Inv'
    BY <2>3, ConsumeKeepsLevel4Inv
  <2>4. ASSUME NEW sender \in Accounts, ClaimPayout(sender)
        PROVE  Level4Inv'
    BY <2>4, Level4Stutter DEF ClaimPayout, registryVars, reportVars
  <2>5. CASE Settle
    BY <2>5, Level4Stutter DEF Settle, registryVars, reportVars
  <2>6. CASE UNCHANGED vars
    BY <2>6, Level4Stutter DEF vars, registryVars, reportVars
  <2>7. QED BY <2>1, <2>2, <2>3, <2>4, <2>5, <2>6, BaseStep
<1>2. QED BY <1>1, InitLevel4, BaseImplementsRegistry, TypeCorrect, PTL DEF BaseSpec

\* Whatever the registry holds for Level 4 came in an authentic quorum VAA.
THEOREM Level4BackedCorrect == BaseSpec => []Level4Backed
<1>1. Level4Inv => Level4Backed BY DEF Level4Inv
<1>2. QED BY <1>1, Level4Invariant, PTL

\* The Level 4 receiver's copy of an outcome and the registry's never differ.
THEOREM MirrorCorrect == BaseSpec => []ReceiverMirrorsRegistry
<1>1. Level4Inv => ReceiverMirrorsRegistry BY DEF Level4Inv
<1>2. QED BY <1>1, Level4Invariant, PTL

-----------------------------------------------------------------------------
\* The market.

\* The market's books, and what its settlement rests on.
MarketInv ==
    /\ market \in [settled : BOOLEAN, winningOutcome : {0} \union ValidResults,
                   claimed : BOOLEAN, balance : {0, Escrow}, paid : {0, Escrow}]
    /\ market.settled =>
           /\ status[MarketFixture] = "DualFinalized"
           /\ market.winningOutcome = attestation["level4"][MarketFixture].result
    /\ market.claimed => market.settled
    /\ market.balance + market.paid = Escrow
    /\ market.paid > 0 <=> market.claimed

\* The market is deployed open and funded.
LEMMA InitMarket == BaseInit => MarketInv
BY BaseAssumption DEF BaseInit, MarketInv

\* Reports never touch a finalised fixture, so a settled market stands.
LEMMA MarketStutter ==
    ASSUME StatusMatchesRecords, MarketInv, UNCHANGED market,
           \A l \in Lanes, f \in Fixtures :
               Has(l, f) => attestation'[l][f] = attestation[l][f],
           \A f \in Fixtures : status[f] \in Closed => status'[f] = status[f]
    PROVE  MarketInv'
<1>1. MarketFixture \in Fixtures
  BY BaseAssumption
<1>2. ASSUME market.settled
      PROVE  /\ status'[MarketFixture] = "DualFinalized"
             /\ attestation'["level4"][MarketFixture] = attestation["level4"][MarketFixture]
  <2>1. status[MarketFixture] = "DualFinalized"
    BY <1>2 DEF MarketInv
  <2>2. Has("level4", MarketFixture)
    BY <1>1, <2>1 DEF StatusMatchesRecords
  <2>3. QED BY <1>1, <2>1, <2>2 DEF Closed, Lanes
<1>3. QED BY <1>2 DEF MarketInv

\* A settlement takes the Level 4 result of a fixture that is dual-finalised.
LEMMA SettleKeepsMarket ==
    ASSUME TypeOK, MarketInv, Settle
    PROVE  MarketInv'
<1>1. attestation["level4"][MarketFixture] \in AttestationRecord
  BY BaseAssumption DEF TypeOK, Lanes
<1>2. attestation["level4"][MarketFixture].result \in {0} \union ValidResults
  <2>1. \A x \in AttestationRecord : x.result \in {0} \union ValidResults
    <3>1. ASSUME NEW x, x = NoRecord
          PROVE  x.result = 0
      BY <3>1 DEF NoRecord
    <3>2. ASSUME NEW x \in [attestationId : AttestationIds, result : ValidResults,
                            exists : {TRUE}]
          PROVE  x.result \in ValidResults
      BY <3>2
    <3>3. QED BY <3>1, <3>2 DEF AttestationRecord
  <2>2. QED BY <1>1, <2>1
<1>3. /\ market' = [market EXCEPT !.settled = TRUE,
                !.winningOutcome = attestation["level4"][MarketFixture].result]
      /\ status[MarketFixture] = "DualFinalized"
      /\ UNCHANGED <<status, attestation>>
  BY DEF Settle, FinalOutcome, registryVars, reportVars
<1>4. QED BY <1>2, <1>3 DEF MarketInv

\* A payout happens once, after the settlement.
LEMMA ClaimKeepsMarket ==
    ASSUME MarketInv, NEW sender, ClaimPayout(sender)
    PROVE  MarketInv'
<1>1. /\ market.settled /\ ~market.claimed
      /\ market' = [market EXCEPT !.claimed = TRUE, !.balance = 0,
                                  !.paid = @ + market.balance]
      /\ UNCHANGED <<status, attestation>>
  BY DEF ClaimPayout, registryVars, reportVars
<1>2. Escrow \in Nat \ {0}
  BY BaseAssumption
<1>3. market.paid + market.balance = Escrow
  BY <1>2 DEF MarketInv
<1>4. market' = [settled |-> TRUE, winningOutcome |-> market.winningOutcome,
                 claimed |-> TRUE, balance |-> 0, paid |-> Escrow]
  BY <1>1, <1>3 DEF MarketInv
<1>5. /\ market'.settled = TRUE /\ market'.claimed = TRUE
      /\ market'.balance = 0 /\ market'.paid = Escrow
      /\ market'.winningOutcome = market.winningOutcome
  BY <1>4
<1>6. market' \in [settled : BOOLEAN, winningOutcome : {0} \union ValidResults,
                  claimed : BOOLEAN, balance : {0, Escrow}, paid : {0, Escrow}]
  BY <1>4 DEF MarketInv
<1>7. market'.balance + market'.paid = Escrow /\ market'.paid > 0
  BY <1>2, <1>5
<1>8. QED BY <1>1, <1>5, <1>6, <1>7 DEF MarketInv

\* The market's books are right, and its settlement is one the registry stands by.
THEOREM MarketInvariant == BaseSpec => []MarketInv
<1>1. TypeOK /\ StatusMatchesRecords /\ MarketInv /\ [BaseNext]_vars => MarketInv'
  <2> SUFFICES ASSUME TypeOK, StatusMatchesRecords, MarketInv, [BaseNext]_vars
               PROVE  MarketInv'
    OBVIOUS
  <2>1. Once
    BY BaseNextIsNext, OnceStep DEF vars
  <2>2. ASSUME UNCHANGED market
        PROVE  MarketInv'
    BY <2>1, <2>2, MarketStutter DEF Once
  <2>3. ASSUME NEW sender \in Accounts, Administer(sender)
        PROVE  MarketInv'
    BY <2>2, <2>3, AdminFrame
  <2>4. ASSUME NEW sender \in Accounts, NEW r \in Reports, OnReport(sender, r)
        PROVE  MarketInv'
    BY <2>2, <2>4 DEF OnReport
  <2>5. ASSUME NEW v \in Vaas, ConsumeVaa(v)
        PROVE  MarketInv'
    BY <2>2, <2>5 DEF ConsumeVaa
  <2>6. ASSUME NEW sender \in Accounts, ClaimPayout(sender)
        PROVE  MarketInv'
    BY <2>6, ClaimKeepsMarket
  <2>7. CASE Settle
    BY <2>7, SettleKeepsMarket
  <2>8. CASE UNCHANGED vars
    BY <2>2, <2>8 DEF vars
  <2>9. QED BY <2>3, <2>4, <2>5, <2>6, <2>7, <2>8, BaseStep
<1>2. QED BY <1>1, InitMarket, BaseImplementsRegistry, TypeCorrect, StatusCorrect, PTL
          DEF BaseSpec

\* A settled market stands on a fixture both lanes agreed on, its winner is
\* the registry's final outcome for ever, and the escrow is paid out once.
THEOREM SettlementCorrect == BaseSpec => []SettlementIsFinal
<1>1. TypeOK /\ StatusMatchesRecords /\ RecordsAreReports /\ MarketInv => SettlementIsFinal
  <2> SUFFICES ASSUME TypeOK, StatusMatchesRecords, RecordsAreReports, MarketInv
               PROVE  SettlementIsFinal
    OBVIOUS
  <2>1. MarketFixture \in Fixtures
    BY BaseAssumption
  <2>2. ASSUME market.settled
        PROVE  FinalOutcome(MarketFixture) =
                   [finalized |-> TRUE, result |-> market.winningOutcome]
    BY <2>2 DEF MarketInv, FinalOutcome
  <2>3. ASSUME market.settled
        PROVE  \E id \in AttestationIds : \A l \in Lanes :
                   [lane |-> l, id |-> id] \in accepted[MarketFixture]
    <3> DEFINE d == attestation["level3"][MarketFixture].attestationId
    <3>1. /\ Has("level3", MarketFixture) /\ Has("level4", MarketFixture)
          /\ attestation["level4"][MarketFixture].attestationId = d
      BY <2>1, <2>3 DEF MarketInv, StatusMatchesRecords, Agree
    <3>2. \A l \in Lanes : [lane |-> l, id |-> d] \in accepted[MarketFixture]
      BY <2>1, <3>1 DEF RecordsAreReports, Lanes
    <3>3. [lane |-> "level3", id |-> d] \in [lane : Lanes, id : AttestationIds]
      BY <2>1, <3>2 DEF TypeOK, Lanes
    <3>4. d \in AttestationIds
      BY <3>3
    <3>5. QED BY <3>2, <3>4
  <2>4. QED BY <2>2, <2>3 DEF MarketInv, SettlementIsFinal
<1>2. QED BY <1>1, MarketInvariant, BaseImplementsRegistry, TypeCorrect, StatusCorrect,
             RecordsCorrect, PTL

-----------------------------------------------------------------------------
\* The displayed winner.

\* The Level 3 record of a fixture is one of the reports for it.
Level3Backed ==
    \A f \in Fixtures : Has("level3", f) =>
        \E r \in Reports :
            attestation["level3"][f] =
                [attestationId |-> r.id, result |-> r.result, exists |-> TRUE]

\* Level 3 records that stay as they are stay backed.
LEMMA Level3Stutter ==
    ASSUME Level3Backed,
           \A f \in Fixtures : attestation'["level3"][f] = attestation["level3"][f]
    PROVE  Level3Backed'
BY DEF Level3Backed, Has

\* A CRE report records what it says, and of its own fixture only.
LEMMA OnReportKeepsLevel3Backed ==
    ASSUME TypeOK, Level3Backed, NEW sender, NEW r \in Reports, OnReport(sender, r)
    PROVE  Level3Backed'
<1> DEFINE rec == [attestationId |-> r.id, result |-> r.result, exists |-> TRUE]
<1>1. \/ UNCHANGED attestation
      \/ attestation' = [attestation EXCEPT !["level3"][r.fixture] = rec]
  BY DEF OnReport, ReportLevel3, Report, FirstReport, SelfContradiction
<1>2. attestation \in [Lanes -> [Fixtures -> AttestationRecord]]
  BY DEF TypeOK
<1> HIDE DEF rec
<1>3. \A f \in Fixtures : \/ attestation'["level3"][f] = attestation["level3"][f]
                          \/ attestation'["level3"][f] = rec
  BY <1>1, <1>2 DEF Lanes
<1>4. QED BY <1>3 DEF Level3Backed, Has, rec

\* Every Level 3 record is that of a report for its fixture.
THEOREM Level3Invariant == BaseSpec => []Level3Backed
<1>1. BaseInit => Level3Backed
  BY DEF BaseInit, Init, Level3Backed, Has, Lanes, NoRecord
<1>2. TypeOK /\ Level3Backed /\ [BaseNext]_vars => Level3Backed'
  <2> SUFFICES ASSUME TypeOK, Level3Backed, [BaseNext]_vars PROVE Level3Backed'
    OBVIOUS
  <2>1. ASSUME UNCHANGED attestation
        PROVE  Level3Backed'
    BY <2>1, Level3Stutter
  <2>2. ASSUME NEW sender \in Accounts, Administer(sender)
        PROVE  Level3Backed'
    BY <2>1, <2>2, AdminFrame DEF reportVars
  <2>3. ASSUME NEW sender \in Accounts, NEW r \in Reports, OnReport(sender, r)
        PROVE  Level3Backed'
    BY <2>3, OnReportKeepsLevel3Backed
  <2>4. ASSUME NEW v \in Vaas, ConsumeVaa(v)
        PROVE  Level3Backed'
    <3>1. \A f \in Fixtures : attestation'["level3"][f] = attestation["level3"][f]
      BY <2>4, BaseAssumption
         DEF ConsumeVaa, ReportLevel4, Report, FirstReport, SelfContradiction, TypeOK, Lanes
    <3>2. QED BY <3>1, Level3Stutter
  <2>5. ASSUME NEW sender \in Accounts, ClaimPayout(sender)
        PROVE  Level3Backed'
    BY <2>1, <2>5 DEF ClaimPayout, registryVars, reportVars
  <2>6. CASE Settle
    BY <2>1, <2>6 DEF Settle, registryVars, reportVars
  <2>7. CASE UNCHANGED vars
    BY <2>1, <2>7 DEF vars, registryVars, reportVars
  <2>8. QED BY <2>2, <2>3, <2>4, <2>5, <2>6, <2>7, BaseStep
<1>3. QED BY <1>1, <1>2, BaseImplementsRegistry, TypeCorrect, PTL DEF BaseSpec

\* What the market displays, by status.
LEMMA WinnerByStatus ==
    ASSUME NEW f
    PROVE  /\ ProvisionalWinner(f).available <=> status[f] \in {"CREAttested", "DualFinalized"}
           /\ status[f] = "CREAttested" =>
                  ProvisionalWinner(f).result = attestation["level3"][f].result
           /\ status[f] = "DualFinalized" =>
                  ProvisionalWinner(f).result = attestation["level4"][f].result
<1>1. CASE status[f] = "CREAttested"
  BY <1>1 DEF ProvisionalWinner
<1>2. CASE status[f] = "DualFinalized"
  BY <1>2 DEF ProvisionalWinner, FinalOutcome
<1>3. CASE status[f] \notin {"CREAttested", "DualFinalized"}
  BY <1>3 DEF ProvisionalWinner
<1>4. QED BY <1>1, <1>2, <1>3

\* When the lanes read the same evidence, the winner the market displays on
\* the fast lane alone is never replaced by another one.
THEOREM WinnerStands ==
    ASSUME ConsistentInputs
    PROVE  BaseSpec => ProvisionalWinnerStands
<1> DEFINE Stands ==
        \A f \in Fixtures :
            ProvisionalWinner(f).available /\ ProvisionalWinner(f)'.available =>
                ProvisionalWinner(f)'.result = ProvisionalWinner(f).result
           Facts == TypeOK /\ StatusMatchesRecords /\ Level3Backed /\ Level4Backed
<1>1. Facts /\ Facts' /\ [BaseNext]_vars => [Stands]_vars
  <2> SUFFICES ASSUME Facts, Facts', [BaseNext]_vars,
                      NEW f \in Fixtures,
                      ProvisionalWinner(f).available, ProvisionalWinner(f)'.available
               PROVE  ProvisionalWinner(f)'.result = ProvisionalWinner(f).result
    OBVIOUS
  <2>1. Once
    BY BaseNextIsNext, OnceStep DEF vars
  <2>2. /\ status[f] \in {"CREAttested", "DualFinalized"}
        /\ status'[f] \in {"CREAttested", "DualFinalized"}
    <3>1. status'[f] \notin {"CREAttested", "DualFinalized"} =>
             ~ProvisionalWinner(f)'.available
      BY DEF ProvisionalWinner
    <3>2. QED BY <3>1, WinnerByStatus
  <2>3. /\ status'[f] = "CREAttested" =>
              ProvisionalWinner(f)'.result = attestation'["level3"][f].result
        /\ status'[f] = "DualFinalized" =>
              ProvisionalWinner(f)'.result = attestation'["level4"][f].result
    BY DEF ProvisionalWinner, FinalOutcome
  <2>4. CASE status[f] = "DualFinalized"
    <3>1. Has("level4", f) /\ status'[f] = "DualFinalized"
      BY <2>1, <2>4 DEF StatusMatchesRecords, Once, Closed
    <3>2. attestation'["level4"][f] = attestation["level4"][f]
      BY <2>1, <3>1 DEF Once, Lanes
    <3>3. QED BY <2>3, <2>4, <3>1, <3>2, WinnerByStatus
  <2>5. CASE status[f] = "CREAttested"
    <3>1. attestation'["level3"][f] = attestation["level3"][f]
      BY <2>1, <2>5 DEF StatusMatchesRecords, Once, Lanes
    <3>2. CASE status'[f] = "CREAttested"
      BY <2>3, <2>5, <3>1, <3>2, WinnerByStatus
    <3>3. CASE status'[f] = "DualFinalized"
      <4>1. /\ Has("level3", f)' /\ Has("level4", f)'
            /\ attestation'["level3"][f].attestationId =
                  attestation'["level4"][f].attestationId
        BY <3>3 DEF StatusMatchesRecords, Agree
      <4>2. PICK r \in Reports :
               attestation'["level3"][f] =
                   [attestationId |-> r.id, result |-> r.result, exists |-> TRUE]
        BY <4>1 DEF Level3Backed
      <4>3. PICK v \in Vaas :
               attestation'["level4"][f] =
                   [attestationId |-> IdOf(v.body), result |-> v.body.result, exists |-> TRUE]
        BY <4>1 DEF Level4Backed, Backs, IdOf, Compute
      <4>4. r.result = v.body.result
        BY <4>1, <4>2, <4>3 DEF ConsistentInputs
      <4>5. attestation'["level3"][f].result = attestation'["level4"][f].result
        BY <4>2, <4>3, <4>4
      <4>6. QED BY <2>3, <2>5, <3>1, <3>3, <4>5, WinnerByStatus
    <3>4. QED BY <2>2, <3>2, <3>3
  <2>6. QED BY <2>2, <2>4, <2>5
<1>2. QED BY <1>1, BaseImplementsRegistry, TypeCorrect, StatusCorrect, Level3Invariant,
             Level4BackedCorrect, PTL DEF BaseSpec, ProvisionalWinnerStands

-----------------------------------------------------------------------------
\* Types.

\* What the remaining variables hold.
OwnTypes ==
    /\ owner \in [Owned -> Addresses]
    /\ forwarder \in [Receivers -> Addresses]
    /\ consumedAttestations \subseteq AttestationIds
    /\ level3Store \in [Fixtures ->
           [attestationId : AttestationIds, result : ValidResults] \union {NoLevel3}]
    /\ consumedVaaHashes \subseteq {v.body : v \in Vaas}
    /\ consumedSequences \subseteq {v.body.sequence : v \in Vaas}

\* The state the receivers and the market add to the registry's keeps its type.
THEOREM OwnTypesCorrect == BaseSpec => []OwnTypes
<1>1. BaseInit => OwnTypes
  BY BaseAssumption DEF BaseInit, OwnTypes
<1>2. OwnTypes /\ [BaseNext]_vars => OwnTypes'
  <2> SUFFICES ASSUME OwnTypes, [BaseNext]_vars PROVE OwnTypes'
    OBVIOUS
  <2>1. ASSUME NEW sender \in Accounts, WireReporters(sender)
        PROVE  OwnTypes'
    BY <2>1 DEF WireReporters, OwnTypes, adminVars, level3Vars, level4Vars
  <2>2. ASSUME NEW sender \in Accounts, NEW new \in Accounts \union {ZeroAddress},
               TransferRegistryOwnership(sender, new)
        PROVE  OwnTypes'
    BY <2>2 DEF TransferRegistryOwnership, OwnTypes, adminVars, level3Vars, level4Vars
  <2>3. ASSUME NEW sender \in Accounts, NEW new \in Accounts \union {ZeroAddress},
               NEW c \in Owned, TransferOwnership(c, sender, new)
        PROVE  OwnTypes'
    BY <2>3, BaseAssumption DEF TransferOwnership, OwnTypes, level3Vars, level4Vars
  <2>4. ASSUME NEW sender \in Accounts, NEW new \in Accounts \union {ZeroAddress},
               NEW c \in Receivers, SetForwarder(c, sender, new)
        PROVE  OwnTypes'
    BY <2>4, BaseAssumption DEF SetForwarder, OwnTypes, level3Vars, level4Vars
  <2>5. ASSUME NEW sender \in Accounts, NEW r \in Reports, OnReport(sender, r)
        PROVE  OwnTypes'
    <3>1. r.id \in AttestationIds /\ r.fixture \in Fixtures /\ r.result \in ValidResults
      BY <2>5, BaseAssumption DEF OnReport, ReportLevel3, Report
    <3>2. QED BY <2>5, <3>1 DEF OnReport, OwnTypes, adminVars, level4Vars
  <2>6. ASSUME NEW v \in Vaas, ConsumeVaa(v)
        PROVE  OwnTypes'
    BY <2>6 DEF ConsumeVaa, OwnTypes, adminVars, level3Vars
  <2>7. ASSUME NEW sender \in Accounts, ClaimPayout(sender)
        PROVE  OwnTypes'
    BY <2>7 DEF ClaimPayout, OwnTypes, adminVars, level3Vars, level4Vars
  <2>8. CASE Settle
    BY <2>8 DEF Settle, OwnTypes, adminVars, level3Vars, level4Vars
  <2>9. CASE UNCHANGED vars
    BY <2>9 DEF vars, OwnTypes, adminVars, level3Vars, level4Vars
  <2>10. QED
    BY <2>1, <2>2, <2>3, <2>4, <2>5, <2>6, <2>7, <2>8, <2>9, BaseStep DEF Administer
<1>3. QED BY <1>1, <1>2, PTL DEF BaseSpec

\* Every storage slot of the four contracts holds a value of its type.
THEOREM BaseTypeCorrect == BaseSpec => []BaseTypeOK
<1>1. TypeOK /\ OwnTypes /\ Level4Inv /\ MarketInv => BaseTypeOK
  BY DEF OwnTypes, Level4Inv, MarketInv, BaseTypeOK
<1>2. QED BY <1>1, BaseImplementsRegistry, TypeCorrect, OwnTypesCorrect, Level4Invariant,
             MarketInvariant, PTL
=============================================================================
