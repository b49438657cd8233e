-------------------------- MODULE FinalityRegistry --------------------------
(***************************************************************************)
(* contracts/base/src/FinalityRegistry.sol: the contract in which the      *)
(* Level 3 (CRE) and Level 4 (Wormhole) reports of a fixture meet.         *)
(*                                                                         *)
(* A transaction is one step.  A transaction that reverts changes nothing, *)
(* so each require/revert is a conjunct of the guard.  An attestation id   *)
(* (a keccak digest) is an element of AttestationIds; the scores travel    *)
(* with the uint8 result, which stands for the outcome.                    *)
(***************************************************************************)
EXTENDS Naturals

CONSTANTS
    Fixtures,         \* int64 fixture ids
    AttestationIds,   \* bytes32 digests a report can carry
    ZeroId,           \* bytes32(0), what an absent record holds
    Results,          \* uint8 result values a caller may pass
    Addresses,        \* accounts and contracts that can be msg.sender
    ZeroAddress,      \* address(0)
    InitialOwner      \* constructor argument

ASSUME RegistryAssumption ==
    /\ Results \subseteq 0 .. 255
    /\ ZeroAddress \notin Addresses
    /\ InitialOwner \in Addresses

VARIABLES
    registryOwner,    \* Ownable.owner
    level3Receiver,   \* the Level 3 reporter, address(0) until wired
    level4Receiver,   \* the Level 4 reporter, address(0) until wired
    status,           \* _status
    attestation,      \* _level3 and _level4, indexed by lane
    accepted          \* history: per fixture, the reports that did not revert

wiringVars == <<registryOwner, level3Receiver, level4Receiver>>
reportVars == <<status, attestation, accepted>>
registryVars == <<wiringVars, reportVars>>

\* The promise this contract keeps (THEOREM in BaseContracts_proofs).
DF == INSTANCE DualFinality WITH claims <- accepted, verdict <- status

-----------------------------------------------------------------------------

Lanes == {"level3", "level4"}

Other(lane) == IF lane = "level3" THEN "level4" ELSE "level3"

Statuses ==
    {"Unknown", "CREAttested", "WormholeVerified", "DualFinalized", "Conflict"}

\* Statuses in which _report reverts (FixtureFrozen, FixtureFinalized).
Closed == {"DualFinalized", "Conflict"}

\* HOME, DRAW, AWAY: the results _report takes.
ValidResults == 1 .. 3

NoRecord == [attestationId |-> ZeroId, result |-> 0, exists |-> FALSE]

AttestationRecord ==
    [attestationId : AttestationIds, result : ValidResults, exists : {TRUE}]
        \union {NoRecord}

\* Bug variant: two records finalise whatever their digests.
ReconcileAnyDigest(lane, other, id) ==
    IF ~other.exists
    THEN IF lane = "level3" THEN "CREAttested" ELSE "WormholeVerified"
    ELSE "DualFinalized"

\* Both lanes present: reconcile by digest equality; one lane: provisional.
Reconcile(lane, other, id) ==
    IF ~other.exists
    THEN IF lane = "level3" THEN "CREAttested" ELSE "WormholeVerified"
    ELSE IF other.attestationId = id THEN "DualFinalized" ELSE "Conflict"

-----------------------------------------------------------------------------

Init ==
    /\ registryOwner = InitialOwner
    /\ level3Receiver = ZeroAddress
    /\ level4Receiver = ZeroAddress
    /\ status = [f \in Fixtures |-> "Unknown"]
    /\ attestation = [l \in Lanes |-> [f \in Fixtures |-> NoRecord]]
    /\ accepted = [f \in Fixtures |-> {}]

\* Ownable.transferOwnership of the registry.
TransferRegistry(sender, new) ==
    /\ sender = registryOwner
    /\ new # ZeroAddress
    /\ registryOwner' = new
    /\ UNCHANGED <<level3Receiver, level4Receiver, reportVars>>

\* One-shot wiring of the two reporters.
SetReporters(sender, l3, l4) ==
    /\ sender = registryOwner
    /\ level3Receiver = ZeroAddress /\ level4Receiver = ZeroAddress
    /\ l3 # ZeroAddress /\ l4 # ZeroAddress
    /\ level3Receiver' = l3
    /\ level4Receiver' = l4
    /\ UNCHANGED <<registryOwner, reportVars>>

\* A lane contradicts its own earlier report: freeze, keep the record.
SelfContradiction(lane, f, id) ==
    /\ attestation[lane][f].exists
    /\ attestation[lane][f].attestationId # id
    /\ status' = [status EXCEPT ![f] = "Conflict"]
    /\ UNCHANGED attestation

\* The first report of a lane: store it, then reconcile with the other lane.
FirstReport(lane, f, id, result) ==
    /\ ~attestation[lane][f].exists
    /\ attestation' = [attestation EXCEPT ![lane][f] =
           [attestationId |-> id, result |-> result, exists |-> TRUE]]
    /\ status' = [status EXCEPT ![f] =
           Reconcile(lane, attestation[Other(lane)][f], id)]

\* Bug variant: only the finalised status is terminal, a frozen fixture thaws.
ReportThawing(lane, f, id, result) ==
    /\ result \in ValidResults
    /\ status[f] # "DualFinalized"
    /\ \/ SelfContradiction(lane, f, id)
       \/ FirstReport(lane, f, id, result)
    /\ accepted' = [accepted EXCEPT ![f] = @ \union {[lane |-> lane, id |-> id]}]
    /\ UNCHANGED wiringVars

\* _report, in a transaction that does not revert.
Report(lane, f, id, result) ==
    /\ result \in ValidResults
    /\ status[f] \notin Closed
    /\ \/ SelfContradiction(lane, f, id)
       \/ FirstReport(lane, f, id, result)
    /\ accepted' = [accepted EXCEPT ![f] = @ \union {[lane |-> lane, id |-> id]}]
    /\ UNCHANGED wiringVars

ReportLevel3(sender, f, id, result) ==
    /\ sender = level3Receiver /\ level3Receiver # ZeroAddress
    /\ Report("level3", f, id, result)

ReportLevel4(sender, f, id, result) ==
    /\ sender = level4Receiver /\ level4Receiver # ZeroAddress
    /\ Report("level4", f, id, result)

Next ==
    \E sender \in Addresses :
        \/ \E new \in Addresses \union {ZeroAddress} : TransferRegistry(sender, new)
        \/ \E l3, l4 \in Addresses \union {ZeroAddress} : SetReporters(sender, l3, l4)
        \/ \E f \in Fixtures, id \in AttestationIds, result \in Results :
              \/ ReportLevel3(sender, f, id, result)
              \/ ReportLevel4(sender, f, id, result)

Spec == Init /\ [][Next]_registryVars

-----------------------------------------------------------------------------

\* finalOutcome: what consumers read; the Level 4 record speaks.
FinalOutcome(f) ==
    IF status[f] = "DualFinalized"
    THEN [finalized |-> TRUE, result |-> attestation["level4"][f].result]
    ELSE [finalized |-> FALSE, result |-> 0]

-----------------------------------------------------------------------------

\* Every variable holds a value of its Solidity type.
TypeOK ==
    /\ registryOwner \in Addresses
    /\ level3Receiver \in Addresses \union {ZeroAddress}
    /\ level4Receiver \in Addresses \union {ZeroAddress}
    /\ status \in [Fixtures -> Statuses]
    /\ attestation \in [Lanes -> [Fixtures -> AttestationRecord]]
    /\ accepted \in [Fixtures -> SUBSET [lane : Lanes, id : AttestationIds]]

Has(lane, f) == attestation[lane][f].exists

Agree(f) ==
    attestation["level3"][f].attestationId = attestation["level4"][f].attestationId

\* The status byte is never stale against the two record maps it summarises:
\* an open status names exactly the lanes that have a record, DualFinalized
\* means two records with one digest, and a frozen fixture never holds two
\* agreeing records (_report updates status and maps on four different paths).
StatusMatchesRecords ==
    \A f \in Fixtures :
        /\ status[f] = "Unknown" <=> ~Has("level3", f) /\ ~Has("level4", f)
        /\ status[f] = "CREAttested" => Has("level3", f) /\ ~Has("level4", f)
        /\ status[f] = "WormholeVerified" => ~Has("level3", f) /\ Has("level4", f)
        /\ status[f] = "DualFinalized" <=>
               Has("level3", f) /\ Has("level4", f) /\ Agree(f)

\* A stored record is one that its lane's reporter delivered, and whatever
\* else a lane delivered made the fixture freeze: nothing contradictory is
\* dropped on the way to a finalised result.
RecordsAreReports ==
    \A f \in Fixtures :
        /\ \A l \in Lanes : Has(l, f) =>
               [lane |-> l, id |-> attestation[l][f].attestationId] \in accepted[f]
        /\ status[f] # "Conflict" =>
               \A c \in accepted[f] :
                   Has(c.lane, f) /\ c.id = attestation[c.lane][f].attestationId

\* "Never silently overwritten" (FinalityRegistry.sol:19): a record, once
\* stored, a terminal status and the wiring are never changed by any later
\* transaction of any sender.
WriteOnce ==
    [][ /\ \A l \in Lanes, f \in Fixtures :
               Has(l, f) => attestation'[l][f] = attestation[l][f]
        /\ \A f \in Fixtures : status[f] \in Closed => status'[f] = status[f]
        /\ level3Receiver # ZeroAddress =>
               level3Receiver' = level3Receiver /\ level4Receiver' = level4Receiver
      ]_registryVars

\* The registry implements the abstract promise: its incremental status is
\* at every moment the verdict on the set of all reports it accepted.
ImplementsDualFinality == DF!Spec

=============================================================================
