------------------------ MODULE RelayPipeline_proofs ------------------------
(***************************************************************************)
(* Proofs about the relay: two workflows, a mempool, a lagging node, front *)
(* runners and another relay run over the deployed contracts, for any      *)
(* feeds, providers, rivals and any number of kills and corrections.       *)
(*                                                                         *)
(* Every step of the relay is a transaction of the contracts or leaves     *)
(* them alone, so their theorems hold here; what the workflows know is     *)
(* tied to facts of the contracts that never become false again.           *)
(***************************************************************************)
EXTENDS RelayPipeline, BaseContracts_proofs

Handoffs == [bundle : {BuildProofBundle(v) : v \in Versions}, rootAccount : {RootAccount}]

ReportFiles == [id : AttestationIds, simulated : BOOLEAN]

AttestorSteps == {"down", "tick", "check", "send", "mining", "announce", "state"}

ExecutorSteps ==
    {"down", "tick", "check", "send", "mining", "reconcile", "poll", "market",
     "settle", "settling", "state"}

EventTypes ==
    {"RUN_FAILED", "LEVEL3_BASE_FINALIZED", "TXLINE_CPI_VERIFIED",
     "WORMHOLE_MESSAGE_PUBLISHED", "VAA_READY", "LEVEL4_BASE_SUBMITTED",
     "BASE_VAA_VERIFIED", "DUAL_FINALITY_REACHED", "CONSUMER_SETTLED"}

\* Every variable beside the contracts' holds a value of its type.
RelayTypeOK ==
    /\ evidence \in Feeds /\ corrections \in 0 .. MaxCorrections
    /\ answers \in Behaviours /\ credentials \subseteq {"attestor", "executor"}
    /\ handoff \in Handoffs \union {None}
    /\ attestor \in [pc : AttestorSteps, version : Versions \union {None},
                     tx : Transactions \union {None}]
    /\ attestorFile \in {"watching", "simulated", "reported"}
    /\ reportFile \in ReportFiles \union {None}
    /\ executor \in [pc : ExecutorSteps, version : Versions \union {None},
                     tx : Transactions \union {None},
                     resumed : BOOLEAN, dual : BOOLEAN, settle : BOOLEAN]
    /\ executorFile \in [phase : {"watching", "submitted"}, simulated : BOOLEAN,
                         dual : BOOLEAN, settle : BOOLEAN]
    /\ mempool \subseteq Transactions
    /\ emitted \subseteq [type : EventTypes, simulated : BOOLEAN]
    /\ kills \in 0 .. MaxKills

\* The digest of the run, once something is handed off.
RunId == ReportOf(handoff.bundle).id

\* The final record v is of the bundle that was handed off.
Ours(v) == handoff # None /\ v \in Versions /\ BuildProofBundle(v) = handoff.bundle

\* Every lane's work on this run is on its bundle.
AttestorOnRun ==
    /\ attestor.pc = "check" => handoff # None /\ attestor.version \in Versions
    /\ attestor.pc \in {"send", "mining"} => Ours(attestor.version)

ExecutorOnRun ==
    /\ executor.pc = "check" => handoff # None /\ executor.version \in Versions
    /\ executor.pc \in {"send", "mining", "reconcile"} => Ours(executor.version)

PoolOnRun == \A t \in mempool : t.kind # "settle" => Ours(t.version)

ReportOnRun == reportFile # None => handoff # None /\ reportFile.id = RunId

\* What the contracts consumed is of this run or was reported by another one.
ConsumedOnRun ==
    /\ \A id \in consumedAttestations :
          (handoff # None /\ id = RunId) \/ \E v \in RivalVersions : id = ReportOf(v).id
    /\ \A b \in consumedVaaHashes : handoff # None /\ IdOf(b) = RunId

LaneInv == AttestorOnRun /\ ExecutorOnRun /\ PoolOnRun /\ ReportOnRun /\ ConsumedOnRun

Final == status[MarketFixture] = "DualFinalized"
Settled == market.settled

\* Whoever has seen finality or settlement has seen what is there to stay.
FinalityInv ==
    /\ replica.status = "DualFinalized" \/ executor.dual \/ executorFile.dual => Final
    /\ Announced("DUAL_FINALITY_REACHED") => Final
    /\ executor.pc \in {"market", "settle", "settling"} => Final
    /\ replica.settled => Settled
    /\ executor.pc = "settling" =>
          executor.tx \in Transactions /\ executor.tx.kind = "settle"
             /\ (executor.tx \in mempool \/ Settled)
    /\ Announced("CONSUMER_SETTLED") => Settled
    /\ Events({"DUAL_FINALITY_REACHED"}, TRUE) \subseteq emitted => reportFile # None

Wired == level3Receiver # ZeroAddress

\* What a lane delivered, if no other run reports for the match.
Reported ==
    RivalVersions = {} => handoff # None /\ RunId \in consumedAttestations
Verified ==
    RivalVersions = {} => handoff # None /\ \E b \in consumedVaaHashes : IdOf(b) = RunId

\* A transaction that is no longer in the mempool did its work or was refused
\* because its work was done; a resumed process relies on its predecessor's file.
DeliveryInv ==
    /\ replica.wired => Wired
    /\ \A t \in mempool : t.kind # "settle" => Wired
    /\ attestor.pc \in {"down", "tick", "check", "send"} => attestor.tx = None
    /\ attestor.pc = "mining" =>
          attestor.tx \in Transactions /\ attestor.tx.kind = "report"
             /\ (attestor.tx \in mempool \/ Reported)
    /\ attestor.pc \in {"announce", "state"} => attestor.tx = None \/ Reported
    /\ Announced("LEVEL3_BASE_FINALIZED") \/ attestorFile = "reported" => Reported
    /\ executor.pc \in {"down", "tick", "check", "send", "reconcile"} =>
          ~executor.resumed /\ executor.tx = None
    /\ executor.pc = "mining" =>
          ~executor.resumed /\ executor.tx \in Transactions /\ executor.tx.kind = "vaa"
             /\ (executor.tx \in mempool \/ Verified)
    /\ executor.resumed => executorFile.phase = "submitted"
    /\ executor.pc \in {"poll", "market", "settle", "settling"} => executor.resumed \/ Verified
    /\ executor.pc = "state" => executor.resumed \/ executor.tx = None \/ Verified
    /\ Announced("BASE_VAA_VERIFIED") => Verified
    /\ executorFile.phase = "submitted" => executorFile.simulated \/ Verified

RelayInv == RelayTypeOK /\ LaneInv /\ FinalityInv /\ DeliveryInv

-----------------------------------------------------------------------------
\* Digests and transactions.

\* A transaction of a lane carries a final record.
LEMMA TransactionFacts ==
    \A t \in Transactions :
        /\ t.kind \in {"report", "vaa", "settle"} /\ t.kills \in 0 .. MaxKills
        /\ t.kind # "settle" => t.version \in Versions
BY DEF Transactions

\* Both lanes derive the digest of a final record from its bundle alone.
LEMMA DigestFacts ==
    ASSUME NEW v
    PROVE  /\ IdOf(VaaOf(v).body) = ReportOf(v).id
           /\ ReportOf(v).id = <<RegisteredEmitter, MarketFixture, BuildProofBundle(v)>>
           /\ BuildProofBundle(BuildProofBundle(v)) = BuildProofBundle(v)
BY DEF IdOf, VaaOf, ReportOf, Compute, BuildProofBundle

\* The digest of our own records is the digest of the run.
LEMMA OursId ==
    ASSUME NEW v, Ours(v)
    PROVE  ReportOf(v).id = RunId
BY DigestFacts DEF Ours, RunId

\* Only final records are fetched.
LEMMA FetchedFacts ==
    ASSUME RelayTypeOK, Fetched # None
    PROVE  Fetched \in Versions
BY DEF RelayTypeOK, Fetched, Versions

\* Two claims of one digest are no conflict: see the whole digest as one value.
LEMMA VersionFacts ==
    /\ \A v \in Versions : /\ ReportOf(v) \in Reports /\ VaaOf(v) \in Vaas
                           /\ ReportOf(v).id \in AttestationIds
                           /\ ReportOf(v).fixture = MarketFixture
                           /\ VaaOf(v).body.fixture = MarketFixture
                           /\ VaaOf(v).body.sequence = Sequence
    /\ \A v \in RivalVersions : /\ ReportOf(v) \in Reports
                                /\ ReportOf(v).fixture = MarketFixture
    /\ None \notin Handoffs /\ None \notin ReportFiles /\ None \notin Transactions
BY DeliveryAssumption, BaseAssumption DEF ReportOf, VaaOf, Handoffs, ReportFiles

-----------------------------------------------------------------------------
\* Who does what.

\* The transactions of the contracts that the relay and its environment make.
ContractStep == Deploy \/ FrontRun \/ RivalReport \/ \E t \in mempool : Mine(t)

\* What only the environment changes.
QuietStep == CatchUp \/ Correct \/ Configure

\* The steps by who takes them.
LEMMA RelayStep ==
    ASSUME [RelayNext]_relayVars
    PROVE  \/ ContractStep \/ QuietStep \/ Stage
           \/ StartAttestor \/ KillAttestor \/ AttestorStep
           \/ StartExecutor \/ KillExecutor \/ ExecutorStep
           \/ UNCHANGED relayVars
BY DEF RelayNext, ContractStep, QuietStep

\* What each of them leaves alone.
LEMMA ContractFrame ==
    ASSUME ContractStep
    PROVE  /\ UNCHANGED <<environment, runDirectory, attestor, executor, replica, emitted, kills>>
           /\ mempool' \subseteq mempool
BY DEF ContractStep, Deploy, FrontRun, RivalReport, Mine

\* Catching up, corrections and configuration move neither lane.
LEMMA QuietFrame ==
    ASSUME QuietStep
    PROVE  UNCHANGED <<vars, runDirectory, attestor, executor, mempool, emitted, kills>>
BY DEF QuietStep, CatchUp, Correct, Configure

\* The attestor writes nothing of the executor's.
LEMMA AttestorFrame ==
    ASSUME StartAttestor \/ KillAttestor \/ AttestorStep
    PROVE  UNCHANGED <<vars, environment, handoff, executorFile, executor, replica>>
BY DEF StartAttestor, KillAttestor, AttestorStep, AttestorTick, AttestorCheck, AttestorSend,
       AttestorSimulate, AttestorReport, AttestorAnnounce, AttestorState, AttestorOnly,
       WriteReport, runDirectory

\* The executor writes nothing of the attestor's.
LEMMA ExecutorFrame ==
    ASSUME StartExecutor \/ KillExecutor \/ ExecutorStep
    PROVE  UNCHANGED <<vars, environment, handoff, attestorFile, reportFile, attestor, replica>>
BY DEF StartExecutor, KillExecutor, ExecutorStep, ExecutorTick, ExecutorCheck, ExecutorSubmit,
       ExecutorAnnounce, ExecutorSimulate, ExecutorReconcile, ExecutorPoll, ExecutorMarket,
       ExecutorSettle, ExecutorSettled, ExecutorState, ExecutorOnly, runDirectory

-----------------------------------------------------------------------------
\* Types.

\* The relay starts well typed.
LEMMA RelayInitType == RelayInit => RelayTypeOK
BY RelayAssumption, BaseAssumption
   DEF RelayInit, RelayTypeOK, AttestorDown, ExecutorDown, AttestorSteps, ExecutorSteps

\* What is announced has a type.
LEMMA EventTypesFact ==
    ASSUME NEW types \in SUBSET EventTypes, NEW simulated \in BOOLEAN
    PROVE  Events(types, simulated) \subseteq [type : EventTypes, simulated : BOOLEAN]
BY DEF Events

\* The attestor's steps keep types.
LEMMA AttestorType ==
    ASSUME RelayTypeOK, LaneInv, StartAttestor \/ KillAttestor \/ AttestorStep
    PROVE  RelayTypeOK'
<1> USE DEF RelayTypeOK
<1>1. UNCHANGED <<evidence, corrections, answers, credentials, handoff, executorFile, executor>>
  BY AttestorFrame DEF environment
<1>2. CASE StartAttestor
  BY <1>1, <1>2 DEF StartAttestor, AttestorTo, AttestorOnly, AttestorSteps, runDirectory
<1>3. CASE KillAttestor
  BY <1>1, <1>3, RelayAssumption
     DEF KillAttestor, AttestorEnd, AttestorDown, AttestorSteps, runDirectory
<1>4. CASE AttestorTick
  <2>1. Events({"RUN_FAILED"}, TRUE) \subseteq [type : EventTypes, simulated : BOOLEAN]
    BY EventTypesFact DEF EventTypes
  <2>2. UNCHANGED <<attestorFile, reportFile, mempool, kills>>
    BY <1>4 DEF AttestorTick, AttestorOnly, runDirectory
  <2>3. emitted' \subseteq [type : EventTypes, simulated : BOOLEAN]
    BY <1>4, <2>1 DEF AttestorTick, Emit
  <2>4. attestor' \in [pc : AttestorSteps, version : Versions \union {None},
                       tx : Transactions \union {None}]
    <3>1. CASE AttestorEnd
      BY <3>1 DEF AttestorEnd, AttestorDown, AttestorSteps
    <3>2. CASE Fetched # None /\ attestor' = [attestor EXCEPT !.pc = "check", !.version = Fetched]
      <4>1. Fetched \in Versions
        BY <3>2, FetchedFacts
      <4>2. QED BY <3>2, <4>1 DEF AttestorSteps
    <3>3. QED BY <1>4, <3>1, <3>2 DEF AttestorTick
  <2>5. QED BY <1>1, <2>2, <2>3, <2>4
<1>5. CASE AttestorCheck
  <2>1. Events({"RUN_FAILED"}, TRUE) \subseteq [type : EventTypes, simulated : BOOLEAN]
    BY EventTypesFact DEF EventTypes
  <2>2. UNCHANGED <<attestorFile, reportFile, mempool, kills>>
    BY <1>5 DEF AttestorCheck, AttestorOnly, runDirectory
  <2>3. emitted' \subseteq [type : EventTypes, simulated : BOOLEAN]
    BY <1>5, <2>1 DEF AttestorCheck, Emit
  <2>4. AttestorEnd \/ AttestorTo("send")
    BY <1>5 DEF AttestorCheck
  <2>5. attestor' \in [pc : AttestorSteps, version : Versions \union {None},
                       tx : Transactions \union {None}]
    BY <2>4 DEF AttestorEnd, AttestorTo, AttestorDown, AttestorSteps
  <2>6. QED BY <1>1, <2>2, <2>3, <2>5
<1>6. CASE AttestorSend
  <2> DEFINE t == [kind |-> "report", version |-> attestor.version, kills |-> kills]
  <2>1. UNCHANGED <<attestorFile, reportFile, emitted, kills>>
    BY <1>6 DEF AttestorSend, runDirectory
  <2>2. PICK w \in Answered :
           \/ /\ mempool' = mempool \union {t}
              /\ attestor' = [attestor EXCEPT !.pc = "mining", !.tx = t]
           \/ AttestorEnd /\ UNCHANGED mempool
    BY <1>6 DEF AttestorSend, AttestorDelivers
  <2>3. CASE AttestorEnd /\ UNCHANGED mempool
    BY <1>1, <2>1, <2>3 DEF AttestorEnd, AttestorDown, AttestorSteps
  <2>4. CASE /\ mempool' = mempool \union {t}
             /\ attestor' = [attestor EXCEPT !.pc = "mining", !.tx = t]
    <3>1. t \in Transactions
      BY <1>6 DEF AttestorSend, LaneInv, AttestorOnRun, Ours, Transactions
    <3> HIDE DEF t
    <3>2. attestor' \in [pc : AttestorSteps, version : Versions \union {None},
                         tx : Transactions \union {None}]
      BY <2>4, <3>1 DEF AttestorSteps
    <3>3. QED BY <1>1, <2>1, <2>4, <3>1, <3>2
  <2>5. QED BY <2>2, <2>3, <2>4
<1>7. CASE AttestorSimulate \/ AttestorReport
  <2>1. WriteReport /\ attestor.pc \in {"send", "mining"}
    BY <1>7 DEF AttestorSimulate, AttestorReport
  <2>2. reportFile' \in ReportFiles
    <3>1. attestor.version \in Versions
      BY <2>1 DEF LaneInv, AttestorOnRun, Ours
    <3>2. ReportOf(attestor.version).id \in AttestationIds
      BY <3>1, VersionFacts
    <3>3. QED BY <2>1, <3>2 DEF WriteReport, ReportFiles
  <2>3. attestor' \in [pc : AttestorSteps, version : Versions \union {None},
                       tx : Transactions \union {None}]
    BY <2>1 DEF WriteReport, AttestorSteps
  <2>4. QED BY <1>1, <2>1, <2>2, <2>3 DEF WriteReport
<1>8. CASE AttestorAnnounce
  <2>1. Events({"LEVEL3_BASE_FINALIZED"}, attestor.tx = None)
            \subseteq [type : EventTypes, simulated : BOOLEAN]
    BY EventTypesFact DEF EventTypes
  <2>2. UNCHANGED <<attestorFile, reportFile, mempool, kills>>
    BY <1>8 DEF AttestorAnnounce, AttestorOnly, runDirectory
  <2>3. emitted' \subseteq [type : EventTypes, simulated : BOOLEAN]
    BY <1>8, <2>1 DEF AttestorAnnounce, Emit
  <2>4. attestor' \in [pc : AttestorSteps, version : Versions \union {None},
                       tx : Transactions \union {None}]
    BY <1>8 DEF AttestorAnnounce, AttestorTo, AttestorSteps
  <2>5. QED BY <1>1, <2>2, <2>3, <2>4
<1>9. CASE AttestorState
  BY <1>1, <1>9 DEF AttestorState, AttestorEnd, AttestorDown, AttestorSteps
<1>10. QED
  BY <1>2, <1>3, <1>4, <1>5, <1>6, <1>7, <1>8, <1>9 DEF AttestorStep

\* So do the executor's.
LEMMA ExecutorSendsType ==
    ASSUME RelayTypeOK, NEW t \in Transactions, NEW p \in ExecutorSteps, ExecutorSends(t, p)
    PROVE  /\ executor' \in [pc : ExecutorSteps, version : Versions \union {None},
                             tx : Transactions \union {None},
                             resumed : BOOLEAN, dual : BOOLEAN, settle : BOOLEAN]
           /\ mempool' \subseteq Transactions
<1>1. CASE ExecutorEnd /\ UNCHANGED mempool
  BY <1>1 DEF RelayTypeOK, ExecutorEnd, ExecutorDown, ExecutorSteps
<1>2. CASE /\ mempool' = mempool \union {t}
           /\ executor' = [executor EXCEPT !.pc = p, !.tx = t]
  BY <1>2 DEF RelayTypeOK
<1>3. QED BY <1>1, <1>2 DEF ExecutorSends

\* The executor's steps keep its types.
LEMMA ExecutorType ==
    ASSUME RelayTypeOK, LaneInv, StartExecutor \/ KillExecutor \/ ExecutorStep
    PROVE  RelayTypeOK'
<1> DEFINE Executors == [pc : ExecutorSteps, version : Versions \union {None},
                         tx : Transactions \union {None},
                         resumed : BOOLEAN, dual : BOOLEAN, settle : BOOLEAN]
           AllEvents == [type : EventTypes, simulated : BOOLEAN]
<1>1. UNCHANGED <<evidence, corrections, answers, credentials, handoff, attestorFile,
                  reportFile, attestor>>
  BY ExecutorFrame DEF environment
<1>2. executor \in Executors /\ mempool \subseteq Transactions /\ emitted \subseteq AllEvents
      /\ kills \in 0 .. MaxKills
  BY DEF RelayTypeOK
<1>3. SUFFICES /\ executor' \in Executors /\ mempool' \subseteq Transactions
               /\ emitted' \subseteq AllEvents /\ kills' \in 0 .. MaxKills
               /\ executorFile' \in [phase : {"watching", "submitted"}, simulated : BOOLEAN,
                                     dual : BOOLEAN, settle : BOOLEAN]
  BY <1>1 DEF RelayTypeOK
<1>4. ASSUME ExecutorEnd PROVE executor' \in Executors
  BY <1>4 DEF ExecutorEnd, ExecutorDown, ExecutorSteps
<1>5. ASSUME NEW p \in ExecutorSteps, ExecutorTo(p) PROVE executor' \in Executors
  BY <1>2, <1>5 DEF ExecutorTo
<1>6. ASSUME NEW types \in SUBSET EventTypes, NEW b \in BOOLEAN, Emit(types, b)
      PROVE  emitted' \subseteq AllEvents
  BY <1>2, <1>6, EventTypesFact DEF Emit
<1>7. ASSUME ExecutorOnly
      PROVE  UNCHANGED <<mempool, kills, executorFile>>
  BY <1>7 DEF ExecutorOnly, runDirectory
<1>8. executorFile \in [phase : {"watching", "submitted"}, simulated : BOOLEAN,
                        dual : BOOLEAN, settle : BOOLEAN]
  BY DEF RelayTypeOK
<1> HIDE DEF Executors, AllEvents
<1>9. CASE StartExecutor
  BY <1>2, <1>5, <1>7, <1>8, <1>9 DEF StartExecutor, ExecutorSteps
<1>10. CASE KillExecutor
  BY <1>2, <1>4, <1>8, <1>10, RelayAssumption DEF KillExecutor, runDirectory
<1>11. CASE ExecutorTick
  <2>1. executor' \in Executors
    <3>1. CASE executor' = [executor EXCEPT !.pc = "poll", !.resumed = TRUE]
      BY <1>2, <3>1 DEF Executors, ExecutorSteps
    <3>2. CASE Fetched # None /\ executor' = [executor EXCEPT !.pc = "check", !.version = Fetched]
      <4>1. Fetched \in Versions
        BY <3>2, FetchedFacts
      <4>2. QED BY <1>2, <3>2, <4>1 DEF Executors, ExecutorSteps
    <3>3. QED BY <1>4, <1>11, <3>1, <3>2 DEF ExecutorTick
  <2>2. emitted' \subseteq AllEvents
    <3>1. {"RUN_FAILED"} \in SUBSET EventTypes
      BY DEF EventTypes
    <3>2. QED BY <1>2, <1>6, <1>11, <3>1 DEF ExecutorTick
  <2>3. QED BY <1>2, <1>7, <1>8, <1>11, <2>1, <2>2 DEF ExecutorTick
<1>12. CASE ExecutorCheck
  <2>1. emitted' \subseteq AllEvents
    <3>1. /\ {} \in SUBSET EventTypes /\ {"RUN_FAILED"} \in SUBSET EventTypes
          /\ {"TXLINE_CPI_VERIFIED", "WORMHOLE_MESSAGE_PUBLISHED", "VAA_READY"}
                 \in SUBSET EventTypes
      BY DEF EventTypes
    <3>2. \E types \in SUBSET EventTypes : Emit(types, TRUE)
      BY <1>12, <3>1 DEF ExecutorCheck
    <3>3. QED BY <1>6, <3>2
  <2>2. executor' \in Executors
    BY <1>4, <1>5, <1>12 DEF ExecutorCheck, ExecutorSteps
  <2>3. QED BY <1>2, <1>7, <1>8, <1>12, <2>1, <2>2 DEF ExecutorCheck
<1>13. CASE ExecutorSubmit
  <2> DEFINE t == [kind |-> "vaa", version |-> executor.version, kills |-> kills]
  <2>1. t \in Transactions
    BY <1>2, <1>13 DEF ExecutorSubmit, LaneInv, ExecutorOnRun, Ours, Transactions
  <2>2. ExecutorSends(t, "mining") /\ UNCHANGED <<executorFile, emitted, kills>>
    BY <1>13 DEF ExecutorSubmit, runDirectory
  <2>3. QED
    <3> HIDE DEF t
    <3>1. executor' \in Executors /\ mempool' \subseteq Transactions
      BY <2>1, <2>2, ExecutorSendsType DEF ExecutorSteps, Executors
    <3>2. QED BY <1>2, <1>8, <2>2, <3>1
<1>14. CASE ExecutorAnnounce
  <2>1. {"LEVEL4_BASE_SUBMITTED", "BASE_VAA_VERIFIED"} \in SUBSET EventTypes
    BY DEF EventTypes
  <2>2. executor' \in Executors
    BY <1>2, <1>14 DEF ExecutorAnnounce, Executors, ExecutorSteps
  <2>3. QED BY <1>2, <1>6, <1>7, <1>8, <1>14, <2>1, <2>2 DEF ExecutorAnnounce
<1>15. CASE ExecutorSimulate
  <2>1. {"LEVEL4_BASE_SUBMITTED", "BASE_VAA_VERIFIED"} \in SUBSET EventTypes
    BY DEF EventTypes
  <2>2. QED
    BY <1>2, <1>5, <1>6, <1>7, <1>8, <1>15, <2>1 DEF ExecutorSimulate, ExecutorSteps
<1>16. CASE ExecutorReconcile
  <2>1. {"DUAL_FINALITY_REACHED", "CONSUMER_SETTLED"} \in SUBSET EventTypes
        /\ {"RUN_FAILED"} \in SUBSET EventTypes
    BY DEF EventTypes
  <2>2. emitted' \subseteq AllEvents
    BY <1>2, <1>6, <1>16, <2>1 DEF ExecutorReconcile
  <2>3. executor' \in Executors
    <3>1. CASE executor' = [executor EXCEPT !.pc = "state", !.settle = TRUE]
      BY <1>2, <3>1 DEF Executors, ExecutorSteps
    <3>2. QED BY <1>4, <1>5, <1>16, <3>1 DEF ExecutorReconcile, ExecutorSteps
  <2>4. QED BY <1>2, <1>7, <1>8, <1>16, <2>2, <2>3 DEF ExecutorReconcile
<1>17. CASE ExecutorPoll
  <2>1. {"DUAL_FINALITY_REACHED"} \in SUBSET EventTypes
    BY DEF EventTypes
  <2>2. emitted' \subseteq AllEvents
    BY <1>2, <1>6, <1>17, <2>1 DEF ExecutorPoll
  <2>3. executor' \in Executors
    <3>1. CASE executor' = [executor EXCEPT !.pc = "market", !.dual = TRUE]
      BY <1>2, <3>1 DEF Executors, ExecutorSteps
    <3>2. QED BY <1>5, <1>17, <3>1 DEF ExecutorPoll, ExecutorSteps
  <2>4. QED BY <1>2, <1>7, <1>8, <1>17, <2>2, <2>3 DEF ExecutorPoll
<1>18. CASE ExecutorMarket
  <2>1. \E p \in ExecutorSteps : ExecutorTo(p)
    BY <1>18 DEF ExecutorMarket, ExecutorSteps
  <2>2. QED BY <1>2, <1>5, <1>7, <1>8, <1>18, <2>1 DEF ExecutorMarket
<1>19. CASE ExecutorSettle
  <2> DEFINE t == [kind |-> "settle", version |-> None, kills |-> kills]
  <2>1. t \in Transactions
    BY <1>2 DEF Transactions
  <2>2. ExecutorSends(t, "settling") /\ UNCHANGED <<executorFile, emitted, kills>>
    BY <1>19 DEF ExecutorSettle, runDirectory
  <2>3. QED
    <3> HIDE DEF t
    <3>1. executor' \in Executors /\ mempool' \subseteq Transactions
      BY <2>1, <2>2, ExecutorSendsType DEF ExecutorSteps, Executors
    <3>2. QED BY <1>2, <1>8, <2>2, <3>1
<1>20. CASE ExecutorSettled
  <2>1. {"CONSUMER_SETTLED"} \in SUBSET EventTypes
    BY DEF EventTypes
  <2>2. executor' \in Executors
    BY <1>2, <1>20 DEF ExecutorSettled, Executors, ExecutorSteps
  <2>3. QED BY <1>2, <1>6, <1>7, <1>8, <1>20, <2>1, <2>2 DEF ExecutorSettled
<1>21. CASE ExecutorState
  <2>1. executorFile' \in [phase : {"watching", "submitted"}, simulated : BOOLEAN,
                           dual : BOOLEAN, settle : BOOLEAN]
    <3>1. SimulatedDelivery \in BOOLEAN
      BY <1>8 DEF SimulatedDelivery
    <3>2. executor.dual \in BOOLEAN /\ (executor.settle \/ executorFile.settle) \in BOOLEAN
      BY <1>2 DEF Executors
    <3>3. QED BY <1>21, <3>1, <3>2 DEF ExecutorState, WriteExecutorState
  <2>2. QED BY <1>2, <1>4, <1>21, <2>1 DEF ExecutorState
<1>22. QED
  BY <1>9, <1>10, <1>11, <1>12, <1>13, <1>14, <1>15, <1>16, <1>17, <1>18, <1>19, <1>20,
     <1>21 DEF ExecutorStep

\* Every step of the relay keeps types.
LEMMA RelayNextType ==
    ASSUME RelayTypeOK, LaneInv, [RelayNext]_relayVars
    PROVE  RelayTypeOK'
<1>1. CASE ContractStep
  BY <1>1, ContractFrame DEF RelayTypeOK, environment, runDirectory
<1>2. CASE CatchUp
  BY <1>2 DEF CatchUp, RelayTypeOK, environment, runDirectory
<1>3. CASE Correct
  BY <1>3, RelayAssumption DEF Correct, RelayTypeOK, runDirectory
<1>4. CASE Configure
  BY <1>4 DEF Configure, RelayTypeOK, runDirectory
<1>5. CASE Stage
  <2>1. handoff' \in Handoffs
    BY <1>5, FetchedFacts DEF Stage, Handoffs
  <2>2. QED BY <1>5, <2>1 DEF Stage, RelayTypeOK, environment
<1>6. CASE UNCHANGED relayVars
  BY <1>6 DEF relayVars, RelayTypeOK, environment, runDirectory
<1>7. QED
  BY <1>1, <1>2, <1>3, <1>4, <1>5, <1>6, AttestorType, ExecutorType, RelayStep DEF QuietStep

-----------------------------------------------------------------------------
\* The contracts under the relay.

\* A lane of this run, or another run's report, or the market.
ContractMove ==
    \/ WireReporters(InitialOwner)
    \/ \E v \in Versions : Ours(v) /\ OnReport(InitialForwarder, ReportOf(v))
    \/ \E v \in Versions : Ours(v) /\ ConsumeVaa(VaaOf(v))
    \/ \E v \in RivalVersions : OnReport(InitialForwarder, ReportOf(v))
    \/ Settle

\* A mined transaction is a call of a contract or reverts.
LEMMA MinedMoves ==
    ASSUME RelayTypeOK, LaneInv, NEW t \in mempool, Effect(t)
    PROVE  ContractMove
<1>1. t \in Transactions
  BY DEF RelayTypeOK
<1>2. t.kind # "settle" => t.version \in Versions /\ Ours(t.version)
  BY <1>1, TransactionFacts DEF LaneInv, PoolOnRun
<1>3. QED BY <1>2 DEF Effect, SubmitVaa, ContractMove

\* A contract step is a move of the contracts or leaves them alone.
LEMMA ContractSteps ==
    ASSUME RelayTypeOK, LaneInv, ContractStep
    PROVE  ContractMove \/ UNCHANGED vars
<1>1. CASE Deploy
  BY <1>1 DEF Deploy, ContractMove
<1>2. CASE FrontRun
  <2>1. ASSUME NEW t \in mempool, t.kind = "vaa", SubmitVaa(VaaOf(t.version))
        PROVE  ContractMove
    BY <2>1, MinedMoves DEF Effect
  <2>2. QED BY <1>2, <2>1 DEF FrontRun, ContractMove
<1>3. CASE RivalReport
  BY <1>3 DEF RivalReport, ContractMove
<1>4. ASSUME NEW t \in mempool, Mine(t)
      PROVE  ContractMove \/ UNCHANGED vars
  BY <1>4, MinedMoves DEF Mine
<1>5. QED BY <1>1, <1>2, <1>3, <1>4 DEF ContractStep

\* A move of the contracts is a step of their own specification.
LEMMA ContractMoveIsBase ==
    ASSUME ContractMove
    PROVE  BaseNext
BY VersionFacts, BaseAssumption DEF ContractMove, BaseNext, Administer, SubmitVaa

\* And so is every step of the relay, or a stutter.
LEMMA RelayIsBase ==
    ASSUME RelayTypeOK, LaneInv, [RelayNext]_relayVars
    PROVE  [BaseNext]_vars
<1>1. CASE ContractStep
  BY <1>1, ContractSteps, ContractMoveIsBase
<1>2. CASE QuietStep
  BY <1>2, QuietFrame
<1>3. CASE Stage
  BY <1>3 DEF Stage
<1>4. CASE UNCHANGED relayVars
  BY <1>4 DEF relayVars
<1>5. QED BY <1>1, <1>2, <1>3, <1>4, AttestorFrame, ExecutorFrame, RelayStep

\* What a transaction adds to the consumed digests and VAAs.
LEMMA ContractMoveConsumes ==
    ASSUME ContractMove
    PROVE  \/ UNCHANGED <<consumedAttestations, consumedVaaHashes>>
           \/ \E v \in Versions :
                 /\ Ours(v) /\ UNCHANGED consumedVaaHashes
                 /\ consumedAttestations' = consumedAttestations \union {ReportOf(v).id}
           \/ \E v \in Versions :
                 /\ Ours(v) /\ UNCHANGED consumedAttestations
                 /\ consumedVaaHashes' = consumedVaaHashes \union {VaaOf(v).body}
           \/ \E v \in RivalVersions :
                 /\ UNCHANGED consumedVaaHashes
                 /\ consumedAttestations' = consumedAttestations \union {ReportOf(v).id}
BY DEF ContractMove, WireReporters, OnReport, ConsumeVaa, Settle, level3Vars, level4Vars

-----------------------------------------------------------------------------
\* Each lane works on the run's own bundle.

\* At the start neither lane works on anything.
LEMMA RelayInitLane == RelayInit => LaneInv
BY DEF RelayInit, BaseInit, LaneInv, AttestorOnRun, ExecutorOnRun, PoolOnRun, ReportOnRun,
       ConsumedOnRun, AttestorDown, ExecutorDown

\* What was handed off stays.
LEMMA HandoffStays ==
    ASSUME [RelayNext]_relayVars, handoff # None
    PROVE  handoff' = handoff
<1>1. ~Stage
  BY DEF Stage
<1>2. CASE ContractStep \/ QuietStep \/ UNCHANGED relayVars
  BY <1>2, ContractFrame, QuietFrame DEF runDirectory, relayVars
<1>3. QED BY <1>1, <1>2, AttestorFrame, ExecutorFrame, RelayStep

\* A record of the bundle that was handed off stays one.
LEMMA OursStays ==
    ASSUME [RelayNext]_relayVars, NEW v, Ours(v)
    PROVE  Ours(v)' /\ RunId' = RunId
BY HandoffStays DEF Ours, RunId, ReportOf, Compute, BuildProofBundle

\* A transaction is sent by a workflow, on a view that accepts it.
LEMMA NewTransaction ==
    ASSUME [RelayNext]_relayVars, NEW t \in mempool', t \notin mempool
    PROVE  /\ \E w \in Answered : Accepts(w, t)
           /\ \/ AttestorSend /\ t.kind = "report" /\ t.version = attestor.version
              \/ ExecutorSubmit /\ t.kind = "vaa" /\ t.version = executor.version
              \/ ExecutorSettle /\ t.kind = "settle"
<1>1. AttestorStep \/ ExecutorStep
  BY RelayStep, ContractFrame, QuietFrame
     DEF Stage, StartAttestor, KillAttestor, AttestorOnly, StartExecutor, KillExecutor,
         ExecutorOnly, relayVars
<1>2. CASE AttestorStep
  <2>1. AttestorSend
    BY <1>2 DEF AttestorStep, AttestorTick, AttestorCheck, AttestorSimulate, AttestorReport,
                AttestorAnnounce, AttestorState, AttestorOnly, WriteReport
  <2>2. QED BY <2>1 DEF AttestorSend, AttestorDelivers
<1>3. CASE ExecutorStep
  <2>1. ExecutorSubmit \/ ExecutorSettle
    BY <1>3 DEF ExecutorStep, ExecutorTick, ExecutorCheck, ExecutorAnnounce, ExecutorSimulate,
                ExecutorReconcile, ExecutorPoll, ExecutorMarket, ExecutorSettled,
                ExecutorState, ExecutorOnly
  <2>2. CASE ExecutorSubmit
    BY <2>2 DEF ExecutorSubmit, ExecutorSends
  <2>3. CASE ExecutorSettle
    BY <2>3 DEF ExecutorSettle, ExecutorSends
  <2>4. QED BY <2>1, <2>2, <2>3
<1>4. QED BY <1>1, <1>2, <1>3

\* Every transaction under way keeps to the bundle.
LEMMA NextPool ==
    ASSUME LaneInv, [RelayNext]_relayVars
    PROVE  PoolOnRun'
<1> SUFFICES ASSUME NEW t \in mempool', t.kind # "settle"
             PROVE  Ours(t.version)'
  BY DEF PoolOnRun
<1>1. CASE t \in mempool
  BY <1>1, OursStays DEF LaneInv, PoolOnRun
<1>2. CASE t \notin mempool
  <2>1. \/ AttestorSend /\ t.version = attestor.version
        \/ ExecutorSubmit /\ t.version = executor.version
    BY <1>2, NewTransaction
  <2>2. Ours(t.version)
    BY <2>1 DEF AttestorSend, ExecutorSubmit, LaneInv, AttestorOnRun, ExecutorOnRun
  <2>3. QED BY <2>2, OursStays
<1>3. QED BY <1>1, <1>2

\* So does the report file.
LEMMA NextReport ==
    ASSUME RelayTypeOK, LaneInv, [RelayNext]_relayVars
    PROVE  ReportOnRun'
<1>1. CASE UNCHANGED reportFile
  BY <1>1, HandoffStays DEF LaneInv, ReportOnRun, RunId, ReportOf, Compute, BuildProofBundle
<1>2. CASE AttestorSimulate \/ AttestorReport
  <2>1. WriteReport /\ Ours(attestor.version)
    BY <1>2 DEF AttestorSimulate, AttestorReport, LaneInv, AttestorOnRun
  <2>2. reportFile'.id = RunId
    BY <2>1, OursId DEF WriteReport
  <2>3. handoff' # None /\ RunId' = RunId
    <3>1. \A v : Ours(v) => RunId' = RunId
      BY OursStays
    <3>2. QED BY <2>1, <3>1, HandoffStays DEF Ours
  <2>4. QED BY <2>2, <2>3 DEF ReportOnRun
<1>3. CASE StartAttestor \/ KillAttestor \/ AttestorStep
  BY <1>1, <1>2, <1>3
     DEF StartAttestor, KillAttestor, AttestorStep, AttestorTick, AttestorCheck, AttestorSend,
         AttestorAnnounce, AttestorState, AttestorOnly, runDirectory
<1>4. QED
  BY <1>1, <1>3, ContractFrame, QuietFrame, ExecutorFrame, RelayStep
     DEF Stage, runDirectory, relayVars

\* So does what the receivers consumed, other runs' reports aside.
LEMMA NextConsumed ==
    ASSUME RelayTypeOK, LaneInv, [RelayNext]_relayVars
    PROVE  ConsumedOnRun'
<1>1. CASE UNCHANGED vars
  <2>1. UNCHANGED <<consumedAttestations, consumedVaaHashes>>
    BY <1>1 DEF vars, level3Vars, level4Vars
  <2>2. QED
    BY <2>1, HandoffStays
       DEF LaneInv, ConsumedOnRun, RunId, ReportOf, IdOf, Compute, BuildProofBundle
<1>2. CASE ContractStep /\ ContractMove
  <2>1. handoff' = handoff /\ RunId' = RunId
    BY <1>2, ContractFrame DEF runDirectory, RunId, ReportOf, Compute, BuildProofBundle
  <2>2. \A v : Ours(v) => handoff # None /\ ReportOf(v).id = RunId /\ IdOf(VaaOf(v).body) = RunId
    BY OursId, DigestFacts DEF Ours
  <2>3. \A v : ReportOf(v).id' = ReportOf(v).id /\ \A b : IdOf(b)' = IdOf(b)
    BY DEF ReportOf, IdOf, Compute, BuildProofBundle
  <2>4. QED
    BY <1>2, <2>1, <2>2, <2>3, ContractMoveConsumes DEF LaneInv, ConsumedOnRun
<1>3. QED
  BY <1>1, <1>2, ContractSteps, QuietFrame, AttestorFrame, ExecutorFrame, RelayStep
     DEF Stage, relayVars

\* So does the attestor, killed and restarted or not.
LEMMA NextAttestorOnRun ==
    ASSUME RelayTypeOK, LaneInv, [RelayNext]_relayVars
    PROVE  AttestorOnRun'
<1>1. CASE UNCHANGED attestor
  BY <1>1, HandoffStays, OursStays DEF LaneInv, AttestorOnRun
<1>2. CASE AttestorEnd
  BY <1>2 DEF AttestorEnd, AttestorDown, AttestorOnRun
<1>3. CASE StartAttestor
  BY <1>3 DEF StartAttestor, AttestorTo, AttestorOnRun, RelayTypeOK
<1>4. CASE AttestorTick
  <2>1. CASE handoff # None /\ Fetched # None
             /\ attestor' = [attestor EXCEPT !.pc = "check", !.version = Fetched]
    BY <1>4, <2>1, FetchedFacts, HandoffStays DEF AttestorOnRun, RelayTypeOK
  <2>2. QED BY <1>2, <1>4, <2>1 DEF AttestorTick
<1>5. CASE AttestorCheck
  <2>1. CASE BundleMatches(attestor.version) /\ AttestorTo("send")
    <3>1. Ours(attestor.version)
      BY <1>5, <2>1 DEF AttestorCheck, BundleMatches, LaneInv, AttestorOnRun, Ours
    <3>2. attestor'.pc = "send" /\ attestor'.version = attestor.version
      BY <2>1 DEF AttestorTo, RelayTypeOK
    <3>3. \A v : Ours(v) => Ours(v)'
      BY OursStays
    <3>4. QED BY <3>1, <3>2, <3>3 DEF AttestorOnRun, Ours
  <2>2. QED BY <1>2, <1>5, <2>1 DEF AttestorCheck
<1>6. CASE AttestorSend
  <2>1. CASE /\ attestor'.pc = "mining" /\ attestor'.version = attestor.version
    <3>1. Ours(attestor.version)
      BY <1>6 DEF AttestorSend, LaneInv, AttestorOnRun
    <3>2. \A v : Ours(v) => Ours(v)'
      BY OursStays
    <3>3. QED BY <2>1, <3>1, <3>2 DEF AttestorOnRun, Ours
  <2>2. QED BY <1>2, <1>6, <2>1 DEF AttestorSend, AttestorDelivers, RelayTypeOK
<1>7. CASE WriteReport \/ AttestorAnnounce
  BY <1>7 DEF WriteReport, AttestorAnnounce, AttestorTo, AttestorOnRun, RelayTypeOK
<1>8. CASE AttestorStep
  BY <1>2, <1>4, <1>5, <1>6, <1>7, <1>8
     DEF AttestorStep, AttestorSimulate, AttestorReport, AttestorState
<1>9. QED
  BY <1>1, <1>2, <1>3, <1>8, ContractFrame, QuietFrame, ExecutorFrame, RelayStep
     DEF KillAttestor, Stage, relayVars

\* So does the executor.
LEMMA NextExecutorOnRun ==
    ASSUME RelayTypeOK, LaneInv, [RelayNext]_relayVars
    PROVE  ExecutorOnRun'
<1>1. CASE UNCHANGED executor
  BY <1>1, HandoffStays, OursStays DEF LaneInv, ExecutorOnRun
<1>2. CASE ExecutorEnd
  BY <1>2 DEF ExecutorEnd, ExecutorDown, ExecutorOnRun
<1>3. CASE executor'.pc \in {"tick", "poll", "market", "settle", "settling", "state"}
  BY <1>3 DEF ExecutorOnRun
<1>4. CASE /\ Ours(executor.version) /\ executor'.version = executor.version
           /\ executor'.pc \in {"send", "mining", "reconcile"}
  <2>1. \A v : Ours(v) => Ours(v)'
    BY OursStays
  <2>2. QED BY <1>4, <2>1 DEF ExecutorOnRun, Ours
<1>5. CASE ExecutorTick
  <2>1. CASE handoff # None /\ Fetched # None
             /\ executor' = [executor EXCEPT !.pc = "check", !.version = Fetched]
    BY <1>5, <2>1, FetchedFacts, HandoffStays DEF ExecutorOnRun, RelayTypeOK
  <2>2. QED BY <1>2, <1>3, <1>5, <2>1 DEF ExecutorTick, RelayTypeOK
<1>6. CASE ExecutorCheck
  <2>1. CASE BundleMatches(executor.version) /\ ExecutorTo("send")
    <3>1. Ours(executor.version)
      BY <1>6, <2>1 DEF ExecutorCheck, BundleMatches, LaneInv, ExecutorOnRun, Ours
    <3>2. QED BY <1>4, <2>1, <3>1 DEF ExecutorTo, RelayTypeOK
  <2>2. QED BY <1>2, <1>6, <2>1 DEF ExecutorCheck
<1>7. CASE ExecutorSubmit
  BY <1>2, <1>4, <1>7
     DEF ExecutorSubmit, ExecutorSends, LaneInv, ExecutorOnRun, RelayTypeOK
<1>8. CASE ExecutorSimulate
  BY <1>4, <1>8 DEF ExecutorSimulate, ExecutorTo, LaneInv, ExecutorOnRun, RelayTypeOK
<1>9. CASE ExecutorSettle
  BY <1>2, <1>3, <1>9 DEF ExecutorSettle, ExecutorSends, RelayTypeOK
<1>10. CASE ExecutorAnnounce \/ ExecutorPoll \/ ExecutorMarket \/ ExecutorSettled
  BY <1>3, <1>10
     DEF ExecutorAnnounce, ExecutorPoll, ExecutorMarket, ExecutorSettled, ExecutorTo, RelayTypeOK
<1>11. CASE ExecutorReconcile
  BY <1>2, <1>3, <1>11 DEF ExecutorReconcile, ExecutorTo, RelayTypeOK
<1>12. CASE StartExecutor
  BY <1>3, <1>12 DEF StartExecutor, ExecutorTo, RelayTypeOK
<1>13. CASE ExecutorStep
  BY <1>2, <1>5, <1>6, <1>7, <1>8, <1>9, <1>10, <1>11, <1>13 DEF ExecutorStep, ExecutorState
<1>14. QED
  BY <1>1, <1>2, <1>12, <1>13, ContractFrame, QuietFrame, AttestorFrame, RelayStep
     DEF KillExecutor, Stage, relayVars

\* Hence both lanes do.
LEMMA NextLane ==
    ASSUME RelayTypeOK, LaneInv, [RelayNext]_relayVars
    PROVE  LaneInv'
BY NextPool, NextReport, NextConsumed, NextAttestorOnRun, NextExecutorOnRun DEF LaneInv

\* Whatever is corrected in the feed after the handoff, whoever is killed: each
\* lane works on the bundle that was handed off and on no other.
THEOREM RelayLanes == RelaySpec => [](RelayTypeOK /\ LaneInv)
BY RelayInitType, RelayInitLane, RelayNextType, NextLane, PTL DEF RelaySpec

\* The relay drives the contracts only as their own specification allows, so
\* every theorem about the contracts holds for the relay.
THEOREM RelayImplementsBase == RelaySpec => BaseSpec
<1>1. RelayInit => BaseInit
  BY DEF RelayInit
<1>2. RelayTypeOK /\ LaneInv /\ [RelayNext]_relayVars => [BaseNext]_vars
  BY RelayIsBase
<1>3. QED BY <1>1, <1>2, RelayLanes, PTL DEF RelaySpec, BaseSpec

-----------------------------------------------------------------------------
\* The lanes cannot contradict each other.

\* What the relay's invariants use of the contracts.
BaseFacts ==
    /\ TypeOK /\ StatusMatchesRecords /\ RecordsAreReports /\ StatusIsVerdict
    /\ VaaSpentExactly /\ Level3SpentExactly /\ MarketInv

\* The invariants of the contracts and of the registry hold under the relay.
THEOREM RelayBaseFacts == RelaySpec => []BaseFacts
BY RelayImplementsBase, BaseImplementsRegistry, TypeCorrect, StatusCorrect, RecordsCorrect,
   VerdictCorrect, VaaSpentCorrect, Level3SpentCorrect, MarketInvariant, PTL DEF BaseFacts

\* An accepted report is of this run or another run's Level 3 report.
LEMMA AcceptedOnRun ==
    ASSUME BaseFacts, ConsumedOnRun, NEW c \in accepted[MarketFixture]
    PROVE  \/ handoff # None /\ c.id = RunId
           \/ \E v \in RivalVersions : c.id = ReportOf(v).id /\ c.id \in consumedAttestations
<1>1. MarketFixture \in Fixtures
  BY BaseAssumption
<1>2. c.lane = "level3" \/ c.lane = "level4"
  BY <1>1 DEF BaseFacts, TypeOK, Lanes
<1>3. CASE c.lane = "level3"
  BY <1>1, <1>3 DEF BaseFacts, Level3SpentExactly, ConsumedOnRun
<1>4. CASE c.lane = "level4"
  BY <1>1, <1>4 DEF BaseFacts, VaaSpentExactly, ConsumedOnRun, IdOf, Compute
<1>5. QED BY <1>2, <1>3, <1>4

\* Without another run there is no conflict.
LEMMA OnlyRivalsConflict ==
    ASSUME BaseFacts, ConsumedOnRun, status[MarketFixture] = "Conflict"
    PROVE  \E v \in RivalVersions : /\ ReportOf(v).id # RunId
                                   /\ ReportOf(v).id \in consumedAttestations
<1>1. PICK c \in accepted[MarketFixture], d \in accepted[MarketFixture] : c.id # d.id
  BY BaseAssumption, ConflictIsReal DEF BaseFacts
<1>2. PICK e \in accepted[MarketFixture] : e.id # RunId
  BY <1>1
<1>3. PICK v \in RivalVersions : e.id = ReportOf(v).id /\ e.id \in consumedAttestations
  BY <1>2, AcceptedOnRun
<1>4. QED BY <1>2, <1>3

\* One run cannot freeze its own fixture, for any feeds, corrections, kills and
\* rivals: both lanes deliver the digest of the bundle that was handed off.
THEOREM OneDigestCorrect == RelaySpec => []LanesDeliverOneDigest
<1>1. LaneInv /\ BaseFacts => LanesDeliverOneDigest
  <2> SUFFICES ASSUME LaneInv, BaseFacts PROVE LanesDeliverOneDigest
    OBVIOUS
  <2>1. \A t \in mempool : t.kind # "settle" => ReportOf(t.version).id = RunId
    BY OursId DEF LaneInv, PoolOnRun
  <2>2. QED BY <2>1, OnlyRivalsConflict DEF LaneInv, LanesDeliverOneDigest, RunId
<1>2. QED BY <1>1, RelayLanes, RelayBaseFacts, PTL

-----------------------------------------------------------------------------
\* What never becomes false again.

\* Finality without a conflict, settlement, wiring and consumption are for good.
LEMMA ContractMoveGrows ==
    ASSUME TypeOK, ContractMove
    PROVE  /\ Final => Final'
           /\ Settled => Settled'
           /\ Wired => Wired'
<1> USE DEF Final, Settled, Wired
<1>1. CASE WireReporters(InitialOwner)
  BY <1>1 DEF WireReporters, SetReporters, reportVars
<1>2. ASSUME NEW v \in Versions \union RivalVersions, OnReport(InitialForwarder, ReportOf(v))
      PROVE  ~Final /\ market' = market /\ level3Receiver' = level3Receiver
  BY <1>2 DEF OnReport, ReportLevel3, Report, ReportOf, Closed, wiringVars
<1>3. ASSUME NEW v \in Versions, ConsumeVaa(VaaOf(v))
      PROVE  ~Final /\ market' = market /\ level3Receiver' = level3Receiver
  BY <1>3 DEF ConsumeVaa, ReportLevel4, Report, VaaOf, Closed, wiringVars
<1>4. CASE Settle
  BY <1>4 DEF Settle, registryVars, wiringVars, reportVars
<1>5. QED BY <1>1, <1>2, <1>3, <1>4 DEF ContractMove

\* They are for good whatever the relay does.
LEMMA RelayGrows ==
    ASSUME RelayTypeOK, LaneInv, TypeOK, [RelayNext]_relayVars
    PROVE  /\ Final => Final'
           /\ Settled => Settled'
           /\ Wired => Wired'
           /\ Reported => Reported'
           /\ Verified => Verified'
<1>1. CASE UNCHANGED vars
  <2>1. UNCHANGED <<status, market, level3Receiver, consumedAttestations, consumedVaaHashes>>
    BY <1>1 DEF vars, level3Vars, level4Vars, registryVars, reportVars, wiringVars
  <2>2. QED
    BY <2>1, HandoffStays
       DEF Final, Settled, Wired, Reported, Verified, RunId, ReportOf, IdOf, Compute,
           BuildProofBundle
<1>2. CASE ContractStep /\ ContractMove
  <2>1. handoff' = handoff
    BY <1>2, ContractFrame DEF runDirectory
  <2>2. /\ consumedAttestations \subseteq consumedAttestations'
        /\ consumedVaaHashes \subseteq consumedVaaHashes'
    BY <1>2, ContractMoveConsumes
  <2>3. QED
    BY <1>2, <2>1, <2>2, ContractMoveGrows
       DEF Reported, Verified, RunId, ReportOf, IdOf, Compute, BuildProofBundle
<1>3. QED
  BY <1>1, <1>2, ContractSteps, QuietFrame, AttestorFrame, ExecutorFrame, RelayStep
     DEF Stage, relayVars

-----------------------------------------------------------------------------
\* What is announced, and by which step.

\* An announcement adds its events to those made before.
LEMMA EmitFacts ==
    ASSUME NEW types, NEW b, Emit(types, b), NEW e \in emitted'
    PROVE  e \in emitted \/ (e.type \in types /\ e.simulated = b)
BY DEF Emit, Events

\* What the attestor announces.
LEMMA AttestorEmits ==
    ASSUME StartAttestor \/ KillAttestor \/ AttestorStep, NEW e \in emitted', e \notin emitted
    PROVE  \/ e.type = "RUN_FAILED"
           \/ AttestorAnnounce /\ e.type = "LEVEL3_BASE_FINALIZED"
                 /\ (e.simulated = FALSE => attestor.tx # None)
<1>1. CASE AttestorTick
  <2>1. Emit({"RUN_FAILED"}, TRUE)
    BY <1>1 DEF AttestorTick
  <2>2. e.type \in {"RUN_FAILED"}
    BY <2>1, EmitFacts
  <2>3. QED BY <2>2
<1>2. CASE AttestorCheck
  <2>1. Emit({"RUN_FAILED"}, TRUE)
    BY <1>2 DEF AttestorCheck
  <2>2. e.type \in {"RUN_FAILED"}
    BY <2>1, EmitFacts
  <2>3. QED BY <2>2
<1>3. CASE AttestorAnnounce
  <2> DEFINE b == attestor.tx = None
  <2>1. Emit({"LEVEL3_BASE_FINALIZED"}, b)
    BY <1>3 DEF AttestorAnnounce
  <2> HIDE DEF b
  <2>2. e.type = "LEVEL3_BASE_FINALIZED" /\ e.simulated = b
    BY <2>1, EmitFacts
  <2>3. QED BY <1>3, <2>2 DEF b
<1>4. QED
  BY <1>1, <1>2, <1>3
     DEF StartAttestor, KillAttestor, AttestorStep, AttestorSend, AttestorSimulate,
         AttestorReport, WriteReport, AttestorState

\* What the executor announces.
LEMMA ExecutorEmits ==
    ASSUME StartExecutor \/ KillExecutor \/ ExecutorStep, NEW e \in emitted', e \notin emitted
    PROVE  \/ e.simulated = TRUE /\ e.type # "DUAL_FINALITY_REACHED"
           \/ e.simulated = TRUE /\ reportFile # None
           \/ e.simulated = FALSE /\
                 \/ ExecutorAnnounce /\ e.type \in {"LEVEL4_BASE_SUBMITTED", "BASE_VAA_VERIFIED"}
                 \/ /\ ExecutorPoll /\ e.type = "DUAL_FINALITY_REACHED"
                    /\ \E w \in Answered : SeenFinal(w)
                 \/ ExecutorSettled /\ e.type = "CONSUMER_SETTLED"
<1>1. CASE ExecutorTick
  BY <1>1, EmitFacts DEF ExecutorTick
<1>2. CASE ExecutorCheck
  <2>1. PICK types \in SUBSET {"RUN_FAILED", "TXLINE_CPI_VERIFIED", "WORMHOLE_MESSAGE_PUBLISHED",
                               "VAA_READY"} : Emit(types, TRUE)
    BY <1>2 DEF ExecutorCheck
  <2>2. QED BY <2>1, EmitFacts
<1>3. CASE ExecutorAnnounce
  BY <1>3, EmitFacts DEF ExecutorAnnounce
<1>4. CASE ExecutorSimulate
  <2>1. Emit({"LEVEL4_BASE_SUBMITTED", "BASE_VAA_VERIFIED"}, TRUE)
    BY <1>4 DEF ExecutorSimulate
  <2>2. e.type \in {"LEVEL4_BASE_SUBMITTED", "BASE_VAA_VERIFIED"} /\ e.simulated = TRUE
    BY <2>1, EmitFacts
  <2>3. QED BY <2>2
<1>5. CASE ExecutorReconcile
  BY <1>5, EmitFacts DEF ExecutorReconcile
<1>6. CASE ExecutorPoll
  <2>1. Emit({"DUAL_FINALITY_REACHED"}, FALSE) /\ \E w \in Answered : SeenFinal(w)
    BY <1>6 DEF ExecutorPoll
  <2>2. e.type \in {"DUAL_FINALITY_REACHED"} /\ e.simulated = FALSE
    BY <2>1, EmitFacts
  <2>3. QED BY <1>6, <2>1, <2>2
<1>7. CASE ExecutorSettled
  BY <1>7, EmitFacts DEF ExecutorSettled
<1>8. QED
  BY <1>1, <1>2, <1>3, <1>4, <1>5, <1>6, <1>7
     DEF StartExecutor, KillExecutor, ExecutorStep, ExecutorSubmit, ExecutorMarket,
         ExecutorSettle, ExecutorState

\* An announcement that was not there before, by type.
LEMMA NewAnnouncement ==
    ASSUME [RelayNext]_relayVars, NEW e \in emitted', e \notin emitted
    PROVE  /\ e = [type |-> "DUAL_FINALITY_REACHED", simulated |-> FALSE] =>
                  ExecutorPoll /\ \E w \in Answered : SeenFinal(w)
           /\ e = [type |-> "DUAL_FINALITY_REACHED", simulated |-> TRUE] => reportFile # None
           /\ e = [type |-> "CONSUMER_SETTLED", simulated |-> FALSE] => ExecutorSettled
           /\ e = [type |-> "BASE_VAA_VERIFIED", simulated |-> FALSE] => ExecutorAnnounce
           /\ e = [type |-> "LEVEL3_BASE_FINALIZED", simulated |-> FALSE] =>
                  AttestorAnnounce /\ attestor.tx # None
<1>1. CASE StartAttestor \/ KillAttestor \/ AttestorStep
  <2>1. \/ e.type = "RUN_FAILED"
        \/ AttestorAnnounce /\ e.type = "LEVEL3_BASE_FINALIZED"
              /\ (e.simulated = FALSE => attestor.tx # None)
    BY <1>1, AttestorEmits
  <2>2. QED BY <2>1
<1>2. CASE StartExecutor \/ KillExecutor \/ ExecutorStep
  <2>1. \/ e.simulated = TRUE /\ e.type # "DUAL_FINALITY_REACHED"
        \/ e.simulated = TRUE /\ reportFile # None
        \/ e.simulated = FALSE /\
              \/ ExecutorAnnounce /\ e.type \in {"LEVEL4_BASE_SUBMITTED", "BASE_VAA_VERIFIED"}
              \/ /\ ExecutorPoll /\ e.type = "DUAL_FINALITY_REACHED"
                 /\ \E w \in Answered : SeenFinal(w)
              \/ ExecutorSettled /\ e.type = "CONSUMER_SETTLED"
    BY <1>2, ExecutorEmits
  <2>2. QED BY <2>1
<1>3. QED
  BY <1>1, <1>2, ContractFrame, QuietFrame, RelayStep DEF Stage, relayVars

-----------------------------------------------------------------------------
\* Finality that was seen is there to stay.

\* What a replica answers was true when it last caught up, and still is.
LEMMA AnsweredFacts ==
    ASSUME FinalityInv, DeliveryInv, NEW w \in Answered
    PROVE  /\ SeenFinal(w) => Final
           /\ w.settled => Settled
           /\ w.wired => Wired
<1>1. CASE w = Now
  BY <1>1 DEF Now, SeenFinal, Final, Settled, Wired
<1>2. CASE w = replica
  BY <1>2 DEF FinalityInv, DeliveryInv, SeenFinal
<1>3. QED BY <1>1, <1>2 DEF Answered

\* A settlement that leaves the mempool was made, or was refused because it was.
LEMMA MinedSettlement ==
    ASSUME BaseFacts, NEW t \in mempool, Mine(t), t.kind = "settle", Final
    PROVE  Settled \/ Settled'
<1>1. CASE Accepts(Now, t) /\ Effect(t)
  <2>1. Settle
    BY <1>1 DEF Effect
  <2>2. market.settled'
    <3>1. market' = [market EXCEPT !.settled = TRUE,
                                  !.winningOutcome = FinalOutcome(MarketFixture).result]
      BY <2>1 DEF Settle
    <3>2. QED BY <3>1 DEF BaseFacts, MarketInv
  <2>3. QED BY <2>2 DEF Settled
<1>2. CASE ~Accepts(Now, t)
  BY <1>2 DEF Accepts, Now, Final, Settled
<1>3. QED BY <1>1, <1>2 DEF Mine

\* At the start nobody has seen anything.
LEMMA InitFinality == RelayInit => FinalityInv
<1> SUFFICES ASSUME RelayInit PROVE FinalityInv
  OBVIOUS
<1>1. /\ replica = Now /\ status[MarketFixture] = "Unknown" /\ ~market.settled
      /\ executor = ExecutorDown /\ ~executorFile.dual /\ emitted = {}
  BY BaseAssumption DEF RelayInit, BaseInit, Init
<1>2. replica.status # "DualFinalized" /\ ~replica.settled
  BY <1>1 DEF Now
<1>3. executor.pc = "down" /\ ~executor.dual
  BY <1>1 DEF ExecutorDown
<1>4. ~(Events({"DUAL_FINALITY_REACHED"}, TRUE) \subseteq emitted)
  BY <1>1 DEF Events
<1>5. QED BY <1>1, <1>2, <1>3, <1>4 DEF FinalityInv, Announced

\* Only a miner takes a transaction out of the mempool.
LEMMA LeftPool ==
    ASSUME [RelayNext]_relayVars, NEW t \in mempool, t \notin mempool'
    PROVE  Mine(t)
<1>1. ~AttestorStep
  BY DEF AttestorStep, AttestorTick, AttestorCheck, AttestorSend, AttestorDelivers,
         AttestorSimulate, AttestorReport, AttestorAnnounce, AttestorState,
         AttestorOnly, WriteReport
<1>2. ~ExecutorStep
  BY DEF ExecutorStep, ExecutorTick, ExecutorCheck, ExecutorSubmit, ExecutorAnnounce,
         ExecutorSimulate, ExecutorReconcile, ExecutorPoll, ExecutorMarket,
         ExecutorSettle, ExecutorSettled, ExecutorState, ExecutorOnly, ExecutorSends
<1>3. ContractStep
  BY <1>1, <1>2, QuietFrame, RelayStep
     DEF Stage, StartAttestor, KillAttestor, AttestorOnly, StartExecutor, KillExecutor,
         ExecutorOnly, relayVars
<1>4. QED BY <1>3 DEF ContractStep, Deploy, FrontRun, RivalReport, Mine

\* A settlement on its way stays there or was made.
LEMMA SettlingStays ==
    ASSUME RelayTypeOK, LaneInv, BaseFacts, [RelayNext]_relayVars,
           NEW t \in Transactions, t.kind = "settle", Final,
           t \in mempool \/ Settled
    PROVE  t \in mempool' \/ Settled'
<1>1. CASE Settled
  BY <1>1, RelayGrows DEF BaseFacts
<1>2. CASE t \in mempool /\ t \notin mempool'
  <2>1. Settled \/ Settled'
    BY <1>2, LeftPool, MinedSettlement
  <2>2. QED BY <1>1, <2>1
<1>3. QED BY <1>1, <1>2

\* What the executor knows of finality after one of its own steps.
LEMMA ExecutorSeesFinality ==
    ASSUME RelayTypeOK, FinalityInv, DeliveryInv, StartExecutor \/ KillExecutor \/ ExecutorStep
    PROVE  /\ executor'.dual \/ executor'.pc \in {"market", "settle", "settling"} => Final
           /\ executorFile'.dual => Final
           /\ executor'.pc = "settling" =>
                 executor'.tx \in Transactions /\ executor'.tx.kind = "settle"
                    /\ executor'.tx \in mempool'
<1> USE DEF RelayTypeOK
<1>1. /\ executor.dual \/ executorFile.dual => Final
      /\ executor.pc \in {"market", "settle", "settling"} => Final
  BY DEF FinalityInv
<1>2. executorFile'.dual => Final
  <2>1. CASE UNCHANGED executorFile
    BY <1>1, <2>1
  <2>2. CASE ExecutorState
    BY <1>1, <2>2 DEF ExecutorState, WriteExecutorState
  <2>3. QED
    BY <2>1, <2>2
       DEF StartExecutor, KillExecutor, ExecutorStep, ExecutorTick, ExecutorCheck,
           ExecutorSubmit, ExecutorAnnounce, ExecutorSimulate, ExecutorReconcile,
           ExecutorPoll, ExecutorMarket, ExecutorSettle, ExecutorSettled, ExecutorOnly,
           runDirectory
<1>3. CASE ExecutorEnd
  BY <1>2, <1>3 DEF ExecutorEnd, ExecutorDown
<1>4. CASE /\ executor'.dual = executor.dual
           /\ executor'.pc \in {"tick", "check", "send", "mining", "reconcile", "poll", "state"}
  BY <1>1, <1>2, <1>4
<1>5. CASE StartExecutor
  BY <1>4, <1>5 DEF StartExecutor, ExecutorTo
<1>6. CASE ExecutorTick
  BY <1>2, <1>3, <1>4, <1>6 DEF ExecutorTick
<1>7. CASE ExecutorCheck
  BY <1>2, <1>3, <1>4, <1>7 DEF ExecutorCheck, ExecutorTo
<1>8. CASE ExecutorSubmit
  BY <1>2, <1>3, <1>4, <1>8 DEF ExecutorSubmit, ExecutorSends
<1>9. CASE ExecutorAnnounce \/ ExecutorSimulate \/ ExecutorSettled
  BY <1>4, <1>9 DEF ExecutorAnnounce, ExecutorSimulate, ExecutorSettled, ExecutorTo
<1>10. CASE ExecutorReconcile
  BY <1>2, <1>3, <1>4, <1>10 DEF ExecutorReconcile, ExecutorTo
<1>11. CASE ExecutorPoll
  <2>1. CASE ExecutorTo("state")
    BY <1>4, <2>1 DEF ExecutorTo
  <2>2. CASE Final /\ executor' = [executor EXCEPT !.pc = "market", !.dual = TRUE]
    BY <1>2, <2>2
  <2>3. QED BY <1>11, <2>1, <2>2, AnsweredFacts DEF ExecutorPoll
<1>12. CASE ExecutorMarket
  BY <1>1, <1>2, <1>12 DEF ExecutorMarket, ExecutorTo
<1>13. CASE ExecutorSettle
  <2> DEFINE t == [kind |-> "settle", version |-> None, kills |-> kills]
  <2>1. t \in Transactions /\ t.kind = "settle"
    BY DEF Transactions
  <2>2. ExecutorSends(t, "settling") /\ Final
    BY <1>1, <1>13 DEF ExecutorSettle
  <2> HIDE DEF t
  <2>3. CASE /\ mempool' = mempool \union {t}
             /\ executor' = [executor EXCEPT !.pc = "settling", !.tx = t]
    BY <1>2, <2>1, <2>2, <2>3
  <2>4. QED BY <1>2, <1>3, <2>2, <2>3 DEF ExecutorSends
<1>14. QED
  BY <1>2, <1>3, <1>5, <1>6, <1>7, <1>8, <1>9, <1>10, <1>11, <1>12, <1>13
     DEF ExecutorStep, KillExecutor, ExecutorState

\* Nobody comes to see finality or settlement that is not there.
LEMMA NextFinality ==
    ASSUME RelayTypeOK, LaneInv, BaseFacts, FinalityInv, DeliveryInv, [RelayNext]_relayVars
    PROVE  FinalityInv'
<1>1. (Final => Final') /\ (Settled => Settled')
  BY RelayGrows DEF BaseFacts
<1>2. replica'.status = "DualFinalized" => Final'
  <2>1. CASE UNCHANGED replica
    BY <1>1, <2>1 DEF FinalityInv
  <2>2. CASE CatchUp
    <3>1. replica' = Now /\ UNCHANGED vars
      BY <2>2 DEF CatchUp
    <3>2. replica'.status = "DualFinalized" => Final
      BY <3>1 DEF Now, Final
    <3>3. QED BY <1>1, <3>2
  <2>3. QED
    BY <2>1, <2>2, ContractFrame, AttestorFrame, ExecutorFrame, RelayStep
       DEF QuietStep, Correct, Configure, Stage, relayVars
<1>3. replica'.settled => Settled'
  <2>1. CASE UNCHANGED replica
    BY <1>1, <2>1 DEF FinalityInv
  <2>2. CASE CatchUp
    <3>1. replica' = Now
      BY <2>2 DEF CatchUp
    <3>2. replica'.settled => Settled
      BY <3>1 DEF Now, Settled
    <3>3. QED BY <1>1, <3>2
  <2>3. QED
    BY <2>1, <2>2, ContractFrame, AttestorFrame, ExecutorFrame, RelayStep
       DEF QuietStep, Correct, Configure, Stage, relayVars
<1>4. /\ executor'.dual \/ executorFile'.dual => Final'
      /\ executor'.pc \in {"market", "settle", "settling"} => Final'
      /\ executor'.pc = "settling" =>
            executor'.tx \in Transactions /\ executor'.tx.kind = "settle"
               /\ (executor'.tx \in mempool' \/ Settled')
  <2>1. CASE UNCHANGED <<executor, executorFile>>
    BY <1>1, <2>1, SettlingStays DEF FinalityInv
  <2>2. CASE StartExecutor \/ KillExecutor \/ ExecutorStep
    BY <1>1, <2>2, ExecutorSeesFinality
  <2>3. QED
    BY <2>1, <2>2, ContractFrame, QuietFrame, AttestorFrame, RelayStep
       DEF Stage, runDirectory, relayVars
<1>5. Announced("DUAL_FINALITY_REACHED")' => Final'
  <2>1. Announced("DUAL_FINALITY_REACHED") => Final
    BY DEF FinalityInv
  <2>2. ASSUME NEW e, e = [type |-> "DUAL_FINALITY_REACHED", simulated |-> FALSE],
               e \in emitted', e \notin emitted
        PROVE  Final
    BY <2>2, NewAnnouncement, AnsweredFacts
  <2>3. QED BY <1>1, <2>1, <2>2 DEF Announced
<1>6. Announced("CONSUMER_SETTLED")' => Settled'
  <2>1. Announced("CONSUMER_SETTLED") => Settled
    BY DEF FinalityInv
  <2>2. ASSUME NEW e, e = [type |-> "CONSUMER_SETTLED", simulated |-> FALSE],
               e \in emitted', e \notin emitted
        PROVE  Settled
    <3>1. ExecutorSettled
      BY <2>2, NewAnnouncement
    <3>2. QED BY <3>1 DEF ExecutorSettled, FinalityInv
  <2>3. QED BY <1>1, <2>1, <2>2 DEF Announced
<1>7. Events({"DUAL_FINALITY_REACHED"}, TRUE)' \subseteq emitted' => reportFile' # None
  <2> DEFINE e == [type |-> "DUAL_FINALITY_REACHED", simulated |-> TRUE]
  <2>1. Events({"DUAL_FINALITY_REACHED"}, TRUE) = {e}
    BY DEF Events
  <2>2. Events({"DUAL_FINALITY_REACHED"}, TRUE)' = {e}
    BY DEF Events
  <2>3. e \in emitted => reportFile # None
    BY <2>1 DEF FinalityInv
  <2>4. e \in emitted' /\ e \notin emitted => reportFile # None
    BY NewAnnouncement
  <2>5. reportFile # None => reportFile' # None
    <3>1. ~UNCHANGED reportFile => AttestorSimulate \/ AttestorReport
      BY ContractFrame, QuietFrame, ExecutorFrame, RelayStep
         DEF StartAttestor, KillAttestor, AttestorStep, AttestorTick, AttestorCheck,
             AttestorSend, AttestorAnnounce, AttestorState, AttestorOnly, Stage,
             runDirectory, relayVars
    <3>2. CASE AttestorSimulate \/ AttestorReport
      <4>1. reportFile' \in ReportFiles
        <5>1. WriteReport /\ Ours(attestor.version)
          BY <3>2 DEF AttestorSimulate, AttestorReport, LaneInv, AttestorOnRun
        <5>2. ReportOf(attestor.version).id \in AttestationIds
          BY <5>1, VersionFacts DEF Ours
        <5>3. QED BY <5>1, <5>2 DEF WriteReport, ReportFiles
      <4>2. QED BY <4>1, VersionFacts
    <3>3. QED BY <3>1, <3>2
  <2> HIDE DEF e
  <2>6. QED BY <2>2, <2>3, <2>4, <2>5
<1>8. QED BY <1>2, <1>3, <1>4, <1>5, <1>6, <1>7 DEF FinalityInv

-----------------------------------------------------------------------------
\* What counts as delivered is on Base.

\* At the start nothing is delivered, nor said to be.
LEMMA InitDelivery == RelayInit => DeliveryInv
<1> SUFFICES ASSUME RelayInit PROVE DeliveryInv
  OBVIOUS
<1>1. /\ replica = Now /\ mempool = {} /\ emitted = {} /\ level3Receiver = ZeroAddress
      /\ attestor = AttestorDown /\ attestorFile = "watching" /\ executor = ExecutorDown
      /\ executorFile.phase = "watching"
  BY DEF RelayInit, BaseInit, Init
<1>2. ~replica.wired
  BY <1>1 DEF Now
<1>3. attestor.pc = "down" /\ attestor.tx = None
  BY <1>1 DEF AttestorDown
<1>4. executor.pc = "down" /\ executor.tx = None /\ ~executor.resumed
  BY <1>1 DEF ExecutorDown
<1>5. QED BY <1>1, <1>2, <1>3, <1>4 DEF DeliveryInv, Announced

\* With no other run, a fixture is closed only when both lanes have delivered.
LEMMA ClosedIsDelivered ==
    ASSUME BaseFacts, LaneInv, status[MarketFixture] \in Closed
    PROVE  Reported /\ Verified
<1> SUFFICES ASSUME RivalVersions = {}
             PROVE  Reported /\ Verified
  BY DEF Reported, Verified
<1>1. MarketFixture \in Fixtures
  BY BaseAssumption
<1>2. status[MarketFixture] = "DualFinalized"
  BY OnlyRivalsConflict DEF Closed, LaneInv
<1>3. Has("level3", MarketFixture) /\ Has("level4", MarketFixture)
  BY <1>1, <1>2 DEF BaseFacts, StatusMatchesRecords
<1>4. \A l \in Lanes :
         [lane |-> l, id |-> attestation[l][MarketFixture].attestationId]
            \in accepted[MarketFixture]
  BY <1>1, <1>3 DEF BaseFacts, RecordsAreReports, Lanes
<1>5. PICK id : id \in consumedAttestations
  <2> DEFINE c == [lane |-> "level3", id |-> attestation["level3"][MarketFixture].attestationId]
  <2>1. c \in accepted[MarketFixture] /\ c.lane = "level3"
    BY <1>4 DEF Lanes
  <2> HIDE DEF c
  <2>2. QED BY <1>1, <2>1 DEF BaseFacts, Level3SpentExactly
<1>6. PICK b \in consumedVaaHashes : TRUE
  <2> DEFINE c == [lane |-> "level4", id |-> attestation["level4"][MarketFixture].attestationId]
  <2>1. c \in accepted[MarketFixture] /\ c.lane = "level4"
    BY <1>4 DEF Lanes
  <2> HIDE DEF c
  <2>2. QED BY <1>1, <2>1 DEF BaseFacts, VaaSpentExactly
<1>7. QED BY <1>5, <1>6 DEF LaneInv, ConsumedOnRun, Reported, Verified

\* A report that leaves the mempool was consumed, or refused because it was.
LEMMA MinedReport ==
    ASSUME RelayTypeOK, LaneInv, BaseFacts, DeliveryInv, [RelayNext]_relayVars,
           NEW t \in mempool, Mine(t), t.kind = "report"
    PROVE  Reported'
<1>1. Ours(t.version) /\ ReportOf(t.version).id = RunId /\ Wired
  BY OursId DEF LaneInv, PoolOnRun, DeliveryInv
<1>2. CASE Accepts(Now, t) /\ Effect(t)
  <2>1. RunId \in consumedAttestations'
    BY <1>1, <1>2 DEF Effect, OnReport
  <2>2. handoff' # None /\ RunId' = RunId
    <3>1. \A v : Ours(v) => RunId' = RunId
      BY OursStays
    <3>2. QED BY <1>1, <3>1, HandoffStays DEF Ours
  <2>3. QED BY <2>1, <2>2 DEF Reported
<1>3. CASE ~Accepts(Now, t)
  <2>1. status[MarketFixture] \in Closed \/ RunId \in consumedAttestations
    BY <1>1, <1>3 DEF Accepts, Now, Wired
  <2>2. Reported
    BY <1>1, <2>1, ClosedIsDelivered DEF Reported, Ours
  <2>3. QED BY <2>2, RelayGrows DEF BaseFacts
<1>4. QED BY <1>2, <1>3 DEF Mine

\* A VAA that leaves the mempool was consumed, or refused because it was.
LEMMA MinedVaa ==
    ASSUME RelayTypeOK, LaneInv, BaseFacts, DeliveryInv, [RelayNext]_relayVars,
           NEW t \in mempool, Mine(t), t.kind = "vaa"
    PROVE  Verified'
<1>1. /\ Ours(t.version) /\ IdOf(VaaOf(t.version).body) = RunId /\ Wired
      /\ t.version \in Versions
  BY OursId, DigestFacts DEF LaneInv, PoolOnRun, DeliveryInv, Ours
<1>2. CASE Accepts(Now, t) /\ Effect(t)
  <2>1. VaaOf(t.version).body \in consumedVaaHashes'
    BY <1>2 DEF Effect, SubmitVaa, ConsumeVaa
  <2>2. handoff' # None /\ RunId' = RunId
    <3>1. \A v : Ours(v) => RunId' = RunId
      BY OursStays
    <3>2. QED BY <1>1, <3>1, HandoffStays DEF Ours
  <2>3. QED BY <1>1, <2>1, <2>2 DEF Verified, IdOf, Compute
<1>3. CASE ~Accepts(Now, t)
  <2>1. status[MarketFixture] \in Closed \/ Sequence \in consumedSequences
    BY <1>1, <1>3 DEF Accepts, Now, Wired
  <2>2. ASSUME Sequence \in consumedSequences PROVE Verified
    <3>1. PICK b \in consumedVaaHashes : TRUE
      BY <2>2 DEF BaseFacts, VaaSpentExactly
    <3>2. IdOf(b) = RunId
      BY <3>1 DEF LaneInv, ConsumedOnRun
    <3>3. QED BY <1>1, <3>1, <3>2 DEF Verified, Ours
  <2>3. Verified
    BY <2>1, <2>2, ClosedIsDelivered
  <2>4. QED BY <2>3, RelayGrows DEF BaseFacts
<1>4. QED BY <1>2, <1>3 DEF Mine

\* A delivery on its way stays there or was made.
LEMMA DeliveryStays ==
    ASSUME RelayTypeOK, LaneInv, BaseFacts, DeliveryInv, [RelayNext]_relayVars,
           NEW t \in Transactions
    PROVE  /\ t.kind = "report" /\ (t \in mempool \/ Reported) => t \in mempool' \/ Reported'
           /\ t.kind = "vaa" /\ (t \in mempool \/ Verified) => t \in mempool' \/ Verified'
BY RelayGrows, LeftPool, MinedReport, MinedVaa DEF BaseFacts

\* The attestor's part of the invariant.
AttestorDelivery ==
    /\ attestor.pc \in {"down", "tick", "check", "send"} => attestor.tx = None
    /\ attestor.pc = "mining" =>
          attestor.tx \in Transactions /\ attestor.tx.kind = "report"
             /\ (attestor.tx \in mempool \/ Reported)
    /\ attestor.pc \in {"announce", "state"} => attestor.tx = None \/ Reported

\* The attestor says that it delivered only when its report is consumed.
LEMMA NextAttestorDelivery ==
    ASSUME RelayTypeOK, LaneInv, BaseFacts, DeliveryInv, [RelayNext]_relayVars
    PROVE  AttestorDelivery'
<1> USE DEF RelayTypeOK
<1>1. AttestorDelivery /\ (Reported => Reported')
  BY RelayGrows DEF DeliveryInv, AttestorDelivery, BaseFacts
<1>2. CASE UNCHANGED attestor
  <2>1. attestor.pc = "mining" => attestor.tx \in mempool' \/ Reported'
    BY <1>1, DeliveryStays DEF AttestorDelivery
  <2>2. QED BY <1>1, <1>2, <2>1 DEF AttestorDelivery
<1>3. CASE AttestorEnd
  BY <1>3 DEF AttestorEnd, AttestorDown, AttestorDelivery
<1>4. CASE StartAttestor
  BY <1>1, <1>4 DEF StartAttestor, AttestorTo, AttestorDelivery
<1>5. CASE AttestorTick
  BY <1>1, <1>3, <1>5 DEF AttestorTick, AttestorDelivery
<1>6. CASE AttestorCheck
  BY <1>1, <1>3, <1>6 DEF AttestorCheck, AttestorTo, AttestorDelivery
<1>7. CASE AttestorSend
  <2> DEFINE t == [kind |-> "report", version |-> attestor.version, kills |-> kills]
  <2>1. t \in Transactions /\ t.kind = "report"
    BY <1>7 DEF AttestorSend, LaneInv, AttestorOnRun, Ours, Transactions
  <2>2. \/ AttestorEnd
        \/ /\ mempool' = mempool \union {t}
           /\ attestor' = [attestor EXCEPT !.pc = "mining", !.tx = t]
    BY <1>7 DEF AttestorSend, AttestorDelivers
  <2> HIDE DEF t
  <2>3. QED BY <1>3, <2>1, <2>2 DEF AttestorDelivery
<1>8. CASE AttestorSimulate
  BY <1>1, <1>8 DEF AttestorSimulate, WriteReport, AttestorDelivery
<1>9. CASE AttestorReport
  <2>1. Reported'
    BY <1>1, <1>9 DEF AttestorReport, AttestorDelivery
  <2>2. attestor'.pc = "announce"
    BY <1>9 DEF AttestorReport, WriteReport
  <2>3. QED BY <2>1, <2>2 DEF AttestorDelivery
<1>10. CASE AttestorAnnounce
  BY <1>1, <1>10 DEF AttestorAnnounce, AttestorTo, AttestorDelivery
<1>11. QED
  BY <1>2, <1>3, <1>4, <1>5, <1>6, <1>7, <1>8, <1>9, <1>10, ContractFrame, QuietFrame,
     ExecutorFrame, RelayStep
     DEF AttestorStep, AttestorState, KillAttestor, Stage, relayVars

\* The executor's part, a predecessor's file included.
ExecutorDelivery ==
    /\ executor.pc \in {"down", "tick", "check", "send", "reconcile"} =>
          ~executor.resumed /\ executor.tx = None
    /\ executor.pc = "mining" =>
          ~executor.resumed /\ executor.tx \in Transactions /\ executor.tx.kind = "vaa"
             /\ (executor.tx \in mempool \/ Verified)
    /\ executor.resumed => executorFile.phase = "submitted"
    /\ executor.pc \in {"poll", "market", "settle", "settling"} => executor.resumed \/ Verified
    /\ executor.pc = "state" => executor.resumed \/ executor.tx = None \/ Verified
    /\ executorFile.phase = "submitted" => executorFile.simulated \/ Verified

\* The executor says that it delivered only when its VAA is consumed.
LEMMA NextExecutorDelivery ==
    ASSUME RelayTypeOK, LaneInv, BaseFacts, DeliveryInv, [RelayNext]_relayVars
    PROVE  ExecutorDelivery'
<1> USE DEF RelayTypeOK
<1>1. ExecutorDelivery /\ (Verified => Verified')
  BY RelayGrows DEF DeliveryInv, ExecutorDelivery, BaseFacts
<1>2. CASE UNCHANGED <<executor, executorFile>>
  <2>1. executor.pc = "mining" => executor.tx \in mempool' \/ Verified'
    BY <1>1, DeliveryStays DEF ExecutorDelivery
  <2>2. QED BY <1>1, <1>2, <2>1 DEF ExecutorDelivery
<1>3. CASE ExecutorEnd /\ UNCHANGED executorFile
  BY <1>1, <1>3 DEF ExecutorEnd, ExecutorDown, ExecutorDelivery
<1>4. CASE StartExecutor
  BY <1>1, <1>4 DEF StartExecutor, ExecutorTo, ExecutorOnly, runDirectory, ExecutorDelivery
<1>5. CASE ExecutorTick
  <2>1. UNCHANGED executorFile
    BY <1>5 DEF ExecutorTick, ExecutorOnly, runDirectory
  <2>2. CASE Submitted /\ executor' = [executor EXCEPT !.pc = "poll", !.resumed = TRUE]
    BY <1>1, <2>1, <2>2 DEF Submitted, ExecutorDelivery
  <2>3. CASE executor' = [executor EXCEPT !.pc = "check", !.version = Fetched]
    BY <1>1, <1>5, <2>1, <2>3 DEF ExecutorTick, ExecutorDelivery
  <2>4. QED BY <1>3, <1>5, <2>1, <2>2, <2>3 DEF ExecutorTick, Unfinished
<1>6. CASE ExecutorCheck
  <2>1. UNCHANGED executorFile
    BY <1>6 DEF ExecutorCheck, ExecutorOnly, runDirectory
  <2>2. QED BY <1>1, <1>3, <1>6, <2>1 DEF ExecutorCheck, ExecutorTo, ExecutorDelivery
<1>7. CASE ExecutorSubmit
  <2> DEFINE t == [kind |-> "vaa", version |-> executor.version, kills |-> kills]
  <2>1. t \in Transactions /\ t.kind = "vaa"
    BY <1>7 DEF ExecutorSubmit, LaneInv, ExecutorOnRun, Ours, Transactions
  <2>2. /\ UNCHANGED executorFile /\ executor.pc = "send"
        /\ \/ ExecutorEnd
           \/ /\ mempool' = mempool \union {t}
              /\ executor' = [executor EXCEPT !.pc = "mining", !.tx = t]
    BY <1>7 DEF ExecutorSubmit, ExecutorSends, runDirectory
  <2> HIDE DEF t
  <2>3. QED BY <1>1, <1>3, <2>1, <2>2 DEF ExecutorDelivery
<1>8. CASE ExecutorAnnounce
  <2>1. UNCHANGED executorFile /\ executor' = [executor EXCEPT !.pc = "poll", !.version = None]
    BY <1>8 DEF ExecutorAnnounce, ExecutorOnly, runDirectory
  <2>2. Verified'
    BY <1>1, <1>8 DEF ExecutorAnnounce, ExecutorDelivery
  <2>3. QED BY <1>1, <2>1, <2>2 DEF ExecutorDelivery
<1>9. CASE ExecutorSimulate
  BY <1>1, <1>9 DEF ExecutorSimulate, ExecutorTo, ExecutorOnly, runDirectory, ExecutorDelivery
<1>10. CASE ExecutorReconcile
  <2>1. UNCHANGED executorFile /\ executor.pc = "reconcile"
    BY <1>10 DEF ExecutorReconcile, ExecutorOnly, runDirectory
  <2>2. CASE executor'.pc = "state" /\ executor'.tx = executor.tx /\ executor'.resumed = executor.resumed
    BY <1>1, <2>1, <2>2 DEF ExecutorDelivery
  <2>3. QED BY <1>3, <1>10, <2>1, <2>2 DEF ExecutorReconcile, ExecutorTo
<1>11. CASE ExecutorPoll \/ ExecutorMarket
  <2>1. /\ UNCHANGED executorFile /\ executor.pc \in {"poll", "market"}
        /\ executor'.pc \in {"market", "settle", "state"}
        /\ executor'.tx = executor.tx /\ executor'.resumed = executor.resumed
    BY <1>11
       DEF ExecutorPoll, ExecutorMarket, ExecutorTo, ExecutorOnly, runDirectory
  <2>2. QED BY <1>1, <2>1 DEF ExecutorDelivery
<1>12. CASE ExecutorSettle
  <2>1. /\ UNCHANGED executorFile /\ executor.pc = "settle"
        /\ \/ ExecutorEnd
           \/ executor'.pc = "settling" /\ executor'.resumed = executor.resumed
    BY <1>12 DEF ExecutorSettle, ExecutorSends, runDirectory
  <2>2. QED BY <1>1, <1>3, <2>1 DEF ExecutorDelivery
<1>13. CASE ExecutorSettled
  <2>1. /\ UNCHANGED executorFile /\ executor.pc = "settling"
        /\ executor'.pc = "state" /\ executor'.resumed = executor.resumed
    BY <1>13 DEF ExecutorSettled, ExecutorOnly, runDirectory
  <2>2. QED BY <1>1, <2>1 DEF ExecutorDelivery
<1>14. CASE ExecutorState
  <2>1. executorFile'.phase = "submitted" /\ executorFile'.simulated = SimulatedDelivery
    BY <1>14 DEF ExecutorState, WriteExecutorState
  <2>2. SimulatedDelivery \/ Verified
    BY <1>1, <1>14 DEF ExecutorState, SimulatedDelivery, ExecutorDelivery
  <2>3. executor'.pc = "down" /\ ~executor'.resumed /\ executor'.tx = None
    BY <1>14 DEF ExecutorState, ExecutorEnd, ExecutorDown
  <2>4. QED BY <1>1, <2>1, <2>2, <2>3 DEF ExecutorDelivery
<1>15. CASE KillExecutor
  BY <1>3, <1>15 DEF KillExecutor, runDirectory
<1>16. QED
  BY <1>2, <1>4, <1>5, <1>6, <1>7, <1>8, <1>9, <1>10, <1>11, <1>12, <1>13, <1>14, <1>15,
     ContractFrame, QuietFrame, AttestorFrame, RelayStep
     DEF ExecutorStep, Stage, runDirectory, relayVars

\* Hence what the lanes know of their deliveries stays true.
LEMMA NextDelivery ==
    ASSUME RelayTypeOK, LaneInv, BaseFacts, FinalityInv, DeliveryInv, [RelayNext]_relayVars
    PROVE  DeliveryInv'
<1>1. (Wired => Wired') /\ (Reported => Reported') /\ (Verified => Verified')
  BY RelayGrows DEF BaseFacts
<1>2. replica'.wired => Wired'
  <2>1. CASE UNCHANGED replica
    BY <1>1, <2>1 DEF DeliveryInv
  <2>2. CASE CatchUp
    <3>1. replica' = Now
      BY <2>2 DEF CatchUp
    <3>2. replica'.wired => Wired
      BY <3>1 DEF Now, Wired
    <3>3. QED BY <1>1, <3>2
  <2>3. QED
    BY <2>1, <2>2, ContractFrame, AttestorFrame, ExecutorFrame, RelayStep
       DEF QuietStep, Correct, Configure, Stage, relayVars
<1>3. ASSUME NEW t \in mempool', t.kind # "settle" PROVE Wired'
  <2>1. CASE t \in mempool
    BY <1>1, <1>3, <2>1 DEF DeliveryInv
  <2>2. CASE t \notin mempool
    <3>1. PICK w \in Answered : Accepts(w, t)
      BY <2>2, NewTransaction
    <3>2. t.kind \in {"report", "vaa"}
      BY <1>3, <2>2, NewTransaction
    <3>3. w.wired
      BY <3>1, <3>2 DEF Accepts
    <3>4. QED BY <1>1, <3>3, AnsweredFacts
  <2>3. QED BY <2>1, <2>2
<1>4. Announced("LEVEL3_BASE_FINALIZED")' \/ attestorFile' = "reported" => Reported'
  <2>1. Announced("LEVEL3_BASE_FINALIZED") \/ attestorFile = "reported" => Reported
    BY DEF DeliveryInv
  <2>2. ASSUME NEW e, e = [type |-> "LEVEL3_BASE_FINALIZED", simulated |-> FALSE],
               e \in emitted', e \notin emitted
        PROVE  Reported
    <3>1. AttestorAnnounce /\ attestor.tx # None
      BY <2>2, NewAnnouncement
    <3>2. QED BY <3>1 DEF AttestorAnnounce, DeliveryInv
  <2>3. ASSUME attestorFile' = "reported", attestorFile # "reported"
        PROVE  Reported
    <3>1. AttestorState
      BY <2>3, ContractFrame, QuietFrame, ExecutorFrame, RelayStep
         DEF StartAttestor, KillAttestor, AttestorStep, AttestorTick, AttestorCheck,
             AttestorSend, AttestorSimulate, AttestorReport, AttestorAnnounce, AttestorOnly,
             WriteReport, Stage, runDirectory, relayVars
    <3>2. QED BY <2>3, <3>1 DEF AttestorState, DeliveryInv
  <2>4. QED BY <1>1, <2>1, <2>2, <2>3 DEF Announced
<1>5. Announced("BASE_VAA_VERIFIED")' => Verified'
  <2>1. Announced("BASE_VAA_VERIFIED") => Verified
    BY DEF DeliveryInv
  <2>2. ASSUME NEW e, e = [type |-> "BASE_VAA_VERIFIED", simulated |-> FALSE],
               e \in emitted', e \notin emitted
        PROVE  Verified
    <3>1. ExecutorAnnounce
      BY <2>2, NewAnnouncement
    <3>2. QED BY <3>1 DEF ExecutorAnnounce, DeliveryInv
  <2>3. QED BY <1>1, <2>1, <2>2 DEF Announced
<1>6. QED
  BY <1>2, <1>3, <1>4, <1>5, NextAttestorDelivery, NextExecutorDelivery
     DEF DeliveryInv, AttestorDelivery, ExecutorDelivery

-----------------------------------------------------------------------------
\* The invariants as the runs state them.

\* The inductive invariant holds of every reachable state of the relay.
THEOREM RelayInvariant == RelaySpec => []RelayInv
<1>1. RelayInit => RelayInv
  BY RelayInitType, RelayInitLane, InitFinality, InitDelivery DEF RelayInv
<1>2. RelayInv /\ BaseFacts /\ [RelayNext]_relayVars => RelayInv'
  BY RelayNextType, NextLane, NextFinality, NextDelivery DEF RelayInv
<1>3. QED BY <1>1, <1>2, RelayBaseFacts, PTL DEF RelaySpec

\* Every variable of the relay keeps its type.
THEOREM RelayTypeCorrect == RelaySpec => []RelayTypeOK
<1>1. RelayInv => RelayTypeOK BY DEF RelayInv
<1>2. QED BY <1>1, RelayInvariant, PTL

\* Whatever lags, is killed or is simulated, finality and settlement are
\* announced and recorded only once they are on Base for good.
THEOREM FinalityEventsCorrect == RelaySpec => []FinalityEventsAreReal
<1>1. RelayInv => FinalityEventsAreReal
  BY DEF RelayInv, FinalityInv, LaneInv, ReportOnRun, FinalityEventsAreReal, Final, Settled,
         RunId
<1>2. QED BY <1>1, RelayInvariant, PTL

\* Without rivals a lane that says it delivered has, although no receipt is read.
THEOREM DeliveredCorrect == RelaySpec => []DeliveredIsOnBase
<1>1. RelayInv => DeliveredIsOnBase
  BY DEF RelayInv, DeliveryInv, DeliveredIsOnBase, Reported, Verified, RunId, IdOf, Compute
<1>2. QED BY <1>1, RelayInvariant, PTL

=============================================================================
