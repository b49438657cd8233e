--------------------------- MODULE RelayPipeline ---------------------------
(***************************************************************************)
(* The two delivering workflows, cre-level3-attestor and cre-vaa-executor, *)
(* over the contracts of module BaseContracts.  Each is a process that a   *)
(* cron trigger starts whenever none of its kind runs; a heartbeat that    *)
(* only waits is not told apart from a new start.  A process may be killed *)
(* between any two effects, and an exception ends it (cronHeartbeat does   *)
(* not catch).  A workflow without an RPC URL, a key or a deployment falls *)
(* back to simulation: it sends nothing and says what it would have done.  *)
(*                                                                         *)
(* A transaction goes through the mempool: it is sent if the gas estimate  *)
(* does not revert, mined later, and may revert then.  Reads and estimates *)
(* are answered by a load-balanced RPC, from the latest block or from a    *)
(* replica that lags behind.                                               *)
(*                                                                         *)
(* One run directory for one match.  The evidence is that of module        *)
(* ScoreEvidence, fetched again by each workflow.  The dev-guardian VAA    *)
(* source answers with the VAA just signed.                                *)
(***************************************************************************)
EXTENDS BaseContracts, ScoreEvidence

CONSTANTS
    Feeds,            \* the sets of events TxLINE may serve for the match
    Sequence,         \* fixture.wormhole.sequence
    Providers,        \* config.rpcProviders
    ProviderQuorum,   \* config.quorum
    Behaviours,       \* assignments of an answer, or None, to every provider
    RivalVersions,    \* final records that another relay run reports for the match
    Configured,       \* the workflows that may have credentials to begin with
    MaxKills,         \* bound: kills of a process
    MaxCorrections    \* bound: corrections of the evidence

ASSUME RelayAssumption ==
    /\ Configured \subseteq SUBSET {"attestor", "executor"}
    /\ \A b \in Behaviours : DOMAIN b = Providers
    /\ ProviderQuorum \in Nat /\ MaxKills \in Nat /\ MaxCorrections \in Nat

VARIABLES
    evidence,       \* external: what TxLINE serves
    corrections,    \* how often that changed
    answers,        \* external: how each RPC provider answers
    credentials,    \* the workflows with an RPC URL, a key and a deployment
    handoff,        \* handoff.json: the bundle and the daily root staged
    attestor,       \* the cre-level3-attestor process
    attestorFile,   \* level3-attestor.state.json
    reportFile,     \* level3-report.json
    executor,       \* the cre-vaa-executor process
    executorFile,   \* vaa-executor.state.json
    mempool,        \* external: transactions sent and not mined
    replica,        \* external: what the lagging RPC node has seen
    emitted,        \* the events delivered to the sink, each marked simulated or not
    kills           \* how often a process was killed

environment == <<evidence, corrections, answers, credentials>>
runDirectory == <<handoff, attestorFile, reportFile, executorFile>>
relayVars == <<vars, environment, runDirectory, attestor, executor,
               mempool, replica, emitted, kills>>

-----------------------------------------------------------------------------
\* Base, as the workflows see it.

\* The final records there may be.
Versions == {FindFinalRecord(FetchFixtureState(f)) : f \in Feeds} \ {None}

\* The report of the Level 3 lane over the final record v.
ReportOf(v) ==
    [fixture |-> MarketFixture,
     id |-> Compute(RegisteredEmitter, MarketFixture, BuildProofBundle(v)),
     result |-> ResultOf(v.score)]

\* The VAA of the Level 4 lane; its body holds the timestamp as well.
VaaOf(v) ==
    [signed |-> TRUE,
     body |-> [chain |-> SourceChain, emitter |-> RegisteredEmitter,
               sequence |-> Sequence, wellFormed |-> TRUE, destination |-> OurChain,
               fixture |-> MarketFixture, timestamp |-> v.time,
               bundle |-> BuildProofBundle(v), result |-> ResultOf(v.score)]]

\* What a node reads of the contracts.
Now ==
    [wired |-> level3Receiver # ZeroAddress, status |-> status[MarketFixture],
     reported |-> consumedAttestations, sequences |-> consumedSequences,
     settled |-> market.settled]

\* The blocks a read or an estimate may be answered from.
Answered == {Now, replica}

Transactions ==
    [kind : {"report", "vaa"}, version : Versions, kills : 0 .. MaxKills]
        \union [kind : {"settle"}, version : {None}, kills : 0 .. MaxKills]

\* What the lanes may deliver is among the reports and VAAs the contracts are
\* modelled with, and nothing that is written or sent is mistaken for None.
ASSUME DeliveryAssumption ==
    /\ \A v \in Versions \union RivalVersions : ReportOf(v) \in Reports
    /\ \A v \in Versions : VaaOf(v) \in Vaas
    /\ None \notin [bundle : {BuildProofBundle(v) : v \in Versions}, rootAccount : {RootAccount}]
    /\ None \notin [id : AttestationIds, simulated : BOOLEAN]
    /\ None \notin Transactions

\* Transaction t does not revert in view w.
Accepts(w, t) ==
    /\ t.kind = "report" => /\ w.wired /\ w.status \notin Closed
                            /\ ReportOf(t.version).id \notin w.reported
    /\ t.kind = "vaa"    => /\ w.wired /\ w.status \notin Closed
                            /\ Sequence \notin w.sequences
    /\ t.kind = "settle" => w.status = "DualFinalized" /\ ~w.settled

Effect(t) ==
    \/ t.kind = "report" /\ OnReport(InitialForwarder, ReportOf(t.version))
    \/ t.kind = "vaa" /\ SubmitVaa(VaaOf(t.version))
    \/ t.kind = "settle" /\ Settle

\* Include t in a block; a reverted transaction is included as well.
Mine(t) ==
    /\ t \in mempool
    /\ mempool' = mempool \ {t}
    /\ \/ Accepts(Now, t) /\ Effect(t)
       \/ ~Accepts(Now, t) /\ UNCHANGED vars
    /\ UNCHANGED <<environment, runDirectory, attestor, executor, replica,
                   emitted, kills>>

-----------------------------------------------------------------------------
\* The environment.

\* The deployment script's second transaction.
Deploy ==
    /\ WireReporters(InitialOwner)
    /\ UNCHANGED <<environment, runDirectory, attestor, executor, mempool,
                   replica, emitted, kills>>

CatchUp ==
    /\ replica' = Now
    /\ UNCHANGED <<vars, environment, runDirectory, attestor, executor, mempool,
                   emitted, kills>>

\* Permissionless calls: anyone may copy a VAA from the mempool and settle.
FrontRun ==
    /\ \/ \E t \in mempool : t.kind = "vaa" /\ SubmitVaa(VaaOf(t.version))
       \/ Settle
    /\ UNCHANGED <<environment, runDirectory, attestor, executor, mempool,
                   replica, emitted, kills>>

\* Another relay run for the same match, with the same forwarder key.
RivalReport ==
    /\ \E v \in RivalVersions : OnReport(InitialForwarder, ReportOf(v))
    /\ UNCHANGED <<environment, runDirectory, attestor, executor, mempool,
                   replica, emitted, kills>>

\* TxLINE serves other events: more of them, or corrected ones.
Correct ==
    /\ corrections < MaxCorrections
    /\ corrections' = corrections + 1
    /\ evidence' \in Feeds \ {evidence}
    /\ UNCHANGED <<vars, answers, credentials, runDirectory, attestor, executor,
                   mempool, replica, emitted, kills>>

\* The operator supplies what was missing.
Configure ==
    /\ \E w \in {"attestor", "executor"} \ credentials :
          credentials' = credentials \union {w}
    /\ UNCHANGED <<vars, evidence, corrections, answers, runDirectory, attestor,
                   executor, mempool, replica, emitted, kills>>

\* What a workflow fetches.
Fetched == FindFinalRecord(FetchFixtureState(evidence))

\* cre-source-dispatch finishes (module SourceDispatch); it fails on a final
\* record of another day than the root account's.
Stage ==
    /\ handoff = None
    /\ Fetched # None /\ LookupDailyRootPda(Fetched) = RootAccount
    /\ handoff' = [bundle |-> BuildProofBundle(Fetched), rootAccount |-> RootAccount]
    /\ UNCHANGED <<vars, environment, attestorFile, reportFile, executorFile, attestor,
                   executor, mempool, replica, emitted, kills>>

-----------------------------------------------------------------------------
\* cre-level3-attestor.

AttestorDown == [pc |-> "down", version |-> None, tx |-> None]

Events(types, simulated) == {[type |-> t, simulated |-> simulated] : t \in types}

Emit(types, simulated) == emitted' = emitted \union Events(types, simulated)

\* A step of the attestor that writes no file and sends nothing.
AttestorOnly ==
    UNCHANGED <<vars, environment, runDirectory, executor, mempool, replica, kills>>

AttestorTo(p) == attestor' = [attestor EXCEPT !.pc = p]
AttestorEnd == attestor' = AttestorDown

StartAttestor ==
    /\ attestor.pc = "down"
    /\ AttestorTo("tick")
    /\ UNCHANGED emitted /\ AttestorOnly

KillAttestor ==
    /\ attestor.pc # "down" /\ kills < MaxKills
    /\ kills' = kills + 1
    /\ AttestorEnd
    /\ UNCHANGED <<vars, environment, runDirectory, executor, mempool, replica, emitted>>

\* Already reported: no-op; no handoff: wait; else fetch the evidence again.
AttestorTick ==
    /\ attestor.pc = "tick"
    /\ \/ (attestorFile # "watching" \/ handoff = None) /\ AttestorEnd /\ UNCHANGED emitted
       \/ /\ attestorFile = "watching" /\ handoff # None /\ Fetched = None
          /\ Emit({"RUN_FAILED"}, TRUE) /\ AttestorEnd
       \/ /\ attestorFile = "watching" /\ handoff # None /\ Fetched # None
          /\ attestor' = [attestor EXCEPT !.pc = "check", !.version = Fetched]
          /\ UNCHANGED emitted
    /\ AttestorOnly

\* simulateOnProvider throws for a provider that does not answer.
ProviderThrows == \E p \in Providers : answers[p] = None

Agrees(p) == answers[p] # None /\ StableOutputsAgree(ExtractStableOutputs(answers[p]))

QuorumReached == Cardinality({p \in Providers : Agrees(p)}) >= ProviderQuorum

\* Bug variant: the digest of the handoff is taken over unchecked.
BundleUnchecked(v) == TRUE

\* The bundle recomputed from the source is the one that was handed off.
BundleMatches(v) == BuildProofBundle(v) = handoff.bundle

\* Anti-spoofing, fan-out to the providers, quorum, digest.
AttestorCheck ==
    /\ attestor.pc = "check"
    /\ LET v == attestor.version
           spoofed == Spoofed(v, handoff.rootAccount)
           throws == LookupDailyRootPda(v) = None \/ (~spoofed /\ ProviderThrows)
           fails == ~throws /\ (spoofed \/ ~QuorumReached \/ ~BundleMatches(v))
       IN  \/ throws /\ UNCHANGED emitted /\ AttestorEnd
           \/ fails /\ Emit({"RUN_FAILED"}, TRUE) /\ AttestorEnd
           \/ ~throws /\ ~fails /\ UNCHANGED emitted /\ AttestorTo("send")
    /\ AttestorOnly

\* sendLevel3Report sends the report unless the estimate reverts; then the
\* exception ends the process.
AttestorDelivers ==
    LET t == [kind |-> "report", version |-> attestor.version, kills |-> kills]
    IN  \E w \in Answered :
           \/ /\ Accepts(w, t)
              /\ mempool' = mempool \union {t}
              /\ attestor' = [attestor EXCEPT !.pc = "mining", !.tx = t]
           \/ ~Accepts(w, t) /\ AttestorEnd /\ UNCHANGED mempool

\* Bug variant: the run counts as reported as soon as delivery is tried.
AttestorSendRecorded ==
    /\ attestor.pc = "send" /\ "attestor" \in credentials
    /\ AttestorDelivers
    /\ attestorFile' = "reported"
    /\ UNCHANGED <<vars, environment, handoff, reportFile, executorFile, executor, replica,
                   emitted, kills>>

AttestorSend ==
    /\ attestor.pc = "send" /\ "attestor" \in credentials
    /\ AttestorDelivers
    /\ UNCHANGED <<vars, environment, runDirectory, executor, replica, emitted, kills>>

WriteReport ==
    /\ reportFile' = [id |-> ReportOf(attestor.version).id, simulated |-> attestor.tx = None]
    /\ attestor' = [attestor EXCEPT !.pc = "announce", !.version = None]
    /\ UNCHANGED <<vars, environment, handoff, attestorFile, executorFile, executor,
                   mempool, replica, emitted, kills>>

\* Without credentials: a report with a "sim:" hash, sent to nobody.
AttestorSimulate ==
    attestor.pc = "send" /\ "attestor" \notin credentials /\ WriteReport

\* Bug variant: as soon as it is sent.
AttestorReportEarly == attestor.pc = "mining" /\ WriteReport

\* waitForTransactionReceipt, whatever the receipt says.
AttestorReport ==
    attestor.pc = "mining" /\ attestor.tx \notin mempool /\ WriteReport

AttestorAnnounce ==
    /\ attestor.pc = "announce"
    /\ Emit({"LEVEL3_BASE_FINALIZED"}, attestor.tx = None)
    /\ AttestorTo("state")
    /\ AttestorOnly

\* The state says "reported" either way; its hash tells them apart.
AttestorState ==
    /\ attestor.pc = "state"
    /\ attestorFile' = IF attestor.tx = None THEN "simulated" ELSE "reported"
    /\ AttestorEnd
    /\ UNCHANGED <<vars, environment, handoff, reportFile, executorFile, executor, mempool,
                   replica, emitted, kills>>

-----------------------------------------------------------------------------
\* cre-vaa-executor.

ExecutorDown ==
    [pc |-> "down", version |-> None, tx |-> None,
     resumed |-> FALSE, dual |-> FALSE, settle |-> FALSE]

ExecutorOnly ==
    UNCHANGED <<vars, environment, runDirectory, attestor, mempool, replica, kills>>

ExecutorTo(p) == executor' = [executor EXCEPT !.pc = p]
ExecutorEnd == executor' = ExecutorDown

StartExecutor ==
    /\ executor.pc = "down"
    /\ ExecutorTo("tick")
    /\ UNCHANGED emitted /\ ExecutorOnly

KillExecutor ==
    /\ executor.pc # "down" /\ kills < MaxKills
    /\ kills' = kills + 1
    /\ ExecutorEnd
    /\ UNCHANGED <<vars, environment, runDirectory, attestor, mempool, replica, emitted>>

Submitted == executorFile.phase = "submitted"

\* A submitted VAA whose finality nobody has seen yet.
Unfinished == Submitted /\ ~executorFile.dual /\ ~executorFile.settle

ExecutorTick ==
    /\ executor.pc = "tick"
    /\ LET resumes == Unfinished /\ "executor" \in credentials
       IN  \/ /\ resumes /\ UNCHANGED emitted
              /\ executor' = [executor EXCEPT !.pc = "poll", !.resumed = TRUE]
           \/ Submitted /\ ~resumes /\ ExecutorEnd /\ UNCHANGED emitted
           \/ ~Submitted /\ handoff = None /\ ExecutorEnd /\ UNCHANGED emitted
           \/ /\ ~Submitted /\ handoff # None /\ Fetched = None
              /\ Emit({"RUN_FAILED"}, TRUE) /\ ExecutorEnd
           \/ /\ ~Submitted /\ handoff # None /\ Fetched # None /\ UNCHANGED emitted
              /\ executor' = [executor EXCEPT !.pc = "check", !.version = Fetched]
    /\ ExecutorOnly

\* Re-run the adapter's verification, sign and fetch the VAA, check its header.
ExecutorCheck ==
    /\ executor.pc = "check"
    /\ LET v == executor.version
           throws == BundleMatches(v) /\ LookupDailyRootPda(v) = None
           verified == BundleMatches(v) /\ LookupDailyRootPda(v) = handoff.rootAccount
       IN  \/ ~verified /\ Emit(IF throws THEN {} ELSE {"RUN_FAILED"}, TRUE) /\ ExecutorEnd
           \/ /\ verified
              /\ Emit({"TXLINE_CPI_VERIFIED", "WORMHOLE_MESSAGE_PUBLISHED", "VAA_READY"}, TRUE)
              /\ ExecutorTo("send")
    /\ ExecutorOnly

\* Send t, unless the estimate reverts: then the exception ends the process.
ExecutorSends(t, p) ==
    \E w \in Answered :
        \/ /\ Accepts(w, t)
           /\ mempool' = mempool \union {t}
           /\ executor' = [executor EXCEPT !.pc = p, !.tx = t]
        \/ ~Accepts(w, t) /\ ExecutorEnd /\ UNCHANGED mempool

\* sendSubmitVaa.
ExecutorSubmit ==
    /\ executor.pc = "send" /\ "executor" \in credentials
    /\ ExecutorSends([kind |-> "vaa", version |-> executor.version, kills |-> kills], "mining")
    /\ UNCHANGED <<vars, environment, runDirectory, attestor, replica, emitted, kills>>

ExecutorAnnounce ==
    /\ executor.pc = "mining"
    /\ executor.tx \notin mempool
    /\ Emit({"LEVEL4_BASE_SUBMITTED", "BASE_VAA_VERIFIED"}, FALSE)
    /\ executor' = [executor EXCEPT !.pc = "poll", !.version = None]
    /\ ExecutorOnly

\* Without credentials: announced as simulated, sent to nobody.
ExecutorSimulate ==
    /\ executor.pc = "send" /\ "executor" \notin credentials
    /\ Emit({"LEVEL4_BASE_SUBMITTED", "BASE_VAA_VERIFIED"}, TRUE)
    /\ ExecutorTo("reconcile")
    /\ ExecutorOnly

\* The digest against the Level 3 report's, if there is one yet.
ExecutorReconcile ==
    /\ executor.pc = "reconcile"
    /\ IF reportFile = None THEN ExecutorTo("state") /\ UNCHANGED emitted
       ELSE IF reportFile.id = ReportOf(executor.version).id
       THEN /\ Emit({"DUAL_FINALITY_REACHED", "CONSUMER_SETTLED"}, TRUE)
            /\ executor' = [executor EXCEPT !.pc = "state", !.settle = TRUE]
       ELSE Emit({"RUN_FAILED"}, TRUE) /\ ExecutorEnd
    /\ ExecutorOnly

\* Bug variant: one lane's record is taken for finality.
FinalOnceVerified(w) == w.status \in {"WormholeVerified", "DualFinalized"}

SeenFinal(w) == w.status = "DualFinalized"

\* finalizeOnBase: poll the registry, give up after some attempts, or go on to
\* the market.
ExecutorPoll ==
    /\ executor.pc = "poll"
    /\ \E w \in Answered :
          \/ ~SeenFinal(w) /\ ExecutorTo("state") /\ UNCHANGED emitted
          \/ /\ SeenFinal(w)
             /\ Emit({"DUAL_FINALITY_REACHED"}, FALSE)
             /\ executor' = [executor EXCEPT !.pc = "market", !.dual = TRUE]
    /\ ExecutorOnly

\* Already settled: no-op.
ExecutorMarket ==
    /\ executor.pc = "market"
    /\ \E w \in Answered : ExecutorTo(IF w.settled THEN "state" ELSE "settle")
    /\ UNCHANGED emitted /\ ExecutorOnly

\* sendSettle.
ExecutorSettle ==
    /\ executor.pc = "settle"
    /\ ExecutorSends([kind |-> "settle", version |-> None, kills |-> kills], "settling")
    /\ UNCHANGED <<vars, environment, runDirectory, attestor, replica, emitted, kills>>

ExecutorSettled ==
    /\ executor.pc = "settling"
    /\ executor.tx \notin mempool
    /\ Emit({"CONSUMER_SETTLED"}, FALSE)
    /\ executor' = [executor EXCEPT !.pc = "state", !.settle = TRUE]
    /\ ExecutorOnly

\* Whether the recorded delivery was a simulated one.
SimulatedDelivery == IF executor.resumed THEN executorFile.simulated ELSE executor.tx = None

\* Bug variant: a delivery counts as finalised.
WriteExecutorStateFinal ==
    executorFile' = [phase |-> "submitted", simulated |-> SimulatedDelivery, dual |-> TRUE,
                     settle |-> executor.settle \/ executorFile.settle]

WriteExecutorState ==
    executorFile' = [phase |-> "submitted", simulated |-> SimulatedDelivery,
                     dual |-> executor.dual, settle |-> executor.settle \/ executorFile.settle]

ExecutorState ==
    /\ executor.pc = "state"
    /\ WriteExecutorState
    /\ ExecutorEnd
    /\ UNCHANGED <<vars, environment, handoff, attestorFile, reportFile, attestor, mempool,
                   replica, emitted, kills>>

-----------------------------------------------------------------------------

RelayInit ==
    /\ BaseInit
    /\ evidence \in Feeds /\ corrections = 0
    /\ answers \in Behaviours /\ credentials \in Configured
    /\ handoff = None
    /\ attestor = AttestorDown /\ attestorFile = "watching" /\ reportFile = None
    /\ executor = ExecutorDown
    /\ executorFile = [phase |-> "watching", simulated |-> FALSE, dual |-> FALSE, settle |-> FALSE]
    /\ mempool = {} /\ replica = Now
    /\ emitted = {} /\ kills = 0

AttestorStep ==
    \/ AttestorTick \/ AttestorCheck \/ AttestorSend \/ AttestorSimulate
    \/ AttestorReport \/ AttestorAnnounce \/ AttestorState

ExecutorStep ==
    \/ ExecutorTick \/ ExecutorCheck \/ ExecutorSubmit \/ ExecutorAnnounce
    \/ ExecutorSimulate \/ ExecutorReconcile
    \/ ExecutorPoll \/ ExecutorMarket \/ ExecutorSettle \/ ExecutorSettled
    \/ ExecutorState

RelayNext ==
    \/ Deploy \/ CatchUp \/ FrontRun \/ RivalReport \/ Correct \/ Configure \/ Stage
    \/ \E t \in mempool : Mine(t)
    \/ StartAttestor \/ KillAttestor \/ AttestorStep
    \/ StartExecutor \/ KillExecutor \/ ExecutorStep

RelaySpec == RelayInit /\ [][RelayNext]_relayVars

\* The deployment is completed, the match is staged, the cron triggers keep
\* firing, a started process goes on, the chain includes what it is sent and the
\* lagging node catches up.  Nobody is obliged to front-run, report or correct.
RelayFairness ==
    /\ WF_relayVars(Deploy) /\ WF_relayVars(Stage)
    /\ WF_relayVars(CatchUp) /\ WF_relayVars(\E t \in mempool : Mine(t))
    /\ WF_relayVars(StartAttestor) /\ WF_relayVars(AttestorStep)
    /\ WF_relayVars(StartExecutor) /\ WF_relayVars(ExecutorStep)

FairRelaySpec == RelaySpec /\ RelayFairness

-----------------------------------------------------------------------------

\* Announced for real.
Announced(type) == [type |-> type, simulated |-> FALSE] \in emitted

\* One run cannot freeze its own fixture: however the evidence is corrected
\* between the lanes and whatever is killed and repeated, the two lanes of one
\* run deliver one digest ("both lanes derive identical digests",
\* cre-runtime.ts:197-198), and only another run's report can make a conflict.
LanesDeliverOneDigest ==
    /\ \A t \in mempool : t.kind # "settle" => ReportOf(t.version).id = ReportOf(handoff.bundle).id
    /\ status[MarketFixture] = "Conflict" =>
          \E v \in RivalVersions : /\ ReportOf(v).id # ReportOf(handoff.bundle).id
                                   /\ ReportOf(v).id \in consumedAttestations

\* What is announced about Base is so, although reads lag and receipts are not
\* looked at: dual finality and settlement are announced only once they are
\* there (events.ts:2-5).  A workflow that fell back to simulation, before or
\* after it had credentials, passes nothing simulated off as real, and says that
\* the lanes met only if the other lane's report is of this run's bundle.
FinalityEventsAreReal ==
    /\ Announced("DUAL_FINALITY_REACHED") \/ executorFile.dual =>
          status[MarketFixture] = "DualFinalized"
    /\ Announced("CONSUMER_SETTLED") => market.settled
    /\ Events({"DUAL_FINALITY_REACHED"}, TRUE) \subseteq emitted =>
          reportFile # None /\ reportFile.id = ReportOf(handoff.bundle).id

\* A run that says it delivered has delivered, or somebody else brought the very
\* same digest; receipts are not looked at, so this rests on nothing but the
\* contracts refusing exactly what they have.  Another run's conflicting report
\* is excluded.
DeliveredIsOnBase ==
    RivalVersions = {} =>
        /\ Announced("LEVEL3_BASE_FINALIZED") \/ attestorFile = "reported" =>
              ReportOf(handoff.bundle).id \in consumedAttestations
        /\ \/ Announced("BASE_VAA_VERIFIED")
           \/ executorFile.phase = "submitted" /\ ~executorFile.simulated =>
              \E body \in consumedVaaHashes : IdOf(body) = ReportOf(handoff.bundle).id

\* Both workflows have credentials, enough providers agree and all answer.
Equipped == credentials = {"attestor", "executor"} /\ QuorumReached /\ ~ProviderThrows

\* Through every kill, lagging read and front-running, a staged match is dually
\* finalised in the end.
ReachesDualFinality ==
    Equipped => <>(status[MarketFixture] = "DualFinalized")

\* The VAA is on Base but the executor does not know that it is.
Orphaned == Sequence \in consumedSequences /\ executorFile.phase = "watching"
               /\ executor.pc \in {"down", "tick", "check", "send"}

\* The executor settles the market in the end, unless it lost track of its own
\* delivery; giving up the polling before Level 3 arrived loses nothing.
SettlesUnlessOrphaned ==
    Equipped => <>(market.settled \/ Orphaned)

\* Without the exception: submit, confirm and trigger settle() (main.ts:8-9),
\* with a resume for a prior run that exited too early (main.ts:140-147).
SettlesTheMarket == Equipped => <>market.settled

=============================================================================
