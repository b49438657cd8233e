# Proofline in TLA+

Proofline relays the final score of a football match from Solana to Base. A
score that TxLINE has committed to on Solana travels over two independent lanes:
the fast lane (*Level 3*: a Chainlink CRE workflow re-verifies the proof on
several RPC nodes and reports it) and the proof lane (*Level 4*: a Solana program
verifies the proof, publishes a Wormhole message, and Base verifies the
Guardians' signatures). A registry on Base calls the match `DualFinalized` when
both lanes delivered the same digest, and freezes it in `Conflict` when they did
not. A market settles from the registry.

This directory holds the specifications of that system, the TLC configurations
that check them on small instances, and proofs for every value of the constants.
Names follow the source; every definition that models code is listed with its
lines in `PROJECT.json` ("map").

Run anything from this directory: `tlc -config MCBaseContracts.cfg MCBaseContracts`,
`tlapm BaseContracts_proofs.tla`.

## 1. Inventory

| Component | State | Operations | What is hard about it |
|---|---|---|---|
| Finality registry (`FinalityRegistry.sol`, `Ownable.sol`) | owner, two reporter addresses, per fixture a status and one record per lane | `transferOwnership`, `setReporters`, `reportLevel3`, `reportLevel4`; views | the status is updated incrementally, in either order of the lanes; a lane may repeat or contradict itself |
| Level 3 receiver (`CRELevel3Receiver.sol`) | forwarder, consumed digests, last attestation per fixture | `onReport`, `setForwarder` | its own copy beside the registry's; replay protection must roll back with a refused report |
| Level 4 receiver (`WormholeOutcomeReceiver.sol`, `AttestationIds.sol`) | forwarder, consumed VAA hashes and sequences, attestation per fixture | `submitVaa` (anyone), `onReport` | replays, reused sequences, foreign emitters; two entry points |
| Guardian verification (`MockWormholeCore.sol`) | guardian set | `parseAndVerifyVM` | quorum counting rests on strictly ascending indices |
| Market (`DemoPredictionMarket.sol`) | positions, escrow, settled flag and winner | `settle` (anyone), `claim`, view `provisionalWinner` | reads the registry once; provisional view changes source |
| Solana adapter (`programs/proofline-adapter`) | config account, verified outcomes, Wormhole sequence and messages; legacy proof buffers | `initialize_config`, `verify_outcome`, `on_report`, `publish_outcome`, `verify_and_publish_inline`; `initialize`/`append`/`seal`/`close` of buffers | TxLINE only answers yes or no about predicates on indexed statistics; configuration by whoever comes first, publication by anybody, once |
| Source dispatch (`cre-source-dispatch`, `proof-uploader`) | run-state file, file-backed buffer, verify command, `handoff.json` | one heartbeat; staging of the proof in chunks | many durable effects, no transaction over them; killed and restarted |
| Level 3 attestor (`cre-level3-attestor`) | `level3-attestor.state.json` | one heartbeat: fetch, fan out, derive digest, deliver, record | reverting, lagging or failing RPCs; delivery and record not atomic |
| VAA executor (`cre-vaa-executor`) | `vaa-executor.state.json` | one heartbeat: re-verify, sign/fetch VAA, deliver, poll, settle, record; resume | as above, plus anyone may deliver or settle first |
| Workflow runtime (`cre-runtime.ts`) | none of its own | `cronHeartbeat`, `readJsonFile`/`writeJsonFileAtomic`, event sink | ticks restart at 1 in every process; events sent before or after what they announce |
| Coordinator (`apps/coordinator`) | active run, its events, SSE clients, `events.ndjson` | start run, record, finalize, stream | in-memory sequence beside an appended file; several runs per process |
| Event model (`packages/event-model`) | none; a reducer | `applyEvent`, `replayTo`, `validateManifest` | lanes' events interleave, repeat themselves, get lost |
| Relay CLI (`apps/relay-cli`) | evidence directory | relay, capture, replay | partial runs, repeated runs |
| Tamper lab, evidence verification (`lib/tamper.ts`, `tamper-lab/page.tsx`, `verify-evidence.ts`) | the hashes already delivered in the lab; a run's files | `verifyLikeBase`, the scenarios; the list of recomputations | a second implementation of the contract's checks in another language; edits that are consistent with each other |
| Mainnet attestor (`apps/mainnet-attestor`) | captured files, evidence files, one memo transaction | watch, rehearse, verify on two nodes, memo, read back | retry until a deadline over files and nodes that change, without passing a partial verdict on |
| Mainnet rollout (`d2-mainnet.sh`, `d2-client.ts`) | the burner's balance, the deployed program, its accounts, the evidence file | deploy, recover buffers, configure, verify, read back, write evidence | many transactions without atomicity; a program anybody may call in between; money that must last |
| Web control room (`run-engine.tsx`, `control-room/page.tsx`, `viz/`) | mode, cursor, timer, events of a live run, boundary note | load, play, pause, scrub, go live, receive | timers and effects over state that changed meanwhile; what is lit is computed from independent fields |
| Client SDKs, protocol library | none | sends, reads, decoders; encodings and hashes | stale reads; pure encodings are fixed by golden vectors |
| Deployment script (`Deploy.s.sol`) | the deployed wiring | `run()` | window between deployment and wiring |

How they interact: the three workflows share nothing but files of one *run
directory* (`handoff.json` and a state file each), the blockchains, and the
coordinator they post events to. On Base a delivery is one transaction
through receiver and registry: a refusal anywhere undoes all of it. The market
only reads. The Solana leg of a relay run is simulated in this repository; the adapter program is
the code that would take its place, and the rollout script puts that program on
mainnet beside it. The mainnet attestor, the lab and the evidence verifier share only
files and code with the rest.

What makes each part correct:

- registry: the status is at all times the verdict on the *set* of accepted
  reports; records and terminal statuses are written once;
- receivers: replay protection spends exactly what the registry took; the Level 4
  copy never differs from the registry's; what stands in the Level 4 lane came
  in an authentic, quorum-signed VAA;
- guardians: an accepted body was signed by a quorum of *different* guardians;
- market: a settled winner rests on agreement and is never contradicted or paid
  out twice; the provisional winner does not change under consistent evidence;
- adapter: a recorded outcome is one the daily root committed to; every message is
  the publication of one outcome, and if the bridge was configured the reverse holds
  too; a provable final score is eventually on record, and published if it can be;
- source dispatch: nothing downstream sees an incomplete or unsealed bundle; a
  match is staged once, and eventually;
- delivering workflows: one run cannot freeze its own fixture; nothing is
  announced that is not so; dual finality and settlement are eventually reached;
- coordinator and control room: what is shown live, captured and replayed is one
  recording of one run; the finality shown never falls back; what is lit is what
  the visible events say, in whichever order, and the replay goes on or says why not;
- lab and evidence verifier: they judge a VAA as Base does, and no consistent edit
  of a run's files gets past;
- mainnet attestor: a memo on the chain tells what TxLINE's root commits of the event
  its instruction proves; watching ends, and finds a proof that is there;
- rollout: written evidence is true of the chain and stays so, the memos' money is
  never spent, and a run ends.

The hazards behind these properties, each at its line, are in `PROJECT.json`
("hazards"); a hazard that no property covers says why not.

## 2. Modules

| Module | Models | Corresponds to |
|---|---|---|
| `DualFinality` | abstract promise: a set of claims per fixture and the verdict on it, frozen once terminal | the idea `FinalityRegistry.sol` implements |
| `FinalityRegistry` | the registry alone; `Report` is `_report`, one disjunct per branch | `FinalityRegistry.sol`, `Ownable.sol` |
| `BaseContracts` | EXTENDS it by receivers, market, deployment; one action per external call | `contracts/base/src`, `Deploy.s.sol` |
| `GuardianQuorum` | the signature loop, one iteration a step | `MockWormholeCore.sol` |
| `VaaVerifiers` | EXTENDS it by the receiver's checks behind the loop (one action per submitted byte string) and the registry's refusals behind those, the lab's mirror and scenarios, and the evidence verifier over a run's files (`Edit`) | `tamper.ts`, `tamper-lab/page.tsx`, `verify-evidence.ts`, `vaa-decoder.ts`, `WormholeOutcomeReceiver.sol`, `FinalityRegistry.sol` |
| `SolanaAdapter` | the program; one action per instruction; TxLINE's verdict, the bridge, what stands in its place and account uniqueness external | `programs/proofline-adapter` |
| `MainnetRollout` | EXTENDS it by the rollout script, one action per transaction, read or file; other users of the program; queries that fail; the operator who aborts or edits | `d2-mainnet.sh`, `d2-client.ts` |
| `SourceDispatch` | one process over the run directory; one action per durable effect or event; `Crash` between any two | `cre-source-dispatch/main.ts`, `proof-uploader` |
| `ScoreEvidence` | what both lanes compute from TxLINE's events: final record, bundle, digest, the providers' agreement; no state | `cre-runtime.ts`, `live-snapshot.ts`, and the derivations in both workflows |
| `RelayPipeline` | EXTENDS `BaseContracts` and `ScoreEvidence` by the attestor and executor processes in live and in sim mode, mempool, lagging replica, environment | `cre-level3-attestor/main.ts`, `cre-vaa-executor/main.ts`, `evm-sdk` |
| `RoomState` | the reducer: the state a list of events folds to; no state of its own | `state-machine.ts`, `run-manifest.ts` |
| `ControlRoom` | EXTENDS it by the coordinator, one action per request; the workflows as far as they post events; the live view; `capture-run` and `replay-run` | `apps/coordinator`, `run-engine.tsx`, `apps/relay-cli` |
| `ReplayRoom` | EXTENDS `RoomState` by the run engine's controls, timer and modes, and by what page, rails, gates and stamps show | `run-engine.tsx`, `control-room/page.tsx`, `viz/` |
| `MainnetAttestor` | the watcher or rehearsal as one process, the memo tool, the capture and the two nodes as environment | `apps/mainnet-attestor` |
| `MC*` | values of the constants for TLC | the inputs of the repository's tests, and their neighbours |
| `*_proofs` | theorems and their lemmas | one module per component with state; section 5 |

Composition: `DualFinality` <- refined by `FinalityRegistry` <- refined by
`BaseContracts` <- refined by `RelayPipeline`, whose processes drive the contracts;
`SolanaAdapter` <- refined by `MainnetRollout`; `GuardianQuorum` <- refined by
`VaaVerifiers`, which runs its loop with the checks around it. All of these refinements
are proved. `GuardianQuorum` discharges what `BaseContracts` takes as a VAA's `signed`
flag; `SourceDispatch` ends where `RelayPipeline`'s `Stage` begins. `ControlRoom` and
`ReplayRoom` share the reducer and stand beside them: `ControlRoom` takes from
the workflows the order in which they post their events and where they may fail
or repeat themselves (`Script`, `FailsAt`, `ResumesAt`), and nothing of the chains.

Abstractions shared by all modules. A hash is an injective function (a tuple).
Scores appear as the result they give, except in `SolanaAdapter`, where binding
the score is the point. A reverted transaction is an action that is not enabled;
in `RelayPipeline`, where it matters that a sent transaction may revert later, it
is a `Mine` that changes no contract. Log messages, block times and event
payloads are left out where no property tells them apart.

Operators marked "Bug variant" are mutated forms of a definition next to them,
each an error one could make in that code; `PROJECT.json` ("mutants") says which
property finds it. No specification uses them.

## 3. Runs

| Run | Checks | Instance | What it shows |
|---|---|---|---|
| `base` | `StatusMatchesRecords`, `Level4Backed`, `ReceiverMirrorsRegistry`, `VaaSpentExactly`, `Level3SpentExactly`, `SettlementIsFinal`, `ProvisionalWinnerStands`, `ImplementsDualFinality` | 2 fixtures, 6 good VAAs (reused sequence, republished outcome, other fixture), 5 with one defect, 5 reports | the deployed stack keeps its promises under replay, conflict and re-administration; the status is the verdict on the set of accepted reports |
| `vaa` | `QuorumSound`, `LabAgreesWithBase`, `ScenariosAsAnnounced`, `ForgeryIsNoticed`, `EvidenceIsAcceptable` | 4 guardians, quorum 3; 15 bodies, every list of up to 3 of the signatures over three of them and some of 4; unparsable bytes; up to 3 bodies found valid, 2 reports of the other lane, the registry wired at any time; 7 edited files | Base, the lab and the evidence verifier agree on every byte string; what only Base refuses is a replay or is refused by the registry (not wired, frozen or final); no combination of edits goes unseen |
| `adapter` | `OutcomeIsTrue`, `PublicationExact`, `ProvableIsPublished` | 2 fixtures, 2 days, 4 good and 7 defective arguments, 3 message accounts; index width 0..2; the bridge, another program or none as its core | no untrue outcome, exact publication, and progress |
| `rollout` | `EvidenceIsTrue`, `MemoReserveKept`, `RunEnds` | up to 3 starts, 2 rents, a balance for one deployment and one failure, another caller with other arguments | evidence is true of the chain whatever failed or interfered before or after it, and the memos' money stays |
| `dispatch` | `HandoffIsSealed`, `EventsAreReal`, `StagedOnce`, `StagedUnlessInterrupted` | 3 chunks, 4 ticks a process, 2 kills | every interleaving of two kills with the durable effects |
| `relay_safety` | `LanesDeliverOneDigest`, `FinalityEventsAreReal` | 4 feeds, no credentials at first, 1 kill, 1 correction, a rival run | one run never freezes its own fixture and announces nothing that is not so, simulated, live, or first one and then the other |
| `relay_live` | `DeliveredIsOnBase`, `ReachesDualFinality`, `SettlesUnlessOrphaned` | 1 feed, 3 ways the providers answer, 2 kills, front-running, lagging replica | delivery is on Base; dual finality is reached through kills, stale reads and front-running |
| `control_room` | `LiveViewIsRun`, `ManifestIsOneRecording`, `ReplayTellsTheSame`, `FinalityNeverFallsBack` | 2 run ids, 2 registrations, 12 events, or 6 and a restart, break, failure or kill | live view, manifest and replay tell one recording of one run |
| `replay_room` | `LitExactly`, `RailsFillInOrder`, `NoteTellsWhy`, `AutoplayShowsAll` | the bundled demo run with its derivation, and captured without one a retried run and a stopped one; a live run; 4 clicks | every order of clicks, ticks and received events shows what the visible events say |
| `attestor` | `MemoIsTrue`, `AlwaysEnds`, `EventuallyVerified` | 2 sequence numbers, 3 records of which 1 is another fixture's, 5 proofs of which 1 lies, 1 proves the other event than its request names and 1 is unusable, 2 nodes that may be down, pruned or lying, 2 starts | no memo on one node's word, and the watcher neither hangs nor misses |
| `dispatch_retry` | `FinalIsStaged` | 1 kill, proof ready at once | **violated**, see section 6 |
| `relay_settle` | `SettlesTheMarket` | no kill | **violated**, see section 6 |

The type invariant of every module with state is proved and takes up no run (of
`VaaVerifiers` and `MainnetRollout`, that of the module they extend). What the runs check
are the hazards.

### Bounds and why they are enough

- Fixtures are independent of each other but for the digests and sequences the
  receivers consume, so two suffice to see one fixture's call disturb another's.
  Two digests make agreement, contradiction within a lane and conflict between
  lanes. In the state space of `base` nothing is cut off: the system is finite
  because records are written once.
- Four guardians and a quorum of three is the smallest set in which two
  quorums overlap without being equal; a list of four repeats a guardian after a
  whole quorum. The theorems hold for every set and every quorum. Bodies are
  the canonical one, and for each check one that fails it alone; some fail two,
  which is what tells the order of the checks. Until
  `MaxCertified = 2` bodies were found valid anything may be submitted (a replay needs two
  calls); then, up to `MaxHistory = 3`, one of `HistoryWires`: a fixture gets a first
  outcome, a second that freezes it and a third that is refused, or another fixture's
  comes between. The other lane reports the canonical outcome or contradicts it, at any
  time after the wiring, which comes at any time too.
- `verify-evidence`: seven edits change every file of a run once; each file has the
  contents that tell another score or time consistently, and those that do not.
- `MaxStatIndex` is 255 in the program (a byte). With 2, a list of four
  statistics overflows as 257 would. The three cores are the three kinds there are: the
  bridge, a program that takes the call (its tracker may hold any number;
  `RogueSequences` has one that the bridge uses too), and a key that cannot.
- `Chunks = 3` lets a kill fall before, between and after chunks; `MaxTicks = 4`
  leaves a tick to spare after detection and the one heartbeat the proof needs;
  the second kill hits the repeated attempt.
- `MaxKills`, `MaxCorrections` and `MaxCrashes` bound what the environment may
  do, in the guards of these actions only. A transaction carries the number of
  kills before it was sent, so that a second process's copy is a transaction of
  its own.
- `ControlRoom`: two registrations are the same id again, another run, or a replay.
  Twelve events are a run up to dual finality, captured and replayed, or the eight
  of a whole run and four of the next. After a mishap `MaxEvents` allows six
  *recorded* ones; the workflows go on without being recorded when the coordinator
  has lost its run, so that a later registration may record any end of a script.
- Feeds of `relay_safety`: a match in play; the final with a goal before it and a
  different finalisation after it; a finalisation without a score; and one of the
  next day. A correction is a change of one into another, so all of them meet
  each lane's checks, in either order. `Configured = {{}}` starts without
  credentials, which may appear at any moment: sim, live, and one after the other.
- `MaxAttempts = 3` stands for the thirty polls of `finalizedTransaction`; the
  secondary node may show nothing, some or all transactions by then. `MaxRuns = 3`
  lets a failed deployment, a successful one and a second one after a failed query
  follow each other. Lamports are in a unit of which a rent is three or four; `StartBalance`
  covers one deployment, one lost rent and no third.
- `MaxClicks = 4`: enough to scrub, go live, come back and play. The timers'
  ticks are not bounded. The three recordings lost no event: for one that did, the
  rails' order need not hold (section 4).
- `MaxRecords`, `MaxProofs`, `MaxStarts`, `MaxMemos`: a proof may come before or
  after another of its sequence number, a restart may find the evidence of
  the run before it, and a second memo could only repeat the first.

Deadlock is checked in every run but `adapter` and `rollout` (every proof
published, every start used up), `vaa` (everything submitted), `attestor` (verified, nothing left to
memo) and `replay_room` (played to the end, no click left): ends those systems have.

### Fairness

- `SolanaAdapter`: somebody configures the program, with whatever it likes, and somebody
  keeps submitting and publishing what can be. That is the relayers' purpose; nothing in
  the program obliges any one of them.
- `SourceDispatch`: a started process takes its next step (one JavaScript
  function, nothing that blocks for ever) and a process is started again when
  none runs (the cron trigger).
- `RelayPipeline`: the same for both workflows; the deployment is completed, the
  match is staged, the chain mines what it is sent, the lagging node catches up
  now and then. Front-runners, rival runs, corrections and kills are not obliged
  to anything. The processes' fairness is over all of their steps together; a
  poll that keeps reading from the stale replica is allowed, and gives up.
- `MainnetAttestor`: a started process takes its next step; calls to a node return or
  fail, sleeps end. Nobody is obliged to start it, to capture anything or to answer truly.
- `MainnetRollout`: a started script takes its next step; nobody is obliged to start
  it, and nothing obliges the second node to show a transaction.
- `ReplayRoom`: the page's manifest loads and a timer that is set fires. The audience
  is obliged to nothing.
- `VaaVerifiers`: none.
- `ControlRoom`: none; nobody is obliged to post, register, capture or watch, and
  its properties are about what is shown whenever it is shown.

## 4. Properties worth a remark

On Base:

- `StatusMatchesRecords` says what the status *means* over the two record maps,
  in both directions; `ImplementsDualFinality` adds that it is the verdict on the
  set of reports, whatever their order.
- `Level3SpentExactly` and `VaaSpentExactly` are equivalences: replay protection
  refuses everything it took, and nothing it did not.
- `ProvisionalWinnerStands` has a premise, `ConsistentInputs`: both lanes were
  given the same result for the same bundle. The digest does not cover the
  result (`AttestationIds.sol:14`), so without the premise the registry may call
  different results equal.
- `LabAgreesWithBase` lists what the lab lets through although Base refuses it:
  the same body with other signatures (the lab's replay key hashes all bytes,
  `vaa-decoder.ts:127`), a second body under one sequence, a second body
  with one attestation; and whatever the registry refuses
  (`WormholeOutcomeReceiver.sol:146`, `168`), whose state the lab does not have: it is not
  wired yet (`NotReporter`), the fixture is frozen by a conflict of whichever lanes
  (`FixtureFrozen`, so also by this receiver's own second outcome), or both lanes have
  agreed on it (`FixtureFinalized`). For bytes that do not parse the lab refuses as well, but names another error.
  `ScenariosAsAnnounced` and `EvidenceIsAcceptable` have the registry's refusal as the one
  thing that may still meet a VAA that should be taken; the latter leaves the source
  chain out too, because `verify-evidence` does.

The workflows:

- `LanesDeliverOneDigest` holds because both workflows compare the recomputed
  bundle hash with the handed-off one; two versions of the evidence that differ
  in their timestamp only pass that check, and then give the same digest.
- `DeliveredIsOnBase` holds although no workflow looks at a receipt's status,
  only because without another run the contracts refuse a delivery exactly when
  it is already there: hence its premise `RivalVersions = {}`.
- `FinalityEventsAreReal` covers a workflow that has credentials, that has none, and
  one that gets them in between. Its last conjunct is the sim mode's own claim,
  reconciled once, from a file (`cre-vaa-executor/main.ts:500-531`).
- `ReachesDualFinality`, `SettlesUnlessOrphaned`: for provider answers with a
  quorum and nobody down, and with credentials (`Equipped`). `Orphaned` is the state
  in which the VAA is on Base and the executor's file does not say so.
- `StagedUnlessInterrupted` excuses two cases: a kill between the first chunk
  and the record of the staging, and a final record first seen so late in a
  process's ticks that the wait for the proof outlasts the process. The latter
  is never made good, because the persisted tick (`cre-source-dispatch/main.ts:138`) is compared with
  the tick of a later process that counts from 1 again
  (`cre-source-dispatch/main.ts:145`).

What is shown:

- `LiveViewIsRun` says what is needed of `attach` and `send` together. At every
  moment of the delivery what the view has taken in and what is on its way to it make
  up the run: the wire holds exactly the run's events after some place the view has
  reached, so that nothing is missing between the two, though some may arrive twice and
  be dropped. Its second conjunct is about views under which no run was registered
  (`mixed` is false): a view that stays open over a registration shows the first
  events of one run and the later ones of another (`run-engine.tsx:115`), but even
  then numbers them without a gap, and its finality does not fall back
  (`FinalityNeverFallsBack`).
- `LitExactly` is an equivalence per light, in replay and live mode, for runs in
  which a lane starts over; scrubbing may not leave anything lit, nor put
  anything out that is visible. The three rows of the derivation are equivalent to their
  events in a recording that has a derivation, and never there in another: of the bundled
  recordings only the demo run has one (section 6). The property needs of a recording only
  what the workflows always post (`RecordingAssumption`): at most three providers, a quorum
  of signatures in a VAA.
- `RailsFillInOrder` needs more: that no event of a lane was lost
  (`LosslessAssumption`). An event whose POST fails is lost (`cre-runtime.ts:104`), and
  neither capture nor `validateManifest` notices; the rail of such a recording has a
  dark station between lit ones.
- `NoteTellsWhy` is about replays. A note set before going live is not taken away.
- `AutoplayShowsAll` is the control room's promise to somebody who does not touch
  it; whoever clicks has taken over.

Solana and mainnet:

- `PublicationExact` and `ProvableIsPublished` depend on one choice of whoever calls
  `initialize_config` first, since the Wormhole core it names is stored without a look at it
  (`proof_buffer.rs:50`) and can never be changed. With the bridge, published outcomes and
  messages correspond one to one and a provable score gets published. With a program that
  only takes the call, outcomes are stamped published, with any sequence, and there is no
  message; with anything else no publication ever succeeds. Either way no false message
  can come about, since the genuine bridge is not among the accounts handed on
  (`emitter.rs:107-135`), and verification does not suffer.
- `MemoIsTrue` assumes that at most one of the two endpoints answers untruthfully.
  A lying node may change its mind between attempts; a memo stays under what was
  verified when it was built. It says what the chain commits of the *event the
  instruction proves*, and nothing of which sequence number that event has: the
  instruction has none (`common.ts:176-197`), and a captured line tells it by the URL of
  its request (`common.ts:116`). So it is the capture that is trusted to put each answer
  under its own request.
- `EventuallyVerified`: the watcher tries the *first* proof that fits the first final
  record, for ever. So it promises success only if that proof is good; later
  ones are not looked at (`live.ts:97`).
- `EvidenceIsTrue` holds against callers who initialize the program first, or
  verify the rehearsed outcome first: the script then stops, and stops again whenever it
  is started, since program and configuration are there. That is safe, not live; nothing
  promises that a rollout succeeds. It does not rest on the program's being deployed
  once, which is not so (section 6): a run that upgrades the program ends at
  the configuration it finds. The evidence's configuration is the burner's in every field,
  although the client reads two of them back only.
- `MemoReserveKept` rests on the minimum balance *and* on the rent quoted being
  checked in the same run that spends it.

## 5. Proofs

All proofs are machine-checked for every value of the constants that satisfies
the named assumptions of the modules. They say:

- of all modules: constants are of their kind, a "none" is not one of the values it
  stands beside, bounds are naturals (`RegistryAssumption`, `BaseAssumption`,
  `QuorumAssumption`, `AdapterAssumption`, `AttestorAssumption`, `RolloutAssumption`,
  `DispatchAssumption`, `RelayAssumption`, `RoomAssumption`); what the program is given is
  well typed;
- `EvidenceAssumption`, `DeliveryAssumption`: the oracle program is not the root account;
  what the lanes derive from TxLINE's events is a report and a VAA of `BaseContracts`;
- `VerifierAssumption`, `VectorAssumption`, `DemoAssumption`: the files of the recorded run
  are of their kind, its VAA carries the conformance vector's payload, as the
  repository's does; the default signers are exactly a quorum, which is not 0, the lab's
  foreign emitter is not the registered one, and the match did not end 3:1;
- `ReplayAssumption`: the page shows manifests that `validateManifest` accepted, and live
  events numbered by the coordinator. `RecordingAssumption`, `LosslessAssumption`: section 4;
  of the theorems only `RailsCorrect` uses the second.

Two theorems have a hypothesis of their own: `WinnerStands` that both lanes were given the
same result (`ConsistentInputs`, section 4), `MemoReserveCorrect` that the operator starts
with the reserve.

The argument of each module:

- `BaseContracts_proofs`, the registry: `TypeCorrect`, `StatusCorrect`, `RecordsCorrect`,
  `WriteOnceCorrect`, `VerdictCorrect`, `RegistryImplementsDualFinality`. The inductive
  invariant `IInv` joins the three state invariants: that a fixture's status determines
  its next one needs the records behind it, and that no contradictory report is
  lost needs the status. `ReportEffect` and `ReportFrame` say once what a report
  changes. The refinement maps `accepted` (a history variable of the reports
  taken) to the abstract claims and the status to the verdict.
- `BaseContracts_proofs`, the stack: `BaseImplementsRegistry` shows that the receivers, the
  market and the administration drive the registry by its own steps or not at
  all; every registry theorem, the refinement of `DualFinality` included, then
  holds of the deployed stack. On top: `VaaSpentCorrect` and `Level3SpentCorrect`
  (together inductive), `Level4BackedCorrect`, `MirrorCorrect`, `SettlementCorrect`,
  `WinnerStands` (an action property), `BaseTypeCorrect`.
- `RelayPipeline_proofs`: `RelayImplementsBase` shows that two lanes, a mempool, a
  lagging replica and strangers together touch the contracts only as `BaseContracts`
  allows, so that all of the above holds under them. `LaneInv` says that everything in
  flight is on the bundle that was handed off; with it a conflict needs a rival
  (`OneDigestCorrect`). For the rest (`FinalityEventsCorrect`, `DeliveredCorrect`,
  `RelayTypeCorrect`) every control point, file, replica and announcement is tied to a fact
  of the contracts that never becomes false again (`RelayGrows`): final, settled,
  consumed. That is why neither a stale read nor a kill can hurt: what was true when it
  was read is true when it is used. A transaction that left the mempool did its work
  or was refused because its work was done (`MinedReport`, `MinedVaa`).
- `SourceDispatch_proofs`: `DispatchTypeCorrect`, `HandoffCorrect`, `EventsCorrect`,
  `StagedOnceCorrect`. `ProcessInv` gives, for every control point, what must be on disk
  already, whichever process wrote it.
- `VaaVerifiers_proofs`, the loop: its invariant says that the signatures already
  looked at are good and ascending and that `lastIndex` is the index of the last
  of them; from it `QuorumSoundCorrect` (ascending indices inject the positions
  into the guardians, hence a quorum of different ones), `VerdictExactCorrect` and
  `QuorumTypeCorrect`.
- `VaaVerifiers_proofs`, around it: `VerifierImplementsQuorum` carries these theorems over
  to byte strings. `CallInv` says that what the loop has seen so far is what the lab says
  of those signatures, `SameFault` that the two lists of checks behind it name the same
  first failure, and `HistoryInv` ties every replay to something delivered; `RefusalIs`
  tells the registry's words from the receiver's: hence `LabCorrect`. `ScenariosCorrect` computes what
  the lab says of the five scenarios (signers can be put in order, `AscendingIs`) and takes
  Base's verdict from `LabMirrors`. `ForgeryCorrect` and `EvidenceCorrect`
  need only that the files keep their kinds (`FilesInv`) and that nothing
  is stored of what is not spent (`HistoryInv`).
- `ControlRoom_proofs`: `LiveViewCorrect`, `ManifestCorrect`, `ReplayCorrect`,
  `FinalityCorrect`, `RoomTypeCorrect`. Sequence numbers carry the argument. `StoreInv`: a
  file is one recording after the other and ends in the store's. `ManifestInv`: what
  `capture-run` accepts is one of these recordings, being numbered from 0. `ViewInv`: on
  the wire no number is left out that the view has not reached. `OwnRunInv` and
  `ReplayInv` compare events with events as long as nothing was registered in between.
- `ReplayRoom_proofs`: `PlayerTypeCorrect`, `NoteCorrect`, `LitCorrect`, `RailsCorrect`.
  `PlayerInv` keeps cursor and note on the recording, whatever is clicked; the panels are
  functions of the visible events. `Tells` says what the reducer's state means after
  n events (a field is known exactly if an event that sets it was seen, a step
  is done only if an event completed it or a later one), and `FoldTells` proves it by
  induction on n.
- `MainnetRollout_proofs`, the program: `AdapterTypeCorrect`, `OutcomesAreTrue`,
  `PublicationsAreExact`, `FrozenCorrect`, for any set of submitted arguments and whatever
  is configured. The central lemma, `BoundIsCommitted`, is that a score pinned by an
  equality predicate at an index within the byte's range is a committed value. Publications
  have two lemmas, `BridgeKeepsPublications` and `RogueKeepsPublications`; that it was one
  of the two from the start needs `Untouched`: before the configuration there is no
  outcome.
- `MainnetRollout_proofs`, the script: `RolloutImplementsAdapter`: every step of the script,
  of the other users and of the operator is a transaction of the adapter or none, so the
  adapter's theorems hold of the rollout (`RolloutOutcomesAreTrue`). `EvidenceCorrect`
  adds an invariant of the run (past `initialize` the configuration is the burner's, past
  `verify` the outcome is there; a run reads back only what it has landed) to the
  adapter's own, and uses that configuration and outcome are never rewritten
  (`ChainFrozen`), whatever is deployed in between. `MemoReserveCorrect` follows from
  `PurseInv`, which relates the balance to the rent quoted between the check and the
  deployment.
- `MainnetAttestor_proofs`: `AttestorTypeCorrect` and `MemosAreTrue`. The inductive
  invariant has two parts besides the types. `WorkInv`: what the watcher holds in
  each step is what was captured, and an honest endpoint's "true" is about the
  very proof it holds, also after a retry. `PaperInv`: files and memos tell
  what is committed of the event they prove. The link is `OneIsHonest`: two endpoints that agree include an
  honest one.

Folds over events. The reducer is a recursive function of the number of events, and
what such a function computes needs induction. It is stated on sets, with no operator
parameter: if 0 is in a set, and n + 1 whenever n is, then all naturals are
(`Induction` in `ControlRoom_proofs`, `ReplayRoom_proofs` and `VaaVerifiers_proofs`, from
the library's `NatLessThanWellFounded` and `WFMin`). `StatesExist` uses it to show that the function is
what its definition says, each further lemma for its own set.

Some of these theorems state invariants that no run checks, being types or
consequences of a property that a run does check: `RecordsCorrect`, `WriteOnceCorrect`,
`VerdictCorrect`, `VerdictExactCorrect`, `FrozenCorrect` and the type theorems.

Model-checked only:

- liveness (`ProvableIsPublished`, `StagedUnlessInterrupted`, `ReachesDualFinality`,
  `SettlesUnlessOrphaned`, `AlwaysEnds`, `EventuallyVerified`, `RunEnds`,
  `AutoplayShowsAll`): temporal reasoning with fairness and ENABLED is out of the proof
  system's reach.

Every safety property of the runs is a theorem.

## 6. Where the code and its documentation disagree

1. `dispatch_retry`: a kill after the first uploaded chunk makes every later
   attempt append to the old buffer, and the match is never staged.
2. `relay_settle`: if anybody else's copy of the VAA is mined first, or the
   executor dies after sending it, every retry reverts before the resume branch
   is ever reached; the market waits for somebody else to settle it.

Seen while modelling, without a run of their own.

Contracts and lanes:

- a second CRE report with a new digest replaces the Level 3 receiver's stored
  attestation in the transaction that freezes the fixture
  (`CRELevel3Receiver.sol:72`); `README.md:24-25` says a mismatch never silently
  overwrites. The registry's record stays, so the two contracts disagree afterwards;
- with another run on the same contracts, a report that reverts when mined is
  announced as `LEVEL3_BASE_FINALIZED` (`cre-level3-attestor/main.ts:436`), which `events.ts:51`
  explains as "The fast-lane attestation landed on Base";
- the attestor has the gap of `relay_settle` too: between its delivery
  (`cre-level3-attestor/main.ts:435`) and its record (477) a kill leaves a report that
  every retry tries to deliver again;
- a lane that fell back to simulation for want of a secret or RPC URL records
  "reported" or "submitted" all the same, and delivers nothing once it is configured
  (`cre-level3-attestor/main.ts:440`, `cre-vaa-executor/main.ts:501`);
- one provider that answers with an error aborts the Level 3 run, quorum or not
  (`cre-level3-attestor/main.ts:189`; `README.md:13` has "On a 2-of-3 quorum").
  The model has it as `ProviderThrows`, and the liveness properties exclude it;
- a score the feed does not name as expected is read as 0
  (`live-snapshot.ts:103-105`), so that a final record without scores becomes 0:0;
- `base58ToHex32` pads leading zero bytes twice and throws for a key that starts with
  one (`hashing.ts:44-62`): the root account of one day in 256;
- the program publishes score sequence 0 and a hash over its own input
  (`publish_outcome.rs:35`), where the Level 3 lane has the feed's sequence and a hash
  over canonical JSON. With the program in the place of the simulated Solana leg
  the two lanes could not agree. In this repository they never meet;
- `initialize_config` is open to anybody and checks of its arguments only the TxLINE
  program (`proof_buffer.rs:45`); `publish_outcome.rs:81` calls what it then finds there
  "the configured Wormhole core bridge". The rollout's own client names the system program
  (`d2-client.ts:198`): what it configures can never publish, and stays so, there being no
  way to change it (`lib.rs:71-73`);
- `seal_proof` records the hash its caller declares without hashing the bytes
  (`proof_buffer.rs:122`); nothing verifies from a buffer.

Lab and evidence:

- `tamper.ts:168-170` calls its mirror check-for-check; it lacks
  `SequenceAlreadyConsumed` and `DuplicateOutcome` and everything the registry behind
  the receiver refuses (`NotReporter`, `FixtureFrozen`, `FixtureFinalized`), hashes all of the bytes for its
  replay key, and says "VM signature invalid" for a recovery byte of 229 or more, at
  which Base's addition of 27 panics;
- `verify-evidence` does not look at the VAA's source chain.

Events and control room:

- after a second registration of a run id, or a restart of the coordinator
  followed by one, `events.ndjson` holds two recordings and `capture-run` refuses
  the run for ever (`ManifestIsOneRecording` holds because it does);
- an event whose append fails (`store.ts:48`; a full disk) is numbered and in memory
  already: the file lacks it and open streams never hear of it, but a later backlog has it.
  `validateManifest` asks for ascending numbers only and would accept the gap;
- an event whose POST fails is written to stdout so as to "never lose a real
  event" (`cre-runtime.ts:104`), where `relay-fixture` collects it and, having a
  coordinator, throws it away (`relay-fixture.ts:119-130`);
- a failure of the executor does not mark its lane failed: its stage is
  `vaa-executor`, and the reducer asks for a prefix `level4` (`state-machine.ts:170`);
  a failure of the attestor fails the Level 4 step that is active;
- the reducer never sets the finality "Conflict", though the page can draw it;
- a provider's result lights its station and counts on the rail also when it says
  `agreed: false`; the seal may stamp before the fast rail's packet has arrived;
- the stations of the Base core and the CRE report carry no simulation mark, though
  the demo run's Base transactions are simulated (`page.tsx:5-6`, `page.tsx:117`);
- `page.tsx:205-231` shows a derivation only if the manifest has one, and only the demo
  run's has: `capture-run.ts:187-227` writes none, so neither have captured runs, the
  bundled default `live-base-1` among them, and the whole panel is missing;
- in live mode the derivation and the score header still show the recorded
  manifest's identifiers and teams, and the boundary note of the replay stays.

Mainnet tools:

- `live.ts:116` says it "will retry once"; it retries until the deadline. The header of the
  file names the flag `--deadline-ts`, the code reads `--deadline-iso`;
- a captured proof belongs to a sequence number by the URL of its request alone
  (`common.ts:116`), and the fixture of the proof is compared with that of the record
  nowhere (`pipeline.ts:54-60` compares statistics and sequence numbers): the
  manifest and the memo take the fixture from the proof and the sequence number from the
  URL;
- `d2-mainnet.sh:101-107` takes every failure of `solana account` for the absence of the
  program; the error message goes to `/dev/null`. If the query of a later run fails, the
  program that is there is upgraded by a script that says "adapter program account already
  exists; refusing initial-deploy script" (`d2-mainnet.sh:105`). The evidence stays true
  (`EvidenceIsTrue`);
- "corrections must use supersedes=<signature>, never overwrite"
  (`memo.ts:18-19`), but `--supersedes` is optional, whatever was sent before
  (`memo.ts:113`), and the second memo's `memo-broadcast.json` overwrites the first
  one's (`memo.ts:179-182`).

## 7. Not modelled

- Byte layouts, canonical JSON and hash functions (`packages/protocol`): pure
  encodings fixed by golden vectors in the repository's tests. The models take
  hashes to be injective and signatures to be unforgeable.
- The program's `ProofBuffer` instructions: no other instruction reads a buffer, and
  the staging in this build goes to the uploader's file, which `SourceDispatch` has.
- The hosted VAA source (Wormholescan), which no configuration of this build selects;
  `relay-fixture` without a coordinator; the contents of report files.
- Failures of the file system, which no workflow expects either: writes succeed or the
  process dies. `loadRun` of the run engine (`run-engine.tsx:99-106`), which no page calls.
- `readback.ts` and `d1-client.ts`: one reads a memo back and prints it, the other is an
  earlier, shorter form of the mainnet client, run once on devnet.
- The other pages of the web application, the UI kit and the animations: they
  present recorded evidence and have no state of their own.
- The wrappers over RPC calls in the Solana and TxLINE clients, logging,
  environment parsing, timestamps, nonce collisions of the shared forwarder key,
  and the Ether transfer in `claim`.
- Vendored contract libraries, recorded evidence, and data.
