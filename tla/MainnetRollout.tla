--------------------------- MODULE MainnetRollout ---------------------------
(***************************************************************************)
(* The rollout of the adapter program to mainnet: d2-mainnet.sh checks the *)
(* burner's balance and the chain, deploys, and starts d2-client.ts, which *)
(* configures the program, verifies the rehearsed outcome with it, reads   *)
(* everything back from a second RPC endpoint and writes the evidence.     *)
(* Every check that fails ends the run, and whatever has landed by then    *)
(* stays.  From the moment the program is on chain anybody may call it.    *)
(*                                                                         *)
(* The program is that of module SolanaAdapter without its "wormhole"      *)
(* feature.  Lamports are counted in a unit of which a rent is a few.      *)
(* The primary endpoint shows what has landed, unless the query fails; the *)
(* secondary lags behind.                                                  *)
(***************************************************************************)
EXTENDS SolanaAdapter

CONSTANTS
    GoldenArgs,        \* instruction-data.bin: the rehearsed arguments
    Burner,            \* the payer, deployer and forwarder
    Destination,       \* DESTINATION_CHAIN
    SystemProgram,     \* what the client names as the Wormhole core
    StartBalance, MinimumBalance, MemoReserve, FeeAllowance,
    Rents,             \* rents the cluster may quote for the ProgramData account
    MaxAttempts,       \* attempts of finalizedTransaction
    MaxRuns            \* bound: how often the script is started

ASSUME RolloutAssumption ==
    /\ GoldenArgs \in Args
    /\ Burner \in Signers /\ Destination \in Chains
    /\ SystemProgram \in Cores \ {CoreBridge}
    /\ StartBalance \in Nat /\ MinimumBalance \in Nat
    /\ MemoReserve \in Nat /\ FeeAllowance \in Nat /\ Rents \subseteq Nat
    /\ MaxAttempts \in Nat \ {0} /\ MaxRuns \in Nat

VARIABLES
    deployments,  \* how often the program was deployed: once, or it was upgraded
    balance,      \* the burner's lamports
    locked,       \* lamports in upload buffers
    dataRent,     \* lamports of the ProgramData account
    goldenIntact, \* the rehearsal's files are those the constants were taken from
    shown,        \* transactions the secondary endpoint shows as finalized; of the
                  \* deployments the last one
    rent,         \* the rent quoted to the run
    step,         \* the run's next step
    attempt,      \* attempts of finalizedTransaction so far
    runs,         \* how often the script was started
    evidence      \* d2-mainnet.json: the run that wrote it and what it says

deployed == <<deployments, dataRent>>
wallet == <<balance, locked>>
run == <<rent, step, attempt, runs>>
rolloutVars == <<vars, deployed, wallet, goldenIntact, shown, run, evidence>>

Transactions == {"deploy", "initialize", "verify"}
NoEvidence == [run |-> 0]

Goto(s) == step' = s /\ attempt' = 0 /\ UNCHANGED <<rent, runs>>

\* abort, a failed assertion, or an error of an RPC call.
Abort == Goto("off")

-----------------------------------------------------------------------------
\* The cluster and its other users.

Outsider ==
    /\ deployments > 0
    /\ \E txline \in Programs :
          \/ Configure(txline)
          \/ \E root \in Roots, a \in Args : VerifyOutcome(txline, root, a)
    /\ UNCHANGED <<deployed, wallet, goldenIntact, shown, run, evidence>>

Landed ==
    (IF deployments > 0 THEN {"deploy"} ELSE {})
        \union (IF config # NoConfig THEN {"initialize"} ELSE {})
        \union (IF outcomes[IdentityOf(GoldenArgs)] # NoOutcome THEN {"verify"} ELSE {})

CatchUp ==
    /\ \E t \in Landed \ shown : shown' = shown \union {t}
    /\ UNCHANGED <<vars, deployed, wallet, goldenIntact, run, evidence>>

\* The operator interrupts the script, or it crashes.
Interrupt ==
    /\ step # "off"
    /\ Abort
    /\ UNCHANGED <<vars, deployed, wallet, goldenIntact, shown, evidence>>

-----------------------------------------------------------------------------
\* d2-mainnet.sh

StartRun ==
    /\ step = "off" /\ runs < MaxRuns
    /\ step' = "preflight" /\ attempt' = 0 /\ runs' = runs + 1
    /\ rent' \in Rents
    /\ UNCHANGED <<vars, deployed, wallet, goldenIntact, shown, evidence>>

\* Bug variant: only the minimum balance is looked at.
FundedLoosely == balance >= MinimumBalance

\* The projected reserve is kept for memos.
Funded ==
    /\ balance >= MinimumBalance
    /\ balance - rent - FeeAllowance >= MemoReserve

\* "solana account" fails: there is no program, or the query got no answer.
ReportedAbsent(answered) == deployments = 0 \/ ~answered

Preflight ==
    /\ step = "preflight"
    /\ \E answered \in BOOLEAN :
          IF Funded /\ ReportedAbsent(answered) THEN Goto("deploy") ELSE Abort
    /\ UNCHANGED <<vars, deployed, wallet, goldenIntact, shown, evidence>>

\* The program is on chain, or it is upgraded: then the rent of the buffer comes
\* back.  The fees and small rents of the whole run are taken here.
Land(fees) ==
    /\ deployments' = deployments + 1
    /\ IF deployments = 0 THEN balance' = balance - rent - fees /\ dataRent' = rent
                          ELSE balance' = balance - fees /\ UNCHANGED dataRent
    /\ shown' = shown \ {"deploy"}
    /\ UNCHANGED locked

\* The deployment fails, with or without a buffer left behind.
Fall(fees) ==
    /\ \E left \in {0, rent} : balance' = balance - left - fees /\ locked' = locked + left
    /\ UNCHANGED <<deployed, shown>>

\* solana program deploy: it succeeds, or it fails, and may have deployed all the
\* same.
Deploy ==
    /\ step = "deploy"
    /\ \E fees \in 0 .. FeeAllowance :
          \/ Land(fees) /\ (Goto("config") \/ Goto("recover"))
          \/ Fall(fees) /\ Goto("recover")
    /\ UNCHANGED <<vars, goldenIntact, evidence>>

\* solana program close --buffers, then abort whether it worked or not.
Recover ==
    /\ step = "recover"
    /\ \/ balance' = balance + locked /\ locked' = 0
       \/ UNCHANGED wallet
    /\ Abort
    /\ UNCHANGED <<vars, deployed, goldenIntact, shown, evidence>>

-----------------------------------------------------------------------------
\* d2-client.ts

\* existingConfig
CheckConfig ==
    /\ step = "config"
    /\ IF config = NoConfig THEN Goto("initialize") ELSE Abort
    /\ UNCHANGED <<vars, deployed, wallet, goldenIntact, shown, evidence>>

\* What the client configures.
BurnersConfig ==
    [created |-> TRUE, admin |-> Burner, core |-> SystemProgram, forwarder |-> Burner,
     destination |-> Destination]

\* The transaction fails if somebody else's came first.
Initialize ==
    /\ step = "initialize"
    /\ \/ InitializeConfig(Burner, MainnetTxline, SystemProgram, Burner, Destination)
          /\ Goto("arguments")
       \/ Abort /\ UNCHANGED vars
    /\ UNCHANGED <<deployed, wallet, goldenIntact, shown, evidence>>

\* buildArgs and encodeCanonicalStrategy agree with the golden instruction.
CheckArguments ==
    /\ step = "arguments"
    /\ IF goldenIntact THEN Goto("verify") ELSE Abort
    /\ UNCHANGED <<vars, deployed, wallet, goldenIntact, shown, evidence>>

GoldenRoot == DailyScoresPda[GoldenArgs.input.minTs]

Verify ==
    /\ step = "verify"
    /\ \/ VerifyOutcome(MainnetTxline, GoldenRoot, GoldenArgs) /\ Goto("finalized")
       \/ Abort /\ UNCHANGED vars
    /\ UNCHANGED <<deployed, wallet, goldenIntact, shown, evidence>>

\* Bug variant: the attempts are not counted.
TryForever == UNCHANGED <<step, attempt, rent, runs>>

\* Another attempt, unless they are used up.
TryAgain ==
    \/ attempt + 1 < MaxAttempts /\ attempt' = attempt + 1 /\ UNCHANGED <<step, rent, runs>>
    \/ attempt + 1 >= MaxAttempts /\ Abort

\* finalizedTransaction on the secondary endpoint.
AwaitFinalized ==
    /\ step = "finalized"
    /\ \/ shown = Transactions /\ Goto("readback")
       \/ shown # Transactions /\ TryAgain
    /\ UNCHANGED <<vars, deployed, wallet, goldenIntact, shown, evidence>>

\* What the assertions on config and outcome demand: neither the forwarder nor the
\* Wormhole core is looked at.
ReadsBack(c, o) ==
    /\ c.admin = Burner /\ c.destination = Destination
    /\ o.destination = Destination
    /\ o.dailyRoot = GoldenRoot
    /\ o.bundleHash = GoldenArgs.input
    /\ o.instructionHash = <<GoldenRoot, GoldenArgs>>
    /\ ~o.published

\* The checks on the second endpoint, then the file, renamed into place.
WriteEvidence ==
    /\ step = "readback"
    /\ LET outcome == outcomes[IdentityOf(GoldenArgs)]
           good == ReadsBack(config, outcome) /\ dataRent = rent
       IN  evidence' = IF good THEN [run |-> runs, config |-> config, outcome |-> outcome,
                                     deployment |-> deployments]
                               ELSE evidence
    /\ Abort
    /\ UNCHANGED <<vars, deployed, wallet, goldenIntact, shown>>

-----------------------------------------------------------------------------

RolloutInit ==
    /\ Init
    /\ deployments = 0 /\ dataRent = 0 /\ balance = StartBalance /\ locked = 0
    /\ goldenIntact \in BOOLEAN /\ shown = {}
    /\ rent = 0 /\ step = "off" /\ attempt = 0 /\ runs = 0
    /\ evidence = NoEvidence

Script ==
    \/ Preflight \/ Deploy \/ Recover \/ CheckConfig \/ Initialize
    \/ CheckArguments \/ Verify \/ AwaitFinalized \/ WriteEvidence

RolloutNext == Script \/ StartRun \/ Interrupt \/ Outsider \/ CatchUp

\* A started script goes on: every call returns or fails.
RolloutSpec == RolloutInit /\ [][RolloutNext]_rolloutVars /\ WF_rolloutVars(Script)

-----------------------------------------------------------------------------

\* Whoever calls the program at whatever moment, and whatever failed before:
\* evidence that was written stays true of the chain.  The configuration is the
\* burner's in every field, those included that nothing reads back, and the
\* recorded outcome is the one the rehearsed arguments prove; both outlive an
\* upgrade by a later run.
EvidenceIsTrue ==
    evidence # NoEvidence =>
        /\ evidence.deployment \in 1 .. deployments
        /\ config = evidence.config /\ config = BurnersConfig
        /\ outcomes[IdentityOf(GoldenArgs)] = evidence.outcome
        /\ evidence.outcome.instructionHash = <<GoldenRoot, GoldenArgs>>

\* However often the script is started, interrupted or fails, with or without
\* its buffers recovered, the burner keeps what the memos need.
MemoReserveKept == balance >= MemoReserve

\* A run ends: an endpoint that never shows a transaction does not hang it.
RunEnds == step # "off" ~> step = "off"

=============================================================================
