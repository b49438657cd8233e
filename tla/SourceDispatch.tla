--------------------------- MODULE SourceDispatch ---------------------------
(***************************************************************************)
(* The cre-source-dispatch workflow and the file-backed ProofBuffer it     *)
(* uploads into.  One process runs at a time (relay-fixture.ts awaits it); *)
(* it may die between any two durable effects and be started again, when   *)
(* all it finds is what it wrote: the run-state file, the buffer's file,   *)
(* the verify command and the handoff.  A thrown exception also ends it    *)
(* (cronHeartbeat does not catch).                                         *)
(*                                                                         *)
(* The bytes of a buffer are abstracted to how many leading chunks of the  *)
(* proof bundle they are, or Garbled when they are no prefix of it: chunks *)
(* are only ever appended, so garbled bytes never match the hash again.    *)
(***************************************************************************)
EXTENDS Integers

CONSTANTS
    Chunks,       \* number of chunks of the canonical bundle
    MaxTicks,     \* heartbeat.maxTicks
    ReadyAfter,   \* proofAvailability.ticksAfterFinalObserved
    MaxCrashes,   \* bound: how often the process is killed
    Pdas,         \* daily-root accounts
    RootAccount,  \* fixture.rootAccount
    NoPda         \* no account recorded for the day

ASSUME DispatchAssumption ==
    /\ Chunks \in Nat \ {0}
    /\ MaxTicks \in Nat \ {0}
    /\ ReadyAfter \in Nat /\ MaxCrashes \in Nat
    /\ RootAccount \in Pdas /\ NoPda \notin Pdas

VARIABLES
    finalised,   \* external: TxLINE lists the final record
    derivedPda,  \* external: dailyRootPdaByEpochDay of the record's day
    stateFile,   \* source-dispatch.state.json
    buffer,      \* the ProofBuffer's file
    command,     \* verify-command.json is on disk
    handoff,     \* handoff.json is on disk
    emitted,     \* the events delivered to the sink
    pc,          \* next step of the process, "down" when none runs
    tick,        \* tick of cronHeartbeat
    chunk,       \* next chunk stageProofBundle uploads
    crashes      \* how often the process was killed

disk == <<stateFile, buffer, command, handoff>>
source == <<finalised, derivedPda>>
process == <<pc, tick, chunk>>
vars == <<source, disk, emitted, process, crashes>>

-----------------------------------------------------------------------------

Phases == {"watching", "final_observed", "staged"}

\* readJsonFile yields undefined: the default state.
NoState == [phase |-> "watching", observedAt |-> 0]

NoBuffer == [exists |-> FALSE, content |-> 0, sealed |-> FALSE]

Garbled == -1

\* account.chunks.push: chunk k after what is there.
Push(content, k) == IF content = k - 1 THEN k ELSE Garbled

Steps == {"tick", "observed", "record", "wait", "available", "root", "init",
          "append", "seal", "staged", "command", "submitted", "handoff", "state"}

\* What the process does between two steps that touch nothing durable.
Goto(p) == pc' = p /\ UNCHANGED <<tick, chunk>>

\* The process is over: onTick returned "done", or an exception left main.
End == pc' = "down" /\ tick' = 0 /\ chunk' = 1

\* onTick returned "continue": the next tick, unless maxTicks is reached.
Continue ==
    \/ tick < MaxTicks /\ pc' = "tick" /\ tick' = tick + 1 /\ UNCHANGED chunk
    \/ tick >= MaxTicks /\ End

Emit(event) == emitted' = emitted \union {event}

-----------------------------------------------------------------------------
\* The environment.

FinalRecord ==
    /\ ~finalised
    /\ finalised' = TRUE
    /\ UNCHANGED <<derivedPda, disk, emitted, process, crashes>>

Crash ==
    /\ pc # "down"
    /\ crashes < MaxCrashes
    /\ crashes' = crashes + 1
    /\ End
    /\ UNCHANGED <<source, disk, emitted>>

\* closeProofBuffer: the operator frees the buffer of a finished dispatch.
Cleanup ==
    /\ stateFile.phase = "staged"
    /\ pc = "down"
    /\ buffer.exists
    /\ buffer' = NoBuffer
    /\ UNCHANGED <<source, stateFile, command, handoff, emitted, process, crashes>>

StartProcess ==
    /\ pc = "down"
    /\ pc' = "tick" /\ tick' = 1 /\ chunk' = 1
    /\ UNCHANGED <<source, disk, emitted, crashes>>

-----------------------------------------------------------------------------
\* onTick.

\* Bug variant: a staged run is dispatched again.
AlreadyStagedNever == FALSE

\* Already relayed: no-op.
AlreadyStaged == stateFile.phase = "staged"

\* Read the state, fetch the fixture, look for the final record.
OnTick ==
    /\ pc = "tick"
    /\ \/ AlreadyStaged /\ End
       \/ ~AlreadyStaged /\ ~finalised /\ Continue
       \/ ~AlreadyStaged /\ finalised /\ stateFile.phase = "watching" /\ Goto("observed")
       \/ ~AlreadyStaged /\ finalised /\ stateFile.phase # "watching" /\ Goto("wait")
    /\ UNCHANGED <<source, disk, emitted, crashes>>

ObserveFinal ==
    /\ pc = "observed"
    /\ Emit("FINAL_RECORD_OBSERVED")
    /\ Goto("record")
    /\ UNCHANGED <<source, disk, crashes>>

RecordFinal ==
    /\ pc = "record"
    /\ stateFile' = [phase |-> "final_observed", observedAt |-> tick]
    /\ Goto("wait")
    /\ UNCHANGED <<source, buffer, command, handoff, emitted, crashes>>

\* Bug variant: one heartbeat more than configured.
ProofReadyLater == tick > stateFile.observedAt + ReadyAfter

\* The tick the record was observed at may be another process's.
ProofReady == tick >= stateFile.observedAt + ReadyAfter

AwaitProof ==
    /\ pc = "wait"
    /\ IF ProofReady THEN Goto("available") ELSE Continue
    /\ UNCHANGED <<source, disk, emitted, crashes>>

ProofAvailable ==
    /\ pc = "available"
    /\ Emit("PROOF_AVAILABLE")
    /\ Goto("root")
    /\ UNCHANGED <<source, disk, crashes>>

\* lookupDailyRootPda throws on an unknown day; a mismatch fails the run.
CheckRoot ==
    /\ pc = "root"
    /\ \/ derivedPda = NoPda /\ End /\ UNCHANGED emitted
       \/ derivedPda \in Pdas \ {RootAccount} /\ Emit("RUN_FAILED") /\ End
       \/ derivedPda = RootAccount /\ Goto("init") /\ UNCHANGED emitted
    /\ UNCHANGED <<source, disk, crashes>>

\* initializeProofBuffer: an existing buffer is taken as it is.
InitializeProofBuffer ==
    /\ pc = "init"
    /\ buffer' = IF buffer.exists THEN buffer ELSE [NoBuffer EXCEPT !.exists = TRUE]
    /\ Goto("append")
    /\ UNCHANGED <<source, stateFile, command, handoff, emitted, crashes>>

\* One call of appendProofChunk in the loop of stageProofBundle.
AppendProofChunk ==
    /\ pc = "append"
    /\ \/ buffer.sealed /\ End /\ UNCHANGED buffer
       \/ /\ ~buffer.sealed
          /\ buffer' = [buffer EXCEPT !.content = Push(@, chunk)]
          /\ chunk' = chunk + 1
          /\ pc' = IF chunk < Chunks THEN "append" ELSE "seal"
          /\ UNCHANGED tick
    /\ UNCHANGED <<source, stateFile, command, handoff, emitted, crashes>>

\* Bug variant: whatever was uploaded is sealed, as seal_proof does on chain.
SealMatchesAnything == TRUE

\* The uploaded bytes hash to the hash of the bundle.
SealMatches == buffer.content = Chunks

SealProof ==
    /\ pc = "seal"
    /\ \/ (buffer.sealed \/ ~SealMatches) /\ End /\ UNCHANGED buffer
       \/ /\ ~buffer.sealed /\ SealMatches
          /\ buffer' = [buffer EXCEPT !.sealed = TRUE]
          /\ Goto("staged")
    /\ UNCHANGED <<source, stateFile, command, handoff, emitted, crashes>>

ProofStaged ==
    /\ pc = "staged"
    /\ Emit("PROOF_STAGED")
    /\ Goto("command")
    /\ UNCHANGED <<source, disk, crashes>>

\* Bug variant: announced before it is written.
WriteVerifyCommandLate ==
    /\ pc = "command"
    /\ Emit("SOLANA_VERIFY_SUBMITTED")
    /\ Goto("submitted")
    /\ UNCHANGED <<source, disk, crashes>>

WriteVerifyCommand ==
    /\ pc = "command"
    /\ command' = TRUE
    /\ Goto("submitted")
    /\ UNCHANGED <<source, stateFile, buffer, handoff, emitted, crashes>>

VerifySubmitted ==
    /\ pc = "submitted"
    /\ Emit("SOLANA_VERIFY_SUBMITTED")
    /\ Goto("handoff")
    /\ UNCHANGED <<source, disk, crashes>>

WriteHandoff ==
    /\ pc = "handoff"
    /\ handoff' = TRUE
    /\ Goto("state")
    /\ UNCHANGED <<source, stateFile, buffer, command, emitted, crashes>>

WriteState ==
    /\ pc = "state"
    /\ stateFile' = [stateFile EXCEPT !.phase = "staged"]
    /\ Continue
    /\ UNCHANGED <<source, buffer, command, handoff, emitted, crashes>>

-----------------------------------------------------------------------------

Init ==
    /\ finalised = FALSE
    /\ derivedPda \in Pdas \union {NoPda}
    /\ stateFile = NoState
    /\ buffer = NoBuffer
    /\ command = FALSE /\ handoff = FALSE
    /\ emitted = {}
    /\ pc = "down" /\ tick = 0 /\ chunk = 1
    /\ crashes = 0

Work ==
    \/ OnTick \/ ObserveFinal \/ RecordFinal \/ AwaitProof \/ ProofAvailable
    \/ CheckRoot \/ InitializeProofBuffer \/ AppendProofChunk \/ SealProof
    \/ ProofStaged \/ WriteVerifyCommand \/ VerifySubmitted \/ WriteHandoff
    \/ WriteState

Next == FinalRecord \/ Crash \/ Cleanup \/ StartProcess \/ Work

Spec == Init /\ [][Next]_vars

\* A running process goes on, the cron trigger starts it whenever none runs, and
\* the match ends.
FairSpec ==
    /\ Spec
    /\ WF_vars(Work) /\ WF_vars(StartProcess) /\ WF_vars(FinalRecord)

-----------------------------------------------------------------------------

Events == {"FINAL_RECORD_OBSERVED", "PROOF_AVAILABLE", "RUN_FAILED",
           "PROOF_STAGED", "SOLANA_VERIFY_SUBMITTED"}

\* However often the upload was interrupted and repeated, a sealed buffer holds
\* exactly the bundle (proof-buffer-adapter.ts:136-138), and the downstream
\* workflows get a handoff only over a sealed buffer and a written command.
HandoffIsSealed ==
    /\ buffer.sealed => buffer.exists /\ buffer.content = Chunks
    /\ handoff => command /\ (buffer.sealed \/ stateFile.phase = "staged")
    /\ stateFile.phase = "staged" => handoff /\ derivedPda = RootAccount

\* No fake animation: every event tells of something that has happened
\* (main.ts:18-19), also when the process died in between.
EventsAreReal ==
    /\ "FINAL_RECORD_OBSERVED" \in emitted => finalised
    /\ "PROOF_AVAILABLE" \in emitted => stateFile.phase # "watching"
    /\ "PROOF_STAGED" \in emitted => buffer.sealed \/ stateFile.phase = "staged"
    /\ "SOLANA_VERIFY_SUBMITTED" \in emitted => command
    /\ "RUN_FAILED" \in emitted => derivedPda # RootAccount

\* Already relayed is a no-op: once staged, whatever runs again writes and
\* announces nothing (main.ts:113-117).
StagedOnce ==
    [][ stateFile.phase = "staged" =>
           /\ UNCHANGED <<stateFile, command, handoff, emitted>>
           /\ buffer' \in {buffer, NoBuffer} ]_vars

\* The process is between the first upload and the last write.
InStaging ==
    pc \in {"append", "seal", "staged", "command", "submitted", "handoff", "state"}

\* An upload or what follows it was cut off and left its bytes behind.
Interrupted ==
    ~InStaging /\ stateFile.phase # "staged" /\ buffer.exists /\ buffer.content # 0

\* The proof becomes ready after the last tick of any process.
TooLate ==
    stateFile.phase = "final_observed" /\ stateFile.observedAt + ReadyAfter > MaxTicks

\* A finished match is staged in the end, through any number of kills, unless
\* one of them hit the staging itself or the record was observed too late.
StagedUnlessInterrupted ==
    derivedPda = RootAccount =>
        <>(stateFile.phase = "staged" \/ Interrupted \/ TooLate)

\* The promise without the exceptions: "proof unavailable -> retry next heartbeat",
\* "create/locate the sealed ProofBuffer", "Idempotency lives in a run-state JSON
\* file" (main.ts:22-25, 146, 166).
FinalIsStaged ==
    derivedPda = RootAccount => <>(stateFile.phase = "staged")

=============================================================================
