------------------------------ MODULE RoomState ------------------------------
(***************************************************************************)
(* The reducer of the event model: a control room's state is the fold of   *)
(* the events it has, live and replayed alike.                             *)
(*                                                                         *)
(* Of an event's data that is kept which the screen tells apart: a digest, *)
(* hash or slot is only there or not there.  Times are left out.           *)
(***************************************************************************)
EXTENDS Integers, SequencesExt

\* The step of the checklist that an event completes.
Completes ==
    [FINAL_RECORD_OBSERVED |-> 1, PROOF_AVAILABLE |-> 2, TXLINE_CPI_VERIFIED |-> 3,
     VAA_READY |-> 4, BASE_VAA_VERIFIED |-> 5, CONSUMER_SETTLED |-> 6]

\* The optional field that an event sets.
Sets ==
    [FINAL_RECORD_OBSERVED |-> "finalRecord", PROOF_AVAILABLE |-> "proof",
     PROOF_STAGED |-> "proofStagedSig", SOLANA_VERIFY_SUBMITTED |-> "verifySig",
     TXLINE_CPI_VERIFIED |-> "verifiedSlot", WORMHOLE_MESSAGE_PUBLISHED |-> "wormholeSequence",
     VAA_READY |-> "vaaHash", LEVEL3_BASE_FINALIZED |-> "level3.baseTxHash",
     LEVEL4_BASE_SUBMITTED |-> "level4.baseTxHash", BASE_VAA_VERIFIED |-> "baseVerifiedBlock",
     DUAL_FINALITY_REACHED |-> "attestationId", CONSUMER_SETTLED |-> "settledTxHash"]

Stages == {"source-dispatch", "level3-attestor", "vaa-executor"}

InitialState ==
    [steps |-> [i \in 1 .. 6 |-> IF i = 1 THEN "active" ELSE "pending"],
     finality |-> "Unknown",
     level3 |-> "idle",
     level4 |-> "idle",
     failure |-> "none",
     known |-> {},          \* the optional fields that are set
     rpcResults |-> <<>>,   \* by provider: whether it agreed
     signatures |-> {},     \* level4.guardianSignatures
     heartbeats |-> 0]

\* Earlier steps count as done unless they failed.
SetStep(steps, id, state) ==
    [i \in 1 .. 6 |->
        IF i = id THEN state
        ELSE IF i < id /\ steps[i] # "failed" THEN "done" ELSE steps[i]]

\* A completed step activates the next one.
CompleteStep(steps, id) ==
    IF id = 6 THEN SetStep(steps, 6, "done")
    ELSE SetStep(SetStep(steps, id, "done"), id + 1, "active")

\* The active step fails; the first, should there be several.
FailStep(steps) ==
    LET active == {i \in 1 .. 6 : steps[i] = "active"}
    IN  IF active = {} THEN steps ELSE SetStep(steps, Min(active), "failed")

StepsAfter(s, e) ==
    IF e.type \in DOMAIN Completes THEN CompleteStep(s.steps, Completes[e.type])
    ELSE IF e.type = "RUN_FAILED" THEN FailStep(s.steps)
    ELSE s.steps

\* Bug variant: the lane that speaks last is shown.
FinalityAfterLast(s, e) ==
    CASE e.type = "LEVEL3_BASE_FINALIZED" -> "CREAttested"
      [] e.type = "BASE_VAA_VERIFIED" -> "WormholeVerified"
      [] e.type = "DUAL_FINALITY_REACHED" -> "DualFinalized"
      [] OTHER -> s.finality

FinalityAfter(s, e) ==
    CASE e.type = "LEVEL3_BASE_FINALIZED" /\ s.finality = "Unknown" -> "CREAttested"
      [] e.type = "BASE_VAA_VERIFIED" /\ s.finality = "Unknown" -> "WormholeVerified"
      [] e.type = "DUAL_FINALITY_REACHED" -> "DualFinalized"
      [] OTHER -> s.finality

\* A failing stage fails the lane its name starts with: the attestor's does.
Level3After(s, e) ==
    CASE e.type = "PROOF_AVAILABLE" -> "in_progress"
      [] e.type = "LEVEL3_BASE_FINALIZED" -> "done"
      [] e.type = "RUN_FAILED" /\ e.stage = "level3-attestor" -> "failed"
      [] OTHER -> s.level3

\* No stage starts with level4: the executor is "vaa-executor".
Level4After(s, e) ==
    CASE e.type = "PROOF_AVAILABLE" -> "in_progress"
      [] e.type = "BASE_VAA_VERIFIED" -> "done"
      [] OTHER -> s.level4

\* Bug variant: what a provider said first stands beside what it says next.
RpcResultsAfterAll(s, e) ==
    IF e.type = "LEVEL3_RPC_RESULT"
    THEN (<<e.provider, Cardinality(DOMAIN s.rpcResults)>> :> e.agreed) @@ s.rpcResults
    ELSE s.rpcResults

\* A provider's result replaces its earlier one.
RpcResultsAfter(s, e) ==
    IF e.type = "LEVEL3_RPC_RESULT"
    THEN [p \in DOMAIN s.rpcResults \union {e.provider} |->
             IF p = e.provider THEN e.agreed ELSE s.rpcResults[p]]
    ELSE s.rpcResults

ApplyEvent(s, re) ==
    LET e == re.event
    IN  [steps |-> StepsAfter(s, e),
         finality |-> FinalityAfter(s, e),
         level3 |-> Level3After(s, e),
         level4 |-> Level4After(s, e),
         failure |-> IF e.type = "RUN_FAILED" THEN e.stage ELSE s.failure,
         known |-> IF e.type \in DOMAIN Sets THEN s.known \union {Sets[e.type]} ELSE s.known,
         rpcResults |-> RpcResultsAfter(s, e),
         signatures |-> IF e.type = "VAA_READY" THEN e.signatures ELSE s.signatures,
         heartbeats |-> IF e.type = "HEARTBEAT" THEN s.heartbeats + 1 ELSE s.heartbeats]

\* The states the events lead through, from the initial one on.
States(evs) ==
    LET state[n \in 0 .. Len(evs)] ==
            IF n = 0 THEN InitialState ELSE ApplyEvent(state[n - 1], evs[n])
    IN  state

\* The fold stops at the first event beyond seq.
ReplayTo(evs, seq) ==
    LET beyond == {k \in DOMAIN evs : evs[k].seq > seq}
    IN  States(evs)[IF beyond = {} THEN Len(evs) ELSE Min(beyond) - 1]

=============================================================================
