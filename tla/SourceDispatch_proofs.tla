----------------------- MODULE SourceDispatch_proofs -----------------------
(***************************************************************************)
(* Proofs about the source dispatch workflow, for any number of chunks,    *)
(* ticks and kills and any daily-root table.  Everything durable survives  *)
(* the process, so the invariant ties each control point to what is on     *)
(* disk: a process that is past a step finds that step's effect there,     *)
(* whichever process it was that wrote it.                                 *)
(***************************************************************************)
EXTENDS SourceDispatch, TLAPS

\* Control points by what must have happened before them.
Staged == {"staged", "command", "submitted", "handoff", "state"}
Uploading == {"append", "seal"} \union Staged
Rooted == {"init"} \union Uploading
Recorded == {"wait", "available", "root"} \union Rooted

\* Every variable holds a value of its type.
TypeOK ==
    /\ finalised \in BOOLEAN
    /\ derivedPda \in Pdas \union {NoPda}
    /\ stateFile \in [phase : Phases, observedAt : 0 .. MaxTicks]
    /\ buffer \in [exists : BOOLEAN, content : {Garbled} \union 0 .. Chunks, sealed : BOOLEAN]
    /\ command \in BOOLEAN /\ handoff \in BOOLEAN
    /\ emitted \subseteq Events
    /\ pc \in Steps \union {"down"}
    /\ tick \in 0 .. MaxTicks
    /\ chunk \in 1 .. Chunks + 1
    /\ crashes \in 0 .. MaxCrashes

\* What the running process may rely on.
ProcessInv ==
    /\ pc \in {"observed", "record"} => finalised /\ stateFile.phase = "watching"
    /\ pc \in Recorded => finalised /\ stateFile.phase = "final_observed"
    /\ pc \in Rooted => derivedPda = RootAccount
    /\ pc \in Uploading => buffer.exists
    /\ pc \in Staged => buffer.sealed
    /\ pc \in {"submitted", "handoff", "state"} => command
    /\ pc = "state" => handoff
    /\ pc \notin Uploading => chunk = 1 \/ stateFile.phase = "staged"
    /\ pc = "append" => chunk \in 1 .. Chunks
    /\ pc # "down" => tick \in 1 .. MaxTicks

\* What is found on disk, by whichever process.
DiskInv == HandoffIsSealed /\ EventsAreReal

IInv == TypeOK /\ ProcessInv /\ DiskInv

\* How a heartbeat goes on.
LEMMA ContinueFacts ==
    ASSUME TypeOK, Continue
    PROVE  /\ pc' \in {"tick", "down"}
           /\ tick' \in 0 .. MaxTicks /\ chunk' \in {1, chunk} /\ chunk' \in 1 .. Chunks + 1
           /\ pc' # "down" => tick' \in 1 .. MaxTicks
BY DispatchAssumption DEF Continue, End, TypeOK

\* And how one ends.
LEMMA EndFacts ==
    ASSUME End
    PROVE  /\ pc' = "down"
           /\ tick' \in 0 .. MaxTicks /\ chunk' \in 1 .. Chunks + 1
BY DispatchAssumption DEF End

\* A first process on an empty disk satisfies the invariant.
LEMMA InitInv == Init => IInv
<1> SUFFICES ASSUME Init PROVE IInv
  OBVIOUS
<1>1. TypeOK
  <2>1. stateFile \in [phase : Phases, observedAt : 0 .. MaxTicks]
    BY DispatchAssumption DEF Init, NoState, Phases
  <2>2. buffer \in [exists : BOOLEAN, content : {Garbled} \union 0 .. Chunks, sealed : BOOLEAN]
    BY DispatchAssumption DEF Init, NoBuffer
  <2>3. /\ tick \in 0 .. MaxTicks /\ chunk \in 1 .. Chunks + 1 /\ crashes \in 0 .. MaxCrashes
        /\ pc \in Steps \union {"down"}
    BY DispatchAssumption DEF Init
  <2>4. QED BY <2>1, <2>2, <2>3 DEF Init, TypeOK
<1>2. ProcessInv
  BY DEF Init, ProcessInv, Recorded, Rooted, Uploading, Staged
<1>3. DiskInv
  BY DEF Init, DiskInv, HandoffIsSealed, EventsAreReal, NoState, NoBuffer
<1>4. QED BY <1>1, <1>2, <1>3 DEF IInv

\* An upload step keeps the buffer a buffer.
LEMMA PushType ==
    ASSUME NEW c \in {Garbled} \union 0 .. Chunks, NEW k \in 1 .. Chunks
    PROVE  Push(c, k) \in {Garbled} \union 0 .. Chunks
BY DispatchAssumption DEF Push, Garbled

\* Every step keeps types.
LEMMA NextType == IInv /\ [Next]_vars => TypeOK'
<1> SUFFICES ASSUME IInv, [Next]_vars PROVE TypeOK'
  OBVIOUS
<1> USE DispatchAssumption DEF IInv, TypeOK
<1>1. CASE FinalRecord
  BY <1>1 DEF FinalRecord, disk, process
<1>2. CASE Crash
  BY <1>2, EndFacts DEF Crash, disk, source
<1>3. CASE Cleanup
  BY <1>3 DEF Cleanup, source, process, NoBuffer
<1>4. CASE StartProcess
  BY <1>4 DEF StartProcess, disk, source, Steps
<1>5. CASE OnTick
  BY <1>5, EndFacts, ContinueFacts DEF OnTick, disk, source, Steps, Goto
<1>6. CASE ObserveFinal
  BY <1>6 DEF ObserveFinal, Emit, Events, Goto, disk, source, Steps
<1>7. CASE RecordFinal
  BY <1>7 DEF RecordFinal, Phases, Goto, source, Steps
<1>8. CASE AwaitProof
  BY <1>8, ContinueFacts DEF AwaitProof, disk, source, Steps, Goto
<1>9. CASE ProofAvailable
  BY <1>9 DEF ProofAvailable, Emit, Events, Goto, disk, source, Steps
<1>10. CASE CheckRoot
  BY <1>10, EndFacts DEF CheckRoot, Emit, Events, Goto, disk, source, Steps
<1>11. CASE InitializeProofBuffer
  <2>1. NoBuffer \in [exists : BOOLEAN, content : {Garbled} \union 0 .. Chunks, sealed : BOOLEAN]
    BY DEF NoBuffer
  <2>2. buffer' \in [exists : BOOLEAN, content : {Garbled} \union 0 .. Chunks, sealed : BOOLEAN]
    BY <1>11, <2>1 DEF InitializeProofBuffer
  <2>3. QED BY <1>11, <2>2 DEF InitializeProofBuffer, Goto, source, Steps
<1>12. CASE AppendProofChunk
  <2>1. CASE buffer.sealed
    BY <1>12, <2>1, EndFacts DEF AppendProofChunk, source
  <2>2. CASE ~buffer.sealed
    <3>1. chunk \in 1 .. Chunks
      BY <1>12 DEF AppendProofChunk, ProcessInv
    <3>2. buffer' = [buffer EXCEPT !.content = Push(buffer.content, chunk)]
      BY <1>12, <2>2 DEF AppendProofChunk
    <3>3. Push(buffer.content, chunk) \in {Garbled} \union 0 .. Chunks
      BY <3>1, PushType
    <3>4. buffer' \in [exists : BOOLEAN, content : {Garbled} \union 0 .. Chunks,
                       sealed : BOOLEAN]
      BY <3>2, <3>3
    <3>5. QED BY <1>12, <2>2, <3>1, <3>4 DEF AppendProofChunk, source, Steps
  <2>3. QED BY <2>1, <2>2
<1>13. CASE SealProof
  BY <1>13, EndFacts DEF SealProof, Goto, source, Steps
<1>14. CASE ProofStaged
  BY <1>14 DEF ProofStaged, Emit, Events, Goto, disk, source, Steps
<1>15. CASE WriteVerifyCommand
  BY <1>15 DEF WriteVerifyCommand, Goto, source, Steps
<1>16. CASE VerifySubmitted
  BY <1>16 DEF VerifySubmitted, Emit, Events, Goto, disk, source, Steps
<1>17. CASE WriteHandoff
  BY <1>17 DEF WriteHandoff, Goto, source, Steps
<1>18. CASE WriteState
  BY <1>18, ContinueFacts DEF WriteState, Phases, source, Steps
<1>19. CASE UNCHANGED vars
  BY <1>19 DEF vars, disk, source, process
<1>20. QED
  BY <1>1, <1>2, <1>3, <1>4, <1>5, <1>6, <1>7, <1>8, <1>9, <1>10, <1>11, <1>12, <1>13,
     <1>14, <1>15, <1>16, <1>17, <1>18, <1>19 DEF Next, Work

-----------------------------------------------------------------------------
\* What a running process relies on is kept by its own steps and, as there is
\* one process, disturbed by nobody else's.
LEMMA NextProcess == IInv /\ [Next]_vars => ProcessInv'
<1> SUFFICES ASSUME IInv, [Next]_vars PROVE ProcessInv'
  OBVIOUS
<1> USE DispatchAssumption DEF IInv, ProcessInv, Recorded, Rooted, Uploading, Staged
<1>1. CASE FinalRecord
  BY <1>1 DEF FinalRecord, disk, process
<1>2. CASE Crash
  BY <1>2 DEF Crash, End
<1>3. CASE Cleanup
  BY <1>3 DEF Cleanup, process
<1>4. CASE StartProcess
  BY <1>4 DEF StartProcess
<1>5. CASE OnTick
  <2>1. CASE AlreadyStaged \/ ~finalised
    BY <1>5, <2>1, ContinueFacts DEF OnTick, End, disk
  <2>2. CASE ~AlreadyStaged /\ finalised /\ stateFile.phase = "watching"
    BY <1>5, <2>2 DEF OnTick, AlreadyStaged, Goto, disk, source
  <2>3. CASE ~AlreadyStaged /\ finalised /\ stateFile.phase # "watching"
    <3>1. pc' = "wait" /\ UNCHANGED <<tick, chunk, finalised, stateFile>>
      BY <1>5, <2>3 DEF OnTick, Goto, disk, source
    <3>2. stateFile.phase = "final_observed"
      BY <2>3 DEF AlreadyStaged, TypeOK, Phases
    <3>3. QED BY <1>5, <2>3, <3>1, <3>2 DEF OnTick
  <2>4. QED BY <1>5, <2>1, <2>2, <2>3
<1>6. CASE ObserveFinal
  BY <1>6 DEF ObserveFinal, Goto, disk, source
<1>7. CASE RecordFinal
  BY <1>7 DEF RecordFinal, Goto, source
<1>8. CASE AwaitProof
  BY <1>8, ContinueFacts DEF AwaitProof, disk, source, Goto
<1>9. CASE ProofAvailable
  BY <1>9 DEF ProofAvailable, Goto, disk, source
<1>10. CASE CheckRoot
  BY <1>10 DEF CheckRoot, End, Goto, disk, source
<1>11. CASE InitializeProofBuffer
  BY <1>11 DEF InitializeProofBuffer, NoBuffer, Goto, source, TypeOK
<1>12. CASE AppendProofChunk
  BY <1>12 DEF AppendProofChunk, End, source, TypeOK
<1>13. CASE SealProof
  BY <1>13 DEF SealProof, End, Goto, source, TypeOK
<1>14. CASE ProofStaged
  BY <1>14 DEF ProofStaged, Goto, disk, source
<1>15. CASE WriteVerifyCommand
  BY <1>15 DEF WriteVerifyCommand, Goto, source
<1>16. CASE VerifySubmitted
  BY <1>16 DEF VerifySubmitted, Goto, disk, source
<1>17. CASE WriteHandoff
  BY <1>17 DEF WriteHandoff, Goto, source
<1>18. CASE WriteState
  BY <1>18, ContinueFacts DEF WriteState, source
<1>19. CASE UNCHANGED vars
  BY <1>19 DEF vars, disk, source, process
<1>20. QED
  BY <1>1, <1>2, <1>3, <1>4, <1>5, <1>6, <1>7, <1>8, <1>9, <1>10, <1>11, <1>12, <1>13,
     <1>14, <1>15, <1>16, <1>17, <1>18, <1>19 DEF Next, Work

-----------------------------------------------------------------------------
\* What the disk says stays true through every step, kill and new start.
LEMMA NextHandoff == IInv /\ [Next]_vars => HandoffIsSealed'
<1> SUFFICES ASSUME IInv, [Next]_vars PROVE HandoffIsSealed'
  OBVIOUS
<1> USE DEF IInv, DiskInv, HandoffIsSealed
<1>1. CASE UNCHANGED <<derivedPda, disk>>
  BY <1>1 DEF disk
<1>2. CASE Cleanup
  BY <1>2 DEF Cleanup, source, NoBuffer
<1>3. CASE RecordFinal
  BY <1>3 DEF RecordFinal, source, ProcessInv
<1>4. CASE InitializeProofBuffer
  BY <1>4 DEF InitializeProofBuffer, source, NoBuffer, TypeOK
<1>5. CASE AppendProofChunk
  BY <1>5 DEF AppendProofChunk, source, ProcessInv, Uploading, TypeOK
<1>6. CASE SealProof
  BY <1>6 DEF SealProof, SealMatches, source, ProcessInv, Uploading, TypeOK
<1>7. CASE WriteVerifyCommand
  BY <1>7 DEF WriteVerifyCommand, source
<1>8. CASE WriteHandoff
  BY <1>8 DEF WriteHandoff, source, ProcessInv, Staged
<1>9. CASE WriteState
  BY <1>9 DEF WriteState, source, ProcessInv, Rooted, Uploading, Staged, TypeOK
<1>10. QED
  BY <1>1, <1>2, <1>3, <1>4, <1>5, <1>6, <1>7, <1>8, <1>9
     DEF Next, Work, FinalRecord, Crash, StartProcess, OnTick, ObserveFinal, AwaitProof,
         ProofAvailable, CheckRoot, ProofStaged, VerifySubmitted, vars, source, disk

\* What was announced stays true, and what is announced is true.
LEMMA NextEvents == IInv /\ [Next]_vars => EventsAreReal'
<1> SUFFICES ASSUME IInv, [Next]_vars PROVE EventsAreReal'
  OBVIOUS
<1> USE DEF IInv, DiskInv, EventsAreReal
<1>1. CASE UNCHANGED <<source, disk, emitted>>
  BY <1>1 DEF source, disk
<1>2. CASE FinalRecord
  BY <1>2 DEF FinalRecord, disk
<1>3. CASE Cleanup
  BY <1>3 DEF Cleanup, source, NoBuffer
<1>4. CASE ObserveFinal
  BY <1>4 DEF ObserveFinal, Emit, source, disk, ProcessInv
<1>5. CASE RecordFinal
  BY <1>5 DEF RecordFinal, source, ProcessInv
<1>6. CASE ProofAvailable
  BY <1>6 DEF ProofAvailable, Emit, source, disk, ProcessInv, Recorded
<1>7. CASE CheckRoot
  BY <1>7, DispatchAssumption DEF CheckRoot, Emit, source, disk
<1>8. CASE InitializeProofBuffer
  BY <1>8 DEF InitializeProofBuffer, source, HandoffIsSealed
<1>9. CASE AppendProofChunk
  BY <1>9 DEF AppendProofChunk, source, TypeOK
<1>10. CASE SealProof
  BY <1>10 DEF SealProof, source, TypeOK
<1>11. CASE ProofStaged
  BY <1>11 DEF ProofStaged, Emit, source, disk, ProcessInv, Staged
<1>12. CASE WriteVerifyCommand
  BY <1>12 DEF WriteVerifyCommand, source
<1>13. CASE VerifySubmitted
  BY <1>13 DEF VerifySubmitted, Emit, source, disk, ProcessInv
<1>14. CASE WriteHandoff
  BY <1>14 DEF WriteHandoff, source
<1>15. CASE WriteState
  BY <1>15 DEF WriteState, source, TypeOK
<1>16. QED
  BY <1>1, <1>2, <1>3, <1>4, <1>5, <1>6, <1>7, <1>8, <1>9, <1>10, <1>11, <1>12, <1>13,
     <1>14, <1>15
     DEF Next, Work, Crash, StartProcess, OnTick, AwaitProof, vars

\* The inductive invariant holds of every reachable state.
THEOREM DispatchInvariant == Spec => []IInv
<1>1. IInv /\ [Next]_vars => IInv'
  BY NextType, NextProcess, NextHandoff, NextEvents DEF IInv, DiskInv
<1>2. QED BY <1>1, InitInv, PTL DEF Spec

\* Every variable of the workflow keeps its type.
THEOREM DispatchTypeCorrect == Spec => []TypeOK
<1>1. IInv => TypeOK BY DEF IInv
<1>2. QED BY <1>1, DispatchInvariant, PTL

\* The handoff stands on a sealed buffer of exactly the bundle, for any number
\* of chunks and however often the upload was cut off and repeated.
THEOREM HandoffCorrect == Spec => []HandoffIsSealed
<1>1. IInv => HandoffIsSealed BY DEF IInv, DiskInv
<1>2. QED BY <1>1, DispatchInvariant, PTL

\* No event is announced before what it tells of is there to stay.
THEOREM EventsCorrect == Spec => []EventsAreReal
<1>1. IInv => EventsAreReal BY DEF IInv, DiskInv
<1>2. QED BY <1>1, DispatchInvariant, PTL

\* A staged run is never dispatched again: a process that finds it so ends at
\* its first step, and no process can be past that step.
THEOREM StagedOnceCorrect == Spec => StagedOnce
<1> DEFINE Quiet == stateFile.phase = "staged" =>
                       /\ UNCHANGED <<stateFile, command, handoff, emitted>>
                       /\ buffer' \in {buffer, NoBuffer}
<1>1. IInv /\ [Next]_vars => [Quiet]_vars
  <2> SUFFICES ASSUME IInv, Next, stateFile.phase = "staged" PROVE Quiet
    BY DEF vars, disk
  <2>1. pc \in {"down", "tick"}
    BY DEF IInv, TypeOK, Steps, ProcessInv, Recorded, Rooted, Uploading, Staged
  <2>2. CASE Work
    BY <2>1, <2>2
       DEF Work, OnTick, ObserveFinal, RecordFinal, AwaitProof, ProofAvailable, CheckRoot,
           InitializeProofBuffer, AppendProofChunk, SealProof, ProofStaged,
           WriteVerifyCommand, VerifySubmitted, WriteHandoff, WriteState, disk
  <2>3. QED BY <2>2 DEF Next, FinalRecord, Crash, Cleanup, StartProcess, disk
<1>2. QED BY <1>1, DispatchInvariant, PTL DEF Spec, StagedOnce

=============================================================================
