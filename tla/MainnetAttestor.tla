--------------------------- MODULE MainnetAttestor ---------------------------
(***************************************************************************)
(* The hybrid mainnet path: a capture process (external) appends final     *)
(* records and proofs to its files, the watcher (live.ts) or the rehearsal *)
(* (rehearse.ts) verifies the first proof that fits the first final record *)
(* with the deployed TxLINE program on two RPC endpoints and writes the    *)
(* evidence, and the operator's memo tool signs what the manifest says.    *)
(*                                                                         *)
(* A record is its fixture, sequence number and score; NoScore is a record *)
(* without Stats.  A proof line is the sequence number its request asked   *)
(* for, and a body: the event of TxLINE's tree it proves, with a fixture   *)
(* and a score (NoScore: a field missing or malformed).  Nothing in the    *)
(* body names the sequence number.                                         *)
(* Hashes are what they are taken over.  An endpoint "serves" from when it *)
(* answers and has the daily root at finalized commitment; a lying one     *)
(* answers what it likes.                                                  *)
(***************************************************************************)
EXTENDS Integers, Sequences, FiniteSetsExt

CONSTANTS
    Fixtures,
    Watched,      \* the fixture the programs are started with
    Committed,    \* external: fixture, seq and score of each event in TxLINE's trees
    NoScore,
    Records,      \* the final records the feed may deliver
    Proofs,       \* the proof lines the capture may store
    MaxRecords,   \* bound: length of each file of records
    MaxProofs,    \* bound: length of proofs.ndjson
    MaxStarts,    \* bound: how often the watcher is started
    MaxMemos,     \* bound: how many memos are sent
    None          \* nothing there

Endpoints == {"primary", "secondary"}

ASSUME AttestorAssumption ==
    /\ \A e \in DOMAIN Committed :
          Committed[e] \in [fixture : Fixtures, seq : Nat, score : Nat \X Nat]
    /\ Records \subseteq [fixture : Fixtures, seq : Nat, score : (Nat \X Nat) \union {NoScore}]
    /\ Proofs \subseteq [seq : Nat \ {0}, usable : BOOLEAN, event : DOMAIN Committed,
                         fixture : Fixtures, score : (Nat \X Nat) \union {NoScore}]
    /\ MaxRecords \in Nat /\ MaxProofs \in Nat
    /\ MaxStarts \in Nat /\ MaxMemos \in Nat

VARIABLES
    stream, snapshots,  \* scores-stream.ndjson and snapshots.ndjson: final records
    proofs,             \* proofs.ndjson
    serving,            \* endpoints that serve the root
    lying,              \* endpoints that lie
    expired,            \* the deadline has passed
    mode,               \* the program run on these files: "live" or "rehearsal"
    pc, record, proof,  \* its step, the final record and the proof it works on
    answers,            \* what .view() returned, by endpoint
    manifest,           \* manifest.json
    starts,             \* how often it was started
    memoPc, memo,       \* step of the memo tool and the memo it built
    broadcast,          \* memo-broadcast.json
    chain               \* the memos that landed, in order

captured == <<stream, snapshots, proofs>>
rpc == <<serving, lying, expired>>
pipeline == <<mode, pc, record, proof, answers, manifest, starts>>
memoTool == <<memoPc, memo, broadcast, chain>>
vars == <<captured, rpc, pipeline, memoTool>>

-----------------------------------------------------------------------------
\* What the programs compute.

\* The first record of a file that is wanted.
FirstOf(s, wanted) ==
    LET at == {i \in DOMAIN s : s[i] \in wanted}
    IN  IF at = {} THEN None ELSE s[Min(at)]

\* Or else of another file.
FirstFound(file, other, wanted) ==
    LET found == FirstOf(file, wanted)
    IN  IF found # None THEN found ELSE FirstOf(other, wanted)

LiveRecord == FirstFound(stream, snapshots, {r \in Records : r.fixture = Watched})

\* The rehearsal takes the record of any fixture.
RehearsalRecord == FirstFound(snapshots, stream, Records)

FinalRecord == IF mode = "live" THEN LiveRecord ELSE RehearsalRecord

\* Lines the loader keeps whose request asked for this seq and for keys 1 and 2.
Matching(p) == p.usable /\ p.seq = record.seq

\* proofs.find: the first of them.
CapturedAt(i) == Matching(proofs[i]) /\ \A j \in 1 .. i - 1 : ~Matching(proofs[j])

\* H, D or A of the two score leaves.
ResultFromStats(score) ==
    CASE score[1] > score[2] -> "H"
      [] score[1] < score[2] -> "A"
      [] OTHER -> "D"

\* buildValidation and resultFromStats throw; stats that the record has agree.
Consistent ==
    /\ proof.score # NoScore
    /\ record.score \in {NoScore, proof.score}

\* External: the deployed validateStatV2, with the proof's values as predicates.
Verifies(p) == p.fixture = Committed[p.event].fixture /\ p.score = Committed[p.event].score

\* Bug variant: one endpoint is enough.
SomeTrue == \E e \in Endpoints : answers[e] = "true"

AllTrue == \A e \in Endpoints : answers[e] = "true"

\* The preimages of the instruction hash and of the bundle hash.
InstructionHash == [event |-> proof.event, fixture |-> proof.fixture, score |-> proof.score]
BundleHash == [raw |-> proof, record |-> record]

Manifest == [fixture |-> proof.fixture, seq |-> proof.seq,
             result |-> ResultFromStats(proof.score),
             ix |-> InstructionHash, bundle |-> BundleHash, allTrue |-> AllTrue]

-----------------------------------------------------------------------------
\* The capture process, the endpoints and the clock.

Capture ==
    /\ \/ \E r \in Records :
             \/ Len(stream) < MaxRecords /\ stream' = Append(stream, r)
                /\ UNCHANGED <<snapshots, proofs>>
             \/ Len(snapshots) < MaxRecords /\ snapshots' = Append(snapshots, r)
                /\ UNCHANGED <<stream, proofs>>
       \/ \E p \in Proofs : Len(proofs) < MaxProofs /\ proofs' = Append(proofs, p)
             /\ UNCHANGED <<stream, snapshots>>
    /\ UNCHANGED <<rpc, pipeline, memoTool>>

Serve(e) ==
    /\ e \notin serving
    /\ serving' = serving \union {e}
    /\ UNCHANGED <<captured, lying, expired, pipeline, memoTool>>

Expire ==
    /\ ~expired
    /\ expired' = TRUE
    /\ UNCHANGED <<captured, serving, lying, pipeline, memoTool>>

-----------------------------------------------------------------------------
\* The watcher and the rehearsal.

Idle == {"off", "passed", "failed", "deadline"}
NoAnswers == [e \in Endpoints |-> "none"]

Goto(step) == pc' = step /\ UNCHANGED <<mode, record, proof, answers, manifest, starts>>

\* An iteration of the loop is over, and with it its locals.
Leave(step) ==
    /\ pc' = step
    /\ record' = None /\ proof' = None /\ answers' = NoAnswers
    /\ UNCHANGED <<mode, manifest, starts>>

\* The rehearsal ends with an error where the watcher tries again.
RehearsalFails == Leave("failed")

\* Bug variant: the watcher ends as the rehearsal does.
RetryNever == RehearsalFails

\* The loop sleeps and polls again.
Retry == IF mode = "live" THEN Leave("sleep") ELSE RehearsalFails

Start ==
    /\ pc \in Idle
    /\ starts < MaxStarts
    /\ starts' = starts + 1
    /\ pc' = "poll"
    /\ UNCHANGED <<captured, rpc, mode, record, proof, answers, manifest, memoTool>>

Kill ==
    /\ pc \notin Idle
    /\ Leave("off")
    /\ UNCHANGED <<captured, rpc, memoTool>>

Wake ==
    /\ pc = "sleep"
    /\ Goto("poll")
    /\ UNCHANGED <<captured, rpc, memoTool>>

\* Bug variant: the deadline is looked at once a final record is there.
DeadlineAfterRecord == mode = "live" /\ expired /\ FinalRecord # None

\* The rehearsal has no deadline.
PastDeadline == mode = "live" /\ expired

Poll ==
    /\ pc = "poll"
    /\ \/ PastDeadline /\ Leave("deadline")
       \/ ~PastDeadline /\ FinalRecord = None /\ Retry
       \/ /\ ~PastDeadline /\ FinalRecord # None
          /\ record' = FinalRecord /\ pc' = "proof"
          /\ UNCHANGED <<mode, proof, answers, manifest, starts>>
    /\ UNCHANGED <<captured, rpc, memoTool>>

FindProof ==
    /\ pc = "proof"
    /\ \/ \E i \in DOMAIN proofs :
             /\ CapturedAt(i)
             /\ proof' = proofs[i] /\ pc' = "check"
             /\ UNCHANGED <<mode, record, answers, manifest, starts>>
       \/ ~(\E i \in DOMAIN proofs : Matching(proofs[i])) /\ Retry
    /\ UNCHANGED <<captured, rpc, memoTool>>

Check ==
    /\ pc = "check"
    /\ IF Consistent THEN Goto("roots") ELSE Retry
    /\ UNCHANGED <<captured, rpc, memoTool>>

\* The root is read on both endpoints before any .view().
ReadRoots ==
    /\ pc = "roots"
    /\ \/ Endpoints \subseteq serving \union lying /\ Goto("primary")
       \/ ~ Endpoints \subseteq serving /\ Retry
    /\ UNCHANGED <<captured, rpc, memoTool>>

NextStep(e) == IF e = "primary" THEN "secondary" ELSE "write"

View(e) ==
    /\ pc = e
    /\ \/ \E a \in {"true", "false"} :
             /\ \/ e \in lying
                \/ e \in serving /\ (a = "true" <=> Verifies(proof))
             /\ answers' = [answers EXCEPT ![e] = a]
             /\ pc' = NextStep(e)
             /\ UNCHANGED <<mode, record, proof, manifest, starts>>
       \/ e \in lying /\ Retry   \* .view() throws
    /\ UNCHANGED <<captured, rpc, memoTool>>

\* The evidence files; the manifest is the last, and is written whatever was
\* answered.
WriteEvidence ==
    /\ pc = "write"
    /\ manifest' = Manifest
    /\ pc' = IF AllTrue THEN "passed" ELSE IF mode = "live" THEN "sleep" ELSE "failed"
    /\ record' = None /\ proof' = None /\ answers' = NoAnswers
    /\ UNCHANGED <<captured, rpc, mode, starts, memoTool>>

-----------------------------------------------------------------------------
\* The memo tool, run by the operator.

\* Refuses to build a memo from anything but a manifest with every view true.
MayMemo == manifest # None /\ manifest.allTrue

\* buildMemoString: everything of the manifest but the answers.
MemoOf(m, supersedes) ==
    [fixture |-> m.fixture, seq |-> m.seq, result |-> m.result, ix |-> m.ix,
     bundle |-> m.bundle, supersedes |-> supersedes]

AttestationId(m) == <<m.fixture, m.seq, m.ix, m.bundle>>

\* Reads the manifest; the operator chooses what it supersedes.  A dry run
\* (no --broadcast, or PROOFLINE_MAINNET_GO unset) stops here.
BuildMemo ==
    /\ memoPc = "off" /\ Len(chain) < MaxMemos
    /\ MayMemo
    /\ \E s \in (DOMAIN chain) \union {None} :
          memo' = MemoOf(manifest, s)
    /\ memoPc' = "built"
    /\ UNCHANGED <<captured, rpc, pipeline, broadcast, chain>>

\* sendRawTransaction: it lands or its blockhash expires.
Broadcast ==
    /\ memoPc = "built"
    /\ \/ chain' = Append(chain, memo) /\ memoPc' = "landed" /\ UNCHANGED memo
       \/ memoPc' = "off" /\ memo' = None /\ UNCHANGED chain
    /\ UNCHANGED <<captured, rpc, pipeline, broadcast>>

\* confirmTransaction returns and the record is written, over the last one, or
\* it throws (or the tool is killed) and the memo stays unrecorded.
Confirm ==
    /\ memoPc = "landed"
    /\ \/ broadcast' = [signature |-> Len(chain), memo |-> memo, id |-> AttestationId(memo)]
       \/ UNCHANGED broadcast
    /\ memoPc' = "off" /\ memo' = None
    /\ UNCHANGED <<captured, rpc, pipeline, chain>>

-----------------------------------------------------------------------------

Init ==
    /\ stream = <<>> /\ snapshots = <<>> /\ proofs = <<>>
    /\ serving = {} /\ lying \in {{}, {"primary"}, {"secondary"}} /\ expired = FALSE
    /\ mode \in {"live", "rehearsal"} /\ pc = "off" /\ record = None /\ proof = None
    /\ answers = NoAnswers /\ manifest = None /\ starts = 0
    /\ memoPc = "off" /\ memo = None /\ broadcast = None /\ chain = <<>>

Process ==
    \/ Wake \/ Poll \/ FindProof \/ Check \/ ReadRoots
    \/ View("primary") \/ View("secondary") \/ WriteEvidence

Environment ==
    \/ Capture \/ Expire \/ \E e \in Endpoints : Serve(e)

Operator ==
    \/ Start \/ Kill \/ BuildMemo \/ Broadcast \/ Confirm

Next == Process \/ Environment \/ Operator

\* The loop goes on while its process lives: sleeps end, calls return or throw.
Fairness == WF_vars(Process)

-----------------------------------------------------------------------------
\* Properties.

Instructions == [event : DOMAIN Committed, fixture : Fixtures, score : Nat \X Nat]
Bundles == [raw : Proofs, record : Records]
Results == {"H", "D", "A"}

Manifests ==
    [fixture : Fixtures, seq : Nat, result : Results, ix : Instructions, bundle : Bundles,
     allTrue : BOOLEAN]

Memos ==
    [fixture : Fixtures, seq : Nat, result : Results, ix : Instructions, bundle : Bundles,
     supersedes : Nat \union {None}]

\* The variables have their types: the files hold what was captured, written and
\* signed, and at most one endpoint lies.
TypeOK ==
    /\ stream \in Seq(Records) /\ snapshots \in Seq(Records) /\ proofs \in Seq(Proofs)
    /\ serving \subseteq Endpoints /\ expired \in BOOLEAN
    /\ lying \in {{}, {"primary"}, {"secondary"}}
    /\ mode \in {"live", "rehearsal"}
    /\ pc \in Idle \union Endpoints \union {"poll", "sleep", "proof", "check", "roots", "write"}
    /\ record \in Records \union {None} /\ proof \in Proofs \union {None}
    /\ answers \in [Endpoints -> {"none", "true", "false"}]
    /\ manifest \in Manifests \union {None}
    /\ starts \in 0 .. MaxStarts
    /\ memoPc \in {"off", "built", "landed"} /\ memo \in Memos \union {None}
    /\ chain \in Seq(Memos)

\* Whatever one of the two endpoints answers, what a memo on the chain says of its
\* fixture is what TxLINE's root commits of the event its instruction proves, and
\* what the final record in its bundle says if that has stats: no retry, restart,
\* late correction or disagreement between the endpoints gets an unverified result
\* signed (live.ts: "RPC disagreement or non-true -> NEVER memo").  That this event
\* is the one of the memo's sequence number rests on the capture, whose line must
\* answer the request it names.
MemoIsTrue ==
    \A i \in DOMAIN chain :
        LET event == Committed[chain[i].ix.event]
        IN  /\ chain[i].fixture = event.fixture
            /\ chain[i].result = ResultFromStats(event.score)
            /\ chain[i].bundle.raw.event = chain[i].ix.event
            /\ chain[i].bundle.record.seq = chain[i].seq
            /\ chain[i].bundle.record.score \in {NoScore, event.score}

\* A watcher past its deadline ends, and the rehearsal always does: no answer,
\* error or missing file makes either poll for ever.
AlwaysEnds == (expired \/ mode = "rehearsal") ~> pc \in Idle

\* The first final record and the first proof that fits it are good, and both
\* endpoints are honest and serve the root.
Verifiable ==
    /\ lying = {} /\ serving = Endpoints
    /\ FinalRecord # None
    /\ LET fits == SelectSeq(proofs, LAMBDA p : p.usable /\ p.seq = FinalRecord.seq)
       IN  /\ fits # <<>>
           /\ Verifies(fits[1])
           /\ FinalRecord.score \in {NoScore, fits[1].score}

\* A live watcher that can verify does so, whatever it tried before (records,
\* proofs and roots may come in any order), unless it is killed or its
\* deadline passes.
EventuallyVerified ==
    [](mode = "live" /\ pc # "off" /\ []Verifiable
        => <>(pc \in {"passed", "off", "deadline"}))

Spec == Init /\ [][Next]_vars
FairSpec == Spec /\ Fairness

=============================================================================
