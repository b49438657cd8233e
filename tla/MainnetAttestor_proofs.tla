----------------------- MODULE MainnetAttestor_proofs -----------------------
(***************************************************************************)
(* Proofs about the mainnet attestor, for any captured records and proofs, *)
(* any number of starts and memos and whatever one endpoint answers.  The  *)
(* argument is one chain: what a step works on passed the checks of the    *)
(* steps before it; if both endpoints say "true" an honest one does; so a  *)
(* manifest with every view true is true, and the memos copy it.           *)
(***************************************************************************)
EXTENDS MainnetAttestor, WellFoundedInduction, NaturalsInduction, TLAPS

\* Steps of an iteration, each with what the ones before it established.
HasRecord == {"proof", "check", "roots", "primary", "secondary", "write"}
HasProof == HasRecord \ {"proof"}
IsChecked == HasProof \ {"check"}
HasAnswers == {"secondary", "write"}

\* What a manifest or a memo tells is committed of the event it proves, and its
\* record agrees.
Tells(m) ==
    LET event == Committed[m.ix.event]
    IN  /\ m.fixture = event.fixture
        /\ m.result = ResultFromStats(event.score)
        /\ m.bundle.raw.event = m.ix.event
        /\ m.bundle.record.seq = m.seq
        /\ m.bundle.record.score \in {NoScore, event.score}

WorkInv ==
    /\ pc \in HasRecord => record \in Records
    /\ pc \in HasProof => proof \in Proofs /\ proof.seq = record.seq
    /\ pc \in IsChecked => Consistent
    /\ pc \notin HasAnswers => answers = NoAnswers
    /\ \A e \in Endpoints \ lying : answers[e] = "true" => Verifies(proof)

PaperInv ==
    /\ MayMemo => Tells(manifest)
    /\ memoPc # "off" => memo \in Memos /\ Tells(memo)
    /\ MemoIsTrue

IInv == TypeOK /\ WorkInv /\ PaperInv

\* Two endpoints that agree include an honest one.
LEMMA OneIsHonest ==
    ASSUME TypeOK, WorkInv, AllTrue
    PROVE  Verifies(proof)
<1>1. PICK e \in Endpoints : e \notin lying
  BY DEF TypeOK, Endpoints
<1>2. answers[e] = "true"
  BY <1>1 DEF AllTrue
<1>3. QED BY <1>1, <1>2 DEF WorkInv

\* The manifest written when both agree tells the truth.
LEMMA ManifestFacts ==
    ASSUME TypeOK, WorkInv, pc = "write"
    PROVE  /\ Manifest \in Manifests
           /\ AllTrue => Tells(Manifest)
           /\ Manifest.allTrue = AllTrue
<1>1. /\ record \in Records /\ proof \in Proofs /\ proof.seq = record.seq
      /\ proof.score # NoScore /\ record.score \in {NoScore, proof.score}
  BY DEF WorkInv, HasRecord, HasProof, IsChecked, Consistent
<1>2. /\ proof.event \in DOMAIN Committed /\ proof.score \in Nat \X Nat
      /\ proof.seq \in Nat /\ proof.fixture \in Fixtures
  BY <1>1, AttestorAssumption
<1>3. ResultFromStats(proof.score) \in Results
  BY <1>2 DEF ResultFromStats, Results
<1>4. InstructionHash \in Instructions /\ BundleHash \in Bundles /\ AllTrue \in BOOLEAN
  BY <1>1, <1>2 DEF InstructionHash, Instructions, BundleHash, Bundles, AllTrue
<1>5. Manifest \in Manifests /\ Manifest.allTrue = AllTrue
  BY <1>2, <1>3, <1>4 DEF Manifest, Manifests
<1>6. ASSUME AllTrue PROVE Tells(Manifest)
  <2>1. /\ proof.score = Committed[proof.event].score
        /\ proof.fixture = Committed[proof.event].fixture
    BY <1>6, OneIsHonest DEF Verifies
  <2>2. /\ Manifest.seq = proof.seq /\ Manifest.fixture = proof.fixture
        /\ Manifest.result = ResultFromStats(proof.score)
        /\ Manifest.bundle.record = record /\ Manifest.bundle.raw = proof
        /\ Manifest.ix.event = proof.event
    BY DEF Manifest, BundleHash, InstructionHash
  <2>3. QED BY <1>1, <2>1, <2>2 DEF Tells
<1>7. QED BY <1>5, <1>6

\* A memo tells what its manifest does, whatever it supersedes.
LEMMA MemoFacts ==
    ASSUME NEW m \in Manifests, Tells(m), NEW s \in Nat \union {None}
    PROVE  MemoOf(m, s) \in Memos /\ Tells(MemoOf(m, s))
BY DEF Manifests, Memos, MemoOf, Tells

\* A set of numbers has a least one.
LEMMA MinIs ==
    ASSUME NEW S \in SUBSET Nat, S # {}
    PROVE  Min(S) \in S
<1> DEFINE R == {ss \in Nat \X Nat : ss[1] < ss[2]}
<1>1. IsWellFoundedOn(R, Nat)
  BY NatLessThanWellFounded DEF OpToRel
<1> HIDE DEF R
<1>2. PICK m \in S : \A n \in S : ~ (<<n, m>> \in R)
  BY <1>1, WFMin
<1>3. \A n \in S : m <= n
  <2> SUFFICES ASSUME NEW n \in S PROVE m <= n
    OBVIOUS
  <2>1. ~ (n < m)
    BY <1>2 DEF R
  <2>2. QED BY <2>1
<1>4. QED BY <1>2, <1>3 DEF Min

\* The first wanted record of two files of records is a record.
LEMMA RecordFacts ==
    ASSUME TypeOK
    PROVE  FinalRecord \in Records \union {None}
<1>1. ASSUME NEW s \in Seq(Records), NEW wanted
      PROVE  FirstOf(s, wanted) \in Records \union {None}
  <2> DEFINE at == {i \in DOMAIN s : s[i] \in wanted}
  <2>1. at \in SUBSET Nat /\ \A i \in at : s[i] \in Records
    OBVIOUS
  <2>2. FirstOf(s, wanted) = IF at = {} THEN None ELSE s[Min(at)]
    BY DEF FirstOf
  <2> HIDE DEF at
  <2>3. at # {} => Min(at) \in at
    BY <2>1, MinIs
  <2>4. QED BY <2>1, <2>2, <2>3
<1>2. ASSUME NEW s \in Seq(Records), NEW t \in Seq(Records), NEW wanted
      PROVE  FirstFound(s, t, wanted) \in Records \union {None}
  BY <1>1 DEF FirstFound
<1>3. stream \in Seq(Records) /\ snapshots \in Seq(Records)
  BY DEF TypeOK
<1>4. QED BY <1>2, <1>3 DEF FinalRecord, LiveRecord, RehearsalRecord

\* The attestor starts with nothing written.
LEMMA InitIInv == Init => IInv
<1> SUFFICES ASSUME Init PROVE IInv
  OBVIOUS
<1>1. TypeOK
  <2>1. NoAnswers \in [Endpoints -> {"none", "true", "false"}]
    BY DEF NoAnswers
  <2>2. 0 \in 0 .. MaxStarts
    BY AttestorAssumption
  <2>3. <<>> \in Seq(Records) /\ <<>> \in Seq(Proofs) /\ <<>> \in Seq(Memos)
    OBVIOUS
  <2>4. /\ stream \in Seq(Records) /\ snapshots \in Seq(Records) /\ proofs \in Seq(Proofs)
        /\ chain \in Seq(Memos)
    BY <2>3 DEF Init
  <2>5. serving \subseteq Endpoints /\ answers \in [Endpoints -> {"none", "true", "false"}]
    BY <2>1 DEF Init
  <2>6. QED BY <2>2, <2>4, <2>5 DEF Init, TypeOK, Idle
<1>2. WorkInv
  BY DEF Init, WorkInv, NoAnswers, HasRecord, HasProof, IsChecked
<1>3. PaperInv
  BY DEF Init, PaperInv, MayMemo, MemoIsTrue
<1>4. QED BY <1>1, <1>2, <1>3 DEF IInv

-----------------------------------------------------------------------------
\* Leaving an iteration, or going on within one.

\* Its locals are dropped, so nothing is left to say about them.
LEMMA LeaveKeeps ==
    ASSUME IInv, NEW s \in Idle \union {"sleep"}, Leave(s),
           UNCHANGED <<captured, rpc, memoTool>>
    PROVE  IInv'
<1>1. NoAnswers \in [Endpoints -> {"none", "true", "false"}]
  BY DEF NoAnswers
<1>2. TypeOK'
  BY <1>1 DEF IInv, TypeOK, Leave, captured, rpc, memoTool
<1>3. WorkInv'
  BY DEF Leave, WorkInv, NoAnswers, Idle, HasRecord, HasProof, IsChecked, HasAnswers
<1>4. PaperInv'
  BY DEF IInv, Leave, PaperInv, MayMemo, Tells, MemoIsTrue, memoTool
<1>5. QED BY <1>2, <1>3, <1>4 DEF IInv

\* A poll that fails or is retried leaves the invariant alone.
LEMMA RetryKeeps ==
    ASSUME IInv, Retry, UNCHANGED <<captured, rpc, memoTool>>
    PROVE  IInv'
<1>1. Leave("sleep") \/ Leave("failed")
  BY DEF Retry, RehearsalFails
<1>2. QED BY <1>1, LeaveKeeps DEF Idle

\* While the manifest and the memo tool rest, the papers stay true.
LEMMA PapersRest ==
    ASSUME PaperInv, UNCHANGED manifest, UNCHANGED memoTool
    PROVE  PaperInv'
BY DEF PaperInv, MayMemo, Tells, MemoIsTrue, memoTool

-----------------------------------------------------------------------------

\* Each step of the process keeps the invariant.
LEMMA ProcessIInv == IInv /\ Process => IInv'
<1> SUFFICES ASSUME IInv, Process PROVE IInv'
  OBVIOUS
<1> USE DEF IInv
<1>1. CASE Wake
  <2>1. TypeOK'
    BY <1>1 DEF Wake, Goto, TypeOK, captured, rpc, memoTool
  <2>2. WorkInv'
    BY <1>1 DEF Wake, Goto, WorkInv, rpc, Verifies, HasRecord, HasProof, IsChecked, HasAnswers
  <2>3. QED BY <1>1, <2>1, <2>2, PapersRest DEF Wake, Goto
<1>2. CASE Poll
  <2>1. CASE PastDeadline /\ Leave("deadline")
    BY <1>2, <2>1, LeaveKeeps DEF Poll, Idle
  <2>2. CASE Retry
    BY <1>2, <2>2, RetryKeeps DEF Poll
  <2>3. CASE /\ FinalRecord # None /\ record' = FinalRecord /\ pc' = "proof"
             /\ UNCHANGED <<mode, proof, answers, manifest, starts>>
    <3>1. pc = "poll" /\ UNCHANGED <<captured, rpc, memoTool>>
      BY <1>2 DEF Poll
    <3>2. record' \in Records
      BY <2>3, RecordFacts
    <3>3. TypeOK'
      BY <2>3, <3>1, <3>2 DEF TypeOK, captured, rpc, memoTool
    <3>4. WorkInv'
      BY <2>3, <3>1, <3>2 DEF WorkInv, rpc, Verifies, HasRecord, HasProof, IsChecked, HasAnswers
    <3>5. QED BY <2>3, <3>1, <3>3, <3>4, PapersRest
  <2>4. QED BY <1>2, <2>1, <2>2, <2>3 DEF Poll
<1>3. CASE FindProof
  <2>1. CASE Retry
    BY <1>3, <2>1, RetryKeeps DEF FindProof
  <2>2. ASSUME NEW i \in DOMAIN proofs, CapturedAt(i), proof' = proofs[i], pc' = "check",
               UNCHANGED <<mode, record, answers, manifest, starts>>
        PROVE  IInv'
    <3>1. pc = "proof" /\ UNCHANGED <<captured, rpc, memoTool>>
      BY <1>3 DEF FindProof
    <3>2. proof' \in Proofs /\ proof'.seq = record.seq
      BY <2>2 DEF TypeOK, CapturedAt, Matching
    <3>3. TypeOK'
      BY <2>2, <3>1, <3>2 DEF TypeOK, captured, rpc, memoTool
    <3>4. answers = NoAnswers /\ record \in Records
      BY <3>1 DEF WorkInv, HasRecord, HasAnswers
    <3>5. WorkInv'
      BY <2>2, <3>1, <3>2, <3>4 DEF WorkInv, rpc, NoAnswers, HasRecord, HasProof, IsChecked,
                                    HasAnswers
    <3>6. QED BY <2>2, <3>1, <3>3, <3>5, PapersRest
  <2>3. QED BY <1>3, <2>1, <2>2 DEF FindProof
<1>4. CASE Check
  <2>1. CASE Retry
    BY <1>4, <2>1, RetryKeeps DEF Check
  <2>2. CASE Consistent /\ Goto("roots")
    <3>1. pc = "check" /\ UNCHANGED <<captured, rpc, memoTool>>
      BY <1>4 DEF Check
    <3>2. TypeOK'
      BY <2>2, <3>1 DEF Goto, TypeOK, captured, rpc, memoTool
    <3>3. WorkInv'
      BY <2>2, <3>1 DEF Goto, WorkInv, Consistent, rpc, Verifies, HasRecord, HasProof,
                        IsChecked, HasAnswers
    <3>4. QED BY <2>2, <3>1, <3>2, <3>3, PapersRest DEF Goto
  <2>3. QED BY <1>4, <2>1, <2>2 DEF Check
<1>5. CASE ReadRoots
  <2>1. CASE Retry
    BY <1>5, <2>1, RetryKeeps DEF ReadRoots
  <2>2. CASE Goto("primary")
    <3>1. pc = "roots" /\ UNCHANGED <<captured, rpc, memoTool>>
      BY <1>5 DEF ReadRoots
    <3>2. TypeOK'
      BY <2>2, <3>1 DEF Goto, TypeOK, Endpoints, captured, rpc, memoTool
    <3>3. WorkInv'
      BY <2>2, <3>1 DEF Goto, WorkInv, Consistent, rpc, Verifies, HasRecord, HasProof,
                        IsChecked, HasAnswers
    <3>4. QED BY <2>2, <3>1, <3>2, <3>3, PapersRest DEF Goto
  <2>3. QED BY <1>5, <2>1, <2>2 DEF ReadRoots
<1>6. ASSUME NEW e \in Endpoints, View(e) PROVE IInv'
  <2>1. CASE Retry
    BY <1>6, <2>1, RetryKeeps DEF View
  <2>2. ASSUME NEW a \in {"true", "false"},
               \/ e \in lying
               \/ e \in serving /\ (a = "true" <=> Verifies(proof)),
               answers' = [answers EXCEPT ![e] = a], pc' = NextStep(e),
               UNCHANGED <<mode, record, proof, manifest, starts>>
        PROVE  IInv'
    <3>1. pc = e /\ UNCHANGED <<captured, rpc, memoTool>>
      BY <1>6 DEF View
    <3>2. pc' \in {"secondary", "write"}
      BY <2>2 DEF NextStep
    <3>3. pc \in IsChecked
      BY <3>1 DEF Endpoints, HasRecord, HasProof, IsChecked
    <3>4. TypeOK'
      BY <2>2, <3>1, <3>2 DEF TypeOK, Endpoints, captured, rpc, memoTool
    <3>5. \A x \in Endpoints \ lying : answers'[x] = "true" => Verifies(proof)
      BY <2>2 DEF TypeOK, WorkInv
    <3>6. WorkInv'
      BY <2>2, <3>1, <3>2, <3>3, <3>5
         DEF WorkInv, Consistent, rpc, Verifies, HasRecord, HasProof, IsChecked, HasAnswers
    <3>7. QED BY <2>2, <3>1, <3>4, <3>6, PapersRest
  <2>3. QED BY <1>6, <2>1, <2>2 DEF View
<1>7. CASE WriteEvidence
  <2>1. /\ pc = "write" /\ manifest' = Manifest /\ pc' \in {"passed", "sleep", "failed"}
        /\ record' = None /\ proof' = None /\ answers' = NoAnswers
        /\ UNCHANGED <<captured, rpc, mode, starts, memoTool>>
    BY <1>7 DEF WriteEvidence
  <2>2. manifest' \in Manifests /\ (manifest'.allTrue => Tells(manifest'))
    BY <2>1, ManifestFacts
  <2>3. NoAnswers \in [Endpoints -> {"none", "true", "false"}]
    BY DEF NoAnswers
  <2>4. TypeOK'
    BY <2>1, <2>2, <2>3 DEF TypeOK, Idle, captured, rpc, memoTool
  <2>5. WorkInv'
    BY <2>1 DEF WorkInv, NoAnswers, HasRecord, HasProof, IsChecked, HasAnswers
  <2>6. PaperInv'
    BY <2>1, <2>2 DEF PaperInv, MayMemo, Tells, MemoIsTrue, memoTool
  <2>7. QED BY <2>4, <2>5, <2>6
<1>8. QED BY <1>1, <1>2, <1>3, <1>4, <1>5, <1>6, <1>7 DEF Process, Endpoints

\* So does what happens around it: a capture, an expiry, an endpoint's answer.
LEMMA EnvironmentIInv == IInv /\ Environment => IInv'
<1> SUFFICES ASSUME IInv, Environment PROVE IInv'
  OBVIOUS
<1> USE DEF IInv
<1>1. CASE Capture
  <2>1. /\ stream' \in Seq(Records) /\ snapshots' \in Seq(Records) /\ proofs' \in Seq(Proofs)
        /\ UNCHANGED <<rpc, pipeline, memoTool>>
    <3>1. stream \in Seq(Records) /\ snapshots \in Seq(Records) /\ proofs \in Seq(Proofs)
      BY DEF TypeOK
    <3>2. \/ /\ \E r \in Records : stream' = Append(stream, r)
             /\ UNCHANGED <<snapshots, proofs>>
          \/ /\ \E r \in Records : snapshots' = Append(snapshots, r)
             /\ UNCHANGED <<stream, proofs>>
          \/ /\ \E p \in Proofs : proofs' = Append(proofs, p)
             /\ UNCHANGED <<stream, snapshots>>
      BY <1>1 DEF Capture
    <3>3. UNCHANGED <<rpc, pipeline, memoTool>>
      BY <1>1 DEF Capture
    <3>4. \A S : \A f \in Seq(S), x \in S : Append(f, x) \in Seq(S)
      OBVIOUS
    <3>5. stream' \in Seq(Records) /\ snapshots' \in Seq(Records) /\ proofs' \in Seq(Proofs)
      BY <3>1, <3>2, <3>4, Zenon
    <3>6. QED BY <3>3, <3>5
  <2>2. TypeOK'
    BY <2>1 DEF TypeOK, rpc, pipeline, memoTool
  <2>3. WorkInv'
    BY <2>1 DEF WorkInv, Consistent, Verifies, rpc, pipeline
  <2>4. QED BY <2>1, <2>2, <2>3, PapersRest DEF pipeline
<1>2. ASSUME NEW e \in Endpoints, Serve(e) PROVE IInv'
  <2>1. /\ serving' \subseteq Endpoints
        /\ UNCHANGED <<captured, lying, expired, pipeline, memoTool>>
    BY <1>2 DEF Serve, TypeOK
  <2>2. TypeOK'
    BY <2>1 DEF TypeOK, captured, pipeline, memoTool
  <2>3. WorkInv'
    BY <2>1 DEF WorkInv, Consistent, Verifies, pipeline
  <2>4. QED BY <2>1, <2>2, <2>3, PapersRest DEF pipeline
<1>3. CASE Expire
  <2>1. expired' \in BOOLEAN /\ UNCHANGED <<captured, serving, lying, pipeline, memoTool>>
    BY <1>3 DEF Expire
  <2>2. TypeOK'
    BY <2>1 DEF TypeOK, captured, pipeline, memoTool
  <2>3. WorkInv'
    BY <2>1 DEF WorkInv, Consistent, Verifies, pipeline
  <2>4. QED BY <2>1, <2>2, <2>3, PapersRest DEF pipeline
<1>4. QED BY <1>1, <1>2, <1>3 DEF Environment

\* So do a start, a kill, and the memo built, broadcast and confirmed by hand.
LEMMA OperatorIInv == IInv /\ Operator => IInv'
<1> SUFFICES ASSUME IInv, Operator PROVE IInv'
  OBVIOUS
<1> USE DEF IInv
<1>1. CASE Start
  <2>1. /\ pc \in Idle /\ pc' = "poll" /\ starts' \in 0 .. MaxStarts
        /\ UNCHANGED <<captured, rpc, mode, record, proof, answers, manifest, memoTool>>
    BY <1>1, AttestorAssumption DEF Start, TypeOK
  <2>2. TypeOK'
    BY <2>1 DEF TypeOK, captured, rpc, memoTool
  <2>3. WorkInv'
    BY <2>1 DEF WorkInv, Idle, rpc, Verifies, HasRecord, HasProof, IsChecked, HasAnswers
  <2>4. QED BY <2>1, <2>2, <2>3, PapersRest
<1>2. CASE Kill
  BY <1>2, LeaveKeeps DEF Kill, Idle
<1>3. ASSUME BuildMemo \/ Broadcast \/ Confirm
      PROVE  IInv'
  <2>1. UNCHANGED <<captured, rpc, pipeline>>
    BY <1>3 DEF BuildMemo, Broadcast, Confirm
  <2>2. WorkInv'
    BY <2>1 DEF WorkInv, Consistent, Verifies, rpc, pipeline
  <2>3. /\ memoPc' \in {"off", "built", "landed"} /\ memo' \in Memos \union {None}
        /\ memoPc' # "off" => memo' \in Memos /\ Tells(memo')
    <3>1. CASE BuildMemo
      <4>1. PICK s \in (DOMAIN chain) \union {None} : memo' = MemoOf(manifest, s)
        BY <3>1 DEF BuildMemo
      <4>2. manifest \in Manifests /\ Tells(manifest) /\ s \in Nat \union {None}
        BY <3>1 DEF BuildMemo, MayMemo, TypeOK, PaperInv
      <4>3. memo' \in Memos /\ Tells(memo')
        BY <4>1, <4>2, MemoFacts
      <4>4. QED BY <3>1, <4>3 DEF BuildMemo
    <3>2. CASE Broadcast
      BY <3>2 DEF Broadcast, TypeOK, PaperInv, Tells
    <3>3. CASE Confirm
      BY <3>3 DEF Confirm
    <3>4. QED BY <1>3, <3>1, <3>2, <3>3
  <2>4. \/ chain' = chain
        \/ chain' = Append(chain, memo) /\ memo \in Memos /\ Tells(memo)
    BY <1>3 DEF BuildMemo, Broadcast, Confirm, PaperInv
  <2>5. chain' \in Seq(Memos) /\ MemoIsTrue'
    <3>1. CASE chain' = chain
      BY <3>1 DEF TypeOK, PaperInv, MemoIsTrue
    <3>2. CASE chain' = Append(chain, memo) /\ memo \in Memos /\ Tells(memo)
      <4>1. chain \in Seq(Memos)
        BY DEF TypeOK
      <4>2. /\ chain' \in Seq(Memos) /\ DOMAIN chain' = 1 .. Len(chain) + 1
            /\ \A i \in 1 .. Len(chain) : chain'[i] = chain[i]
            /\ chain'[Len(chain) + 1] = memo /\ DOMAIN chain = 1 .. Len(chain)
        BY <3>2, <4>1
      <4>3. \A i \in DOMAIN chain : Tells(chain[i])
        BY DEF PaperInv, MemoIsTrue, Tells
      <4>4. \A i \in DOMAIN chain' : i \in DOMAIN chain \/ i = Len(chain) + 1
        BY <4>1, <4>2
      <4>5. \A i \in DOMAIN chain' : Tells(chain'[i])
        BY <3>2, <4>2, <4>3, <4>4
      <4>6. QED BY <4>2, <4>5 DEF MemoIsTrue, Tells
    <3>3. QED BY <2>4, <3>1, <3>2
  <2>6. TypeOK'
    BY <2>1, <2>3, <2>5 DEF TypeOK, captured, rpc, pipeline
  <2>7. PaperInv'
    BY <2>1, <2>3, <2>5 DEF PaperInv, MayMemo, Tells, pipeline
  <2>8. QED BY <2>2, <2>6, <2>7
<1>4. QED BY <1>1, <1>2, <1>3 DEF Operator

\* The invariant is inductive.
LEMMA NextIInv == IInv /\ [Next]_vars => IInv'
<1>1. ASSUME IInv, UNCHANGED vars PROVE IInv'
  <2>1. TypeOK'
    BY <1>1 DEF IInv, TypeOK, vars, captured, rpc, pipeline, memoTool
  <2>2. WorkInv'
    BY <1>1 DEF IInv, WorkInv, Consistent, Verifies, vars, rpc, pipeline
  <2>3. PaperInv'
    BY <1>1, PapersRest DEF IInv, vars, pipeline
  <2>4. QED BY <2>1, <2>2, <2>3 DEF IInv
<1>2. QED BY <1>1, ProcessIInv, EnvironmentIInv, OperatorIInv DEF Next

\* The inductive invariant holds always.
THEOREM AttestorInvariant == Spec => []IInv
<1>1. QED BY InitIInv, NextIInv, PTL DEF Spec

\* Every file and variable keeps its type.
THEOREM AttestorTypeCorrect == Spec => []TypeOK
<1>1. IInv => TypeOK
  BY DEF IInv
<1>2. QED BY <1>1, AttestorInvariant, PTL

\* Whatever one endpoint answers, and however often the programs are stopped,
\* started and fed with corrections, a memo on the chain tells the committed
\* fixture and result of the event its instruction proves, and its bundle's record
\* agrees.
THEOREM MemosAreTrue == Spec => []MemoIsTrue
<1>1. IInv => MemoIsTrue
  BY DEF IInv, PaperInv
<1>2. QED BY <1>1, AttestorInvariant, PTL

=============================================================================
