---------------------------- MODULE VaaVerifiers ----------------------------
(***************************************************************************)
(* Three programs judge the same VAA: WormholeOutcomeReceiver on Base, the *)
(* tamper lab's verifyLikeBase in the browser, which promises to be its    *)
(* mirror, and verify-evidence on the command line, which judges it with   *)
(* the other files of a run.                                               *)
(*                                                                         *)
(* Base runs step by step, its guardian check being module GuardianQuorum, *)
(* and ends in a report to the FinalityRegistry, whose refusal undoes it;  *)
(* the other two keep nothing and are operators.  Hashes are injective: a  *)
(* digest is what is hashed.  Of a score record and a proof only the parts *)
(* are kept that some check reads by themselves.                           *)
(***************************************************************************)
EXTENDS GuardianQuorum, SequencesExt

CONSTANTS
    Wires,              \* the byte strings somebody may submit
    SourceChain,        \* SOURCE_CHAIN_SOLANA
    RegisteredEmitter,  \* registeredEmitter of the receiver
    OurChain,           \* ourChainId
    DemoEmitter,        \* DEMO_EMITTER
    DefaultGuardians,   \* defaultQuorumIndices
    Recorded,           \* the files of the run the conformance vector is of
    Edits,              \* [file, content]: what somebody may put in its place
    HistoryWires,       \* those of them that longer histories consist of
    MaxCertified,       \* bound: only HistoryWires once so many bodies were found valid
    MaxHistory,         \* bound: no call once so many were
    Level3Reports,      \* what the other lane may report to the registry
    None

\* What keeps bytes from being parsed.
Defects == {"none", "too short", "unsupported version", "truncated"}

\* A byte string: its defect, which signature has a recovery byte of 229 or more
\* (0: none), and what it says otherwise.
Wire ==
    { w \in [defect : Defects, garbled : Nat, vaa : Vaas] :
          w.garbled \in 0 .. Len(w.vaa.signatures) }

\* What can be wrong with a payload.
PayloadFaults == {"length", "magic", "version", "type", "result"}

RunFiles == {"record", "proof", "instruction", "vaa", "level3", "level4", "manifest"}

ScoreRecordFields == {"fixture", "score", "names", "period", "sequence", "time"}

\* What a file of a run holds is what its reader takes it for.
Readable(file, content) ==
    /\ file = "vaa" => content \in Wire
    /\ file = "record" => content = [field \in ScoreRecordFields |-> content[field]]

ASSUME VerifierAssumption ==
    /\ Wires \subseteq Wire /\ HistoryWires \subseteq Wires /\ None \notin Wire
    /\ \A v \in Vaas : v.body.payload.malformed \subseteq PayloadFaults
    /\ DefaultGuardians \subseteq Slots
    /\ Recorded = [file \in RunFiles |-> Recorded[file]]
    /\ \A file \in RunFiles : Readable(file, Recorded[file])
    /\ \A e \in Edits : e.file \in RunFiles /\ Readable(e.file, e.content)
    /\ MaxCertified \in Nat /\ MaxHistory \in Nat
    /\ \A r \in Level3Reports : r.lane = "level3"

VARIABLES
    submitted,   \* encodedVaa of the call, None when no call is running
    spent,       \* the bodies in consumedVaaHashes and, by sequence, consumedSequences
    stored,      \* attestation ids in _attestations
    delivered,   \* history: the byte strings Base took
    verdict,     \* how the last call ended: "" or the error
    wired,       \* setReporters was called, with this receiver as level4Receiver
    reports,     \* the reports the registry took: [fixture, lane, id]
    files        \* the run's files

receiverVars == <<spent, stored, delivered, verdict>>
registryVars == <<wired, reports>>
allVars == <<vars, submitted, receiverVars, registryVars, files>>

\* The first of a list of checks that is among the faults, "" if none is.
FirstOf(order, faults) ==
    LET failing == {k \in DOMAIN order : order[k] \in faults}
    IN  IF failing = {} THEN "" ELSE order[Min(failing)]

-----------------------------------------------------------------------------
\* The protocol library.

\* proofBundleHash and validationInstructionHash of the files of a run.  The
\* bundle holds no timestamp.
BundleHash(record, proof) == <<[record EXCEPT !.time = None], proof>>

InstructionHash(proof, instruction) == <<proof.root, instruction>>

\* encodeMatchOutcomeV1.
Encode(record, proof, instruction) ==
    [malformed |-> {}, destination |-> OurChain,
     fixture |-> record.fixture, sequence |-> record.sequence, time |-> record.time,
     period |-> record.period, score |-> record.score, root |-> proof.root,
     instructionHash |-> InstructionHash(proof, instruction),
     bundleHash |-> BundleHash(record, proof)]

AttestationId(emitter, outcome, instructionHash, bundleHash) ==
    <<emitter, outcome.fixture, outcome.sequence, instructionHash, bundleHash>>

IdOf(b) == AttestationId(b.emitter, b.payload, b.payload.instructionHash, b.payload.bundleHash)

\* decodeMatchOutcomeV1: the first thing wrong with a payload, "" for none.
PayloadOrder == <<"length", "magic", "version", "type", "result">>

Decode(payload) == FirstOf(PayloadOrder, payload.malformed)

\* [...indices].sort(): indices that occur once each, in ascending order.
Ascending(indices) ==
    CHOOSE order \in [1 .. Cardinality(indices) -> indices] :
        \A j, k \in DOMAIN order : j < k => order[j] < order[k]

\* signVaaWithDevGuardians: the keys are public, so anything can be signed.
SignVaa(b, indices) ==
    LET order == Ascending(indices)
    IN  [defect |-> "none", garbled |-> 0,
         vaa |-> [body |-> b,
                  signatures |-> [k \in DOMAIN order |->
                      [guardianIndex |-> order[k], key |-> guardianSet[order[k]], over |-> b]]]]

\* match-outcome-v1.json.
Vector ==
    [emitter |-> RegisteredEmitter,
     payload |-> Encode(Recorded.record, Recorded.proof, Recorded.instruction)]

\* The VAA of the recorded run carries the vector's payload.
ASSUME VectorAssumption == Recorded.vaa.vaa.body.payload = Vector.payload

\* gen-demo-run makes its VAA from the vector; it throws, and there is no demo
\* run, unless the emitters of the code, the vector and the deployment are one.
DemoConforms == DemoEmitter = Vector.emitter /\ RegisteredEmitter = Vector.emitter

DemoBody ==
    [chain |-> SourceChain, emitter |-> Vector.emitter,
     sequence |-> Vector.payload.sequence, payload |-> Vector.payload]

DemoVaa == SignVaa(DemoBody, DefaultGuardians)

\* defaultQuorumIndices is cut to GUARDIAN_QUORUM, the emitter the lab makes up is
\* not the registered one, and the recorded match did not end 3:1.
ASSUME DemoAssumption ==
    /\ Cardinality(DefaultGuardians) = Quorum /\ Quorum > 0
    /\ RegisteredEmitter # None
    /\ Recorded.record.score # <<3, 1>>

-----------------------------------------------------------------------------
\* The FinalityRegistry, as far as its refusals go.

ReportsOf(fixture) == {r \in reports : r.fixture = fixture}

\* FinalityStatus.Conflict, by whichever lanes.
Frozen(fixture) == \E r, s \in ReportsOf(fixture) : r.id # s.id

Finalized(fixture) ==
    ~Frozen(fixture) /\ \E r, s \in ReportsOf(fixture) : r.lane # s.lane

RegistryOrder == <<"NotReporter", "FixtureFrozen", "FixtureFinalized", "DuplicateReport">>

RegistryFaults(report) ==
    (IF ~wired THEN {"NotReporter"} ELSE {})
        \union (IF Frozen(report.fixture) THEN {"FixtureFrozen"} ELSE {})
        \union (IF Finalized(report.fixture) THEN {"FixtureFinalized"} ELSE {})
        \union (IF report \in reports THEN {"DuplicateReport"} ELSE {})

\* What _report reverts with, "" when it takes the report.
Refusal(report) == FirstOf(RegistryOrder, RegistryFaults(report))

\* The receiver's report of a VAA with body b.
Level4Report(b) == [fixture |-> b.payload.fixture, lane |-> "level4", id |-> IdOf(b)]

\* setReporters, which works once.
SetReporters ==
    /\ submitted = None /\ ~wired
    /\ wired' = TRUE
    /\ UNCHANGED <<vars, submitted, receiverVars, reports, files>>

\* The other lane's receiver reports.
ReportLevel3(report) ==
    /\ submitted = None /\ Refusal(report) = ""
    /\ reports' = reports \union {report}
    /\ UNCHANGED <<vars, submitted, receiverVars, wired, files>>

-----------------------------------------------------------------------------
\* Base: parseAndVerifyVM, then _consumeVaa.

\* Of an edited run only its own VAA is of interest.
Submittable ==
    {files.vaa} \union
        IF files # Recorded THEN {}
        ELSE IF Cardinality(certified) < MaxCertified THEN Wires ELSE HistoryWires

CallBase(w) ==
    /\ submitted = None
    /\ Cardinality(certified) < MaxHistory
    /\ submitted' = w
    /\ IF w.defect = "none" /\ w.garbled = 0
       THEN Call(w.vaa) /\ verdict' = "running"
       ELSE UNCHANGED vars /\ verdict' = "unparsed"
    /\ UNCHANGED <<spent, stored, delivered, registryVars, files>>

\* _parseVM reverts: BadVaa, or an arithmetic panic where it adds 27 to the
\* recovery byte.
Unparsed ==
    /\ submitted # None /\ verdict = "unparsed"
    /\ submitted' = None
    /\ verdict' = IF submitted.defect # "none" THEN "BadVaa" ELSE "Panic"
    /\ UNCHANGED <<vars, spent, stored, delivered, registryVars, files>>

CoreStep ==
    /\ verdict = "running" /\ pc # "idle"
    /\ NoQuorum \/ EnterLoop \/ CheckSignature \/ Accept
    /\ UNCHANGED <<submitted, receiverVars, registryVars, files>>

ReceiverOrder ==
    <<"WrongEmitterChain", "WrongEmitter", "length", "magic", "version", "type", "result",
      "WrongDestinationChain", "VaaAlreadyConsumed", "SequenceAlreadyConsumed",
      "DuplicateOutcome">>

OriginFaults(b) ==
    (IF b.chain # SourceChain THEN {"WrongEmitterChain"} ELSE {})
        \union (IF b.emitter # RegisteredEmitter THEN {"WrongEmitter"} ELSE {})
        \union b.payload.malformed
        \union (IF b.payload.destination # OurChain THEN {"WrongDestinationChain"} ELSE {})

ReplayFaults(b) ==
    (IF b \in spent THEN {"VaaAlreadyConsumed"} ELSE {})
        \union (IF \E c \in spent : c.sequence = b.sequence THEN {"SequenceAlreadyConsumed"}
                ELSE {})

\* The receiver holds an outcome of the fixture.
Known(fixture) == \E id \in stored : id[2] = fixture

\* Bug variant: the second outcome of a fixture is taken for a duplicate.
FaultsByFixture(b) ==
    OriginFaults(b) \union ReplayFaults(b)
        \union (IF Known(b.payload.fixture) THEN {"DuplicateOutcome"} ELSE {})

Faults(b) ==
    OriginFaults(b) \union ReplayFaults(b)
        \union (IF IdOf(b) \in stored THEN {"DuplicateOutcome"} ELSE {})

\* The rest of _consumeVaa: the VAA is used up, the first outcome of a fixture is
\* stored, and the outcome is reported to the registry, a conflicting one too.  An
\* error undoes everything, the registry's as well as the receiver's.
Consume ==
    /\ verdict = "running" /\ pc = "idle"
    /\ submitted' = None
    /\ LET b == submitted.vaa.body
           fault == FirstOf(ReceiverOrder, Faults(b))
           error == IF reason # "" THEN reason
                    ELSE IF fault # "" THEN fault
                    ELSE Refusal(Level4Report(b))
       IN  /\ verdict' = error
           /\ IF error # "" THEN UNCHANGED <<spent, stored, delivered, reports>>
              ELSE /\ spent' = spent \union {b}
                   /\ stored' = IF Known(b.payload.fixture) THEN stored ELSE stored \union {IdOf(b)}
                   /\ delivered' = delivered \union {submitted}
                   /\ reports' = reports \union {Level4Report(b)}
    /\ UNCHANGED <<vars, wired, files>>

-----------------------------------------------------------------------------
\* The tamper lab.

\* Signature k of a VAA, in the order verifyLikeBase looks at it.
LabSignature(w, k) ==
    LET sigs == w.vaa.signatures
    IN  IF k > 1 /\ sigs[k].guardianIndex <= sigs[k - 1].guardianIndex
        THEN "signature indices out of order"
        ELSE IF sigs[k].guardianIndex >= Guardians THEN "guardian index out of bounds"
        ELSE IF k = w.garbled \/ sigs[k].over # w.vaa.body
                 \/ sigs[k].key # guardianSet[sigs[k].guardianIndex]
        THEN "VM signature invalid"
        ELSE ""

LabCore(w) ==
    LET bad == {k \in DOMAIN w.vaa.signatures : LabSignature(w, k) # ""}
    IN  IF Len(w.vaa.signatures) < Quorum THEN "no quorum"
        ELSE IF bad # {} THEN LabSignature(w, Min(bad))
        ELSE ""

LabOrder ==
    <<"WrongEmitterChain", "WrongEmitter">> \o PayloadOrder
        \o <<"WrongDestinationChain", "VaaAlreadyConsumed">>

\* The replay check goes by the hash of all the bytes, signatures included.
LabFaults(w, consumed) ==
    LET b == w.vaa.body
    IN  (IF b.chain # SourceChain THEN {"WrongEmitterChain"} ELSE {})
            \union (IF b.emitter # RegisteredEmitter THEN {"WrongEmitter"} ELSE {})
            \union (IF Decode(b.payload) # "" THEN {Decode(b.payload)} ELSE {})
            \union (IF b.payload.destination # OurChain THEN {"WrongDestinationChain"} ELSE {})
            \union (IF w \in consumed THEN {"VaaAlreadyConsumed"} ELSE {})

\* verifyLikeBase: the error, "" when it accepts.
VerifyLikeBase(w, consumed) ==
    IF w.defect # "none" THEN w.defect
    ELSE IF LabCore(w) # "" THEN LabCore(w)
    ELSE FirstOf(LabOrder, LabFaults(w, consumed))

\* The scenarios of the page: what is submitted, the VAAs Base is said to have
\* consumed, and the error the page announces.
Scenario(w, consumed, expected) ==
    [vaa |-> w, consumed |-> consumed, expected |-> expected]

\* Bug variant: the score is raised before the guardians sign.
TamperedBeforeSigning ==
    SignVaa([DemoBody EXCEPT !.payload.score = <<3, 1>>], DefaultGuardians)

\* A score raised behind the guardians' back.
Tampered ==
    [DemoVaa EXCEPT !.vaa.body.payload.score = <<3, 1>>]

BuildScenarios ==
    IF ~DemoConforms THEN {}
    ELSE { Scenario(DemoVaa, {}, ""),
           Scenario(Tampered, {}, "VM signature invalid"),
           Scenario(SignVaa(DemoBody, DefaultGuardians \ {Max(DefaultGuardians)}), {}, "no quorum"),
           Scenario(SignVaa([DemoBody EXCEPT !.emitter = None], DefaultGuardians), {}, "WrongEmitter"),
           Scenario(DemoVaa, {DemoVaa}, "VaaAlreadyConsumed") }

-----------------------------------------------------------------------------
\* verify-evidence.

\* Somebody changes a file of the run before its VAA is submitted.
Edit ==
    /\ submitted = None /\ certified = {}
    /\ \E e \in Edits : files' = [files EXCEPT ![e.file] = e.content]
    /\ verdict' = ""
    /\ UNCHANGED <<vars, submitted, spent, stored, delivered, registryVars>>

\* Bug variant: the timestamp is not compared, as no digest of the files has it.
PayloadMatchesTimeless(f, p) ==
    /\ p.fixture = f.record.fixture /\ p.sequence = f.record.sequence
    /\ p.period = f.record.period /\ p.score = f.record.score
    /\ p.root = f.proof.root

\* Check 4: the payload against the final record.
PayloadMatches(f, p) ==
    /\ p.fixture = f.record.fixture /\ p.sequence = f.record.sequence
    /\ p.time = f.record.time
    /\ p.period = f.record.period /\ p.score = f.record.score
    /\ p.root = f.proof.root

\* Bug variant: the signatures are counted and not recovered.
SignaturesCounted(w) == Len(w.vaa.signatures) >= Quorum

\* Check 5, whose index out of bounds is a fatal error.
SignaturesVerified(w) == LabCore(w) = ""

\* Check 7: what calls itself simulated has "sim:" hashes, of the report and, if
\* there is one, of the settlement.
Labelled(report) == report.simulated => report.hashes = {"sim"}

\* Exit status 0.
EvidencePasses(f) ==
    LET b == f.vaa.vaa.body
        p == b.payload
        bundle == BundleHash(f.record, f.proof)
        instruction == InstructionHash(f.proof, f.instruction)
        id == AttestationId(b.emitter, p, instruction, bundle)
    IN  /\ f.vaa.defect = "none" /\ Decode(p) = ""
        /\ p = Vector.payload
        /\ bundle = p.bundleHash
        /\ f.instruction = [fixture |-> f.record.fixture, score |-> f.record.score,
                            period |-> f.record.period]
        /\ instruction = p.instructionHash
        /\ PayloadMatches(f, p)
        /\ SignaturesVerified(f.vaa)
        /\ f.level3.id = id /\ f.level4.id = id /\ f.manifest.id = id
        /\ id = IdOf([emitter |-> Vector.emitter, payload |-> Vector.payload])
        /\ b.emitter = Vector.emitter
        /\ Labelled(f.level3) /\ Labelled(f.level4)
        /\ f.manifest.ordered

-----------------------------------------------------------------------------

VerifierInit ==
    /\ Init
    /\ submitted = None /\ verdict = ""
    /\ spent = {} /\ stored = {} /\ delivered = {}
    /\ wired = FALSE /\ reports = {}
    /\ files = Recorded

VerifierNext ==
    \/ \E w \in Submittable : CallBase(w)
    \/ Unparsed \/ CoreStep \/ Consume \/ Edit
    \/ SetReporters
    \/ \E report \in Level3Reports : ReportLevel3(report)

VerifierSpec == VerifierInit /\ [][VerifierNext]_allVars

-----------------------------------------------------------------------------
\* Properties.

Returns == submitted # None /\ submitted' = None

\* The error says that body b came before, as or in body c.
ReplayedBy(b, c, error) ==
    \/ error = "VaaAlreadyConsumed" /\ c = b
    \/ error = "SequenceAlreadyConsumed" /\ c.sequence = b.sequence
    \/ error = "DuplicateOutcome" /\ IdOf(c) = IdOf(b)

\* The lab never refuses what Base takes, and for a VAA that can be parsed it
\* names the very error Base reverts with, whichever checks fail together.  What
\* it lets through Base refuses for two reasons only: it took the same body signed
\* by others, the same sequence or the same attestation before (tamper.ts:168-170),
\* or the registry, of which the lab knows nothing, refuses the report.
LabAgreesWithBase ==
    [][ Returns =>
          LET b == submitted.vaa.body
              lab == VerifyLikeBase(submitted, delivered)
              parses == submitted.defect = "none" /\ submitted.garbled = 0
          IN  /\ lab # "" => verdict' # "" /\ (parses => verdict' = lab)
              /\ lab = "" =>
                     \/ verdict' = Refusal(Level4Report(b))
                     \/ \E d \in delivered \ {submitted} :
                           ReplayedBy(b, d.vaa.body, verdict') ]_allVars

\* Every scenario ends on Base, in the state it simulates, as its card announces,
\* and in the lab too; only the outcome that is to be accepted may still meet a
\* registry that is not wired or has closed its fixture.
ScenariosAsAnnounced ==
    [][ Returns =>
          \A s \in BuildScenarios : s.vaa = submitted /\ s.consumed = delivered =>
              /\ verdict' = IF s.expected # "" THEN s.expected
                            ELSE Refusal(Level4Report(submitted.vaa.body))
              /\ VerifyLikeBase(s.vaa, s.consumed) = s.expected ]_allVars

\* However many files of a run are changed together, verify-evidence passes only
\* if record, proof, instruction and payload are those the vector was made from:
\* the score cannot be changed consistently in all of them, guardians' signatures
\* included, nor a part that only one check covers (verify-evidence.ts:4-8).
ForgeryIsNoticed ==
    EvidencePasses(files) =>
        /\ files.record = Recorded.record /\ files.proof = Recorded.proof
        /\ files.instruction = Recorded.instruction
        /\ files.vaa.vaa.body.payload = Recorded.vaa.vaa.body.payload
        /\ files.level3.id = files.level4.id

\* A run's VAA that verify-evidence passes is one a fresh receiver has nothing
\* against, the source chain apart, which is not looked at; and what its registry
\* then says is about the registry.
EvidenceIsAcceptable ==
    [][ Returns /\ submitted = files.vaa /\ EvidencePasses(files) /\ spent = {} =>
          verdict' \in {"WrongEmitterChain", Refusal(Level4Report(submitted.vaa.body))} ]_allVars

=============================================================================
