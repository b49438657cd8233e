--------------------------- MODULE MCVaaVerifiers ---------------------------
(***************************************************************************)
(* Four guardians, quorum three.  Of three bodies every VAA of up to three *)
(* signatures over those that exist is submitted, at their own slot, at a  *)
(* wrong one, out of bounds: the canonical body, which all four guardians  *)
(* signed (some VAAs of it have four signatures), one with the same        *)
(* sequence and another score, which three did, and one two guardians and  *)
(* an outsider signed.  The other bodies are well signed, and wrong in one *)
(* way or in several, or an outcome too many.  Among the run's files       *)
(* everything is changed that must be changed to tell another score or     *)
(* time consistently.  The registry hears the other lane too; a third VAA  *)
(* is one of a few, mostly well signed.                                    *)
(***************************************************************************)
EXTENDS VaaVerifiers

CONSTANTS k0, k1, k2, k3, outsider

MCGuardianSet == (0 :> k0) @@ (1 :> k1) @@ (2 :> k2) @@ (3 :> k3)

Record(score, time) ==
    [fixture |-> "fixture", score |-> score, names |-> "teams", period |-> 4,
     sequence |-> 3, time |-> time]

Instruction(score) == [fixture |-> "fixture", score |-> score, period |-> 4]

Proof(data, root) == [data |-> data, root |-> root]

True == Record(<<2, 1>>, "t0")
Forged == Record(<<3, 1>>, "t0")
Later == Record(<<2, 1>>, "t1")
Third == Record(<<0, 0>>, "t0")

Body(sequence, payload) ==
    [chain |-> SourceChain, emitter |-> RegisteredEmitter, sequence |-> sequence,
     payload |-> payload]

Told(record, root) == Encode(record, Proof("data", root), Instruction(record.score))

canonical == Body(3, Told(True, "root"))
forged == Body(3, Told(Forged, "root"))
unsupported == Body(5, [Told(True, "other root") EXCEPT !.fixture = "other fixture"])

\* Well signed, and each wrong in its way; or right, and a second or third outcome
\* of the fixture, or another fixture's.
OtherBodies ==
    { [canonical EXCEPT !.chain = "ethereum"],
      [canonical EXCEPT !.emitter = None],
      [canonical EXCEPT !.emitter = None, !.payload.malformed = {"version"},
                        !.sequence = 4],
      [canonical EXCEPT !.payload.malformed = {"magic", "result"}],
      [canonical EXCEPT !.payload.malformed = {"type"}, !.payload.destination = "elsewhere"],
      [canonical EXCEPT !.payload.destination = "elsewhere"],
      [canonical EXCEPT !.payload.score = <<3, 1>>],
      Body(4, Told(True, "root")),
      Body(4, Told(Forged, "root")),
      Body(6, Told(Third, "root")),
      Body(7, [Told(True, "root") EXCEPT !.fixture = "other fixture"]),
      Body(3, Told(Later, "root")) }

MCBodies == OtherBodies \union {canonical, forged, unsupported}

MCSigned ==
    ({k0, k1, k2, k3} \X {canonical}) \union ({k0, k1, k3} \X {forged})
        \union ({outsider, k2, k3} \X {unsupported}) \union ({k0, k1, k2} \X OtherBodies)

Sig(g, k, b) == [guardianIndex |-> g, key |-> k, over |-> b]

SignaturesFor(b) ==
    { Sig(g, MCGuardianSet[g], b) : g \in {h \in 0 .. 3 : <<MCGuardianSet[h], b>> \in MCSigned} }
    \union CASE b = canonical -> { Sig(3, k2, canonical), Sig(4, k2, canonical) }
             [] b = forged -> { Sig(2, k2, canonical), Sig(2, k3, forged) }
             [] b = unsupported -> { Sig(1, outsider, unsupported), Sig(0, k0, canonical) }

Arrangements ==
    UNION { [body : {b},
             signatures : UNION {[1 .. n -> SignaturesFor(b)] :
                                 n \in IF b = canonical THEN 0 .. 3 ELSE 2 .. 3}] :
            b \in {canonical, forged, unsupported} }

\* The last signature is another body's.
Borrowed ==
    [SignVaa(canonical, {0, 1, 2}) EXCEPT !.vaa.signatures[3] = Sig(2, k3, forged)]

Unsigned == [SignVaa(canonical, {0, 1, 2}) EXCEPT !.vaa.body.payload.score = <<3, 1>>]

\* All guardians sign, and one of them twice, in his slot or beyond the last.
FourSignatures ==
    { [body |-> canonical,
       signatures |-> SignVaa(canonical, {0, 1, 2}).vaa.signatures \o <<sig>>] :
      sig \in {Sig(3, k3, canonical), Sig(2, k2, canonical), Sig(4, k2, canonical)} }

Signings ==
    {SignVaa(b, {0, 1, 2}) : b \in OtherBodies} \union {Unsigned, Borrowed}

MCVaas == Arrangements \union FourSignatures \union {w.vaa : w \in Signings}

\* The last three have a signature whose recovery byte is out of range.
MCWires ==
    [defect : {"none"}, garbled : {0}, vaa : MCVaas]
        \union [defect : Defects \ {"none"}, garbled : {0}, vaa : {SignVaa(canonical, {0, 1, 2}).vaa}]
        \union { [SignVaa(b, s) EXCEPT !.garbled = k] :
                 b \in {canonical}, s \in {{0}, {0, 1, 2}}, k \in {1} }
        \union { [SignVaa(canonical, {0, 1, 2}) EXCEPT !.garbled = 3] }

Report(id, simulated, hashes) == [id |-> id, simulated |-> simulated, hashes |-> hashes]

MCRecorded ==
    [record |-> True, proof |-> Proof("data", "root"), instruction |-> Instruction(<<2, 1>>),
     vaa |-> SignVaa(canonical, {0, 1, 2}),
     level3 |-> Report(IdOf(canonical), TRUE, {"sim"}),
     level4 |-> Report(IdOf(canonical), FALSE, {"0x"}),
     manifest |-> [id |-> IdOf(canonical), ordered |-> TRUE]]

Put(file, contents) == [file : {file}, content : contents]

MCEdits ==
    UNION { Put("record", {Forged, Later}),
            Put("proof", {Proof("other data", "root"), Proof("data", "other root")}),
            Put("instruction", {Instruction(<<3, 1>>)}),
            Put("vaa", {SignVaa(forged, {0, 1, 3}), SignVaa(Body(3, Told(Later, "root")), {0, 1, 2}),
                        SignVaa([canonical EXCEPT !.chain = "ethereum"], {0, 1, 2}), Unsigned,
                        Borrowed}),
            Put("level3", {Report(IdOf(forged), TRUE, {"sim"}), Report(IdOf(canonical), TRUE, {"0x"})}),
            Put("level4", {Report(IdOf(forged), FALSE, {"0x"}),
                           Report(IdOf(canonical), TRUE, {"sim", "0x"})}),
            Put("manifest", {[id |-> IdOf(forged), ordered |-> TRUE],
                             [id |-> IdOf(canonical), ordered |-> FALSE]}) }

\* For longer histories: the canonical body in two forms, outcomes that follow it
\* and some VAAs the core refuses.
MCHistoryWires ==
    {SignVaa(b, {0, 1, 2}) : b \in {canonical} \union { c \in OtherBodies : c.sequence > 3 }}
        \union {SignVaa(canonical, {1, 2, 3}), SignVaa(forged, {0, 1, 3}), Unsigned, Borrowed}

\* The other lane agrees, or it contradicts.
MCLevel3Reports ==
    { [fixture |-> "fixture", lane |-> "level3", id |-> IdOf(b)] : b \in {canonical, forged} }

=============================================================================
