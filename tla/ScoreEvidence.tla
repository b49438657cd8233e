---------------------------- MODULE ScoreEvidence ----------------------------
(***************************************************************************)
(* From TxLINE's events to what both lanes sign: the mapping of live       *)
(* events, the final record, the evidence bundle, the daily root, the      *)
(* transaction that the providers simulate and what counts as agreement.   *)
(* Each workflow computes all of it for itself.                            *)
(*                                                                         *)
(* Hashes are injective: the hash of the bundle is the bundle.  A          *)
(* transaction is its keys, its indices and its data; the byte layout is   *)
(* left out, and so is the fixture id, there being one match.              *)
(***************************************************************************)
EXTENDS Integers, Sequences, FiniteSets

CONSTANTS
    None,         \* nothing there, or an exception
    DayLength,    \* milliseconds of a day
    DailyRoot,    \* dailyRootPdaByEpochDay
    RootAccount,  \* fixture.rootAccount
    TxOracle      \* config.txoracleProgramId

ASSUME EvidenceAssumption ==
    /\ DayLength \in Nat \ {0}
    /\ DOMAIN DailyRoot \subseteq Nat
    /\ TxOracle # RootAccount

-----------------------------------------------------------------------------
\* Events.

\* A field that Data or Stats may carry.
Probe(field, default) == IF field = None THEN default ELSE field

\* A finalisation may arrive with the game still "scheduled" and with no data.
StatusId(ev) ==
    Probe(ev.statusId,
        IF ev.action = "game_finalised" \/ ev.gameState \in {"finished", "finalised"} THEN 100
        ELSE IF ev.gameState \in {"in_play", "live"} THEN 30 ELSE 0)

Period(ev) == Probe(ev.period, IF ev.action = "game_finalised" THEN 100 ELSE 0)

\* A score that is not there is nil.
MapScoreEvent(ev) ==
    [action |-> ev.action, statusId |-> StatusId(ev), period |-> Period(ev),
     sequence |-> ev.seq, time |-> ev.time,
     score |-> <<Probe(ev.score1, 0), Probe(ev.score2, 0)>>]

FetchFixtureState(events) == {MapScoreEvent(ev) : ev \in events}

IsFinal(r) == r.action = "game_finalised" /\ r.statusId = 100 /\ r.period = 100

\* The first final record in the order of sequence numbers, None if none is there.
FindFinalRecord(records) ==
    LET finals == {r \in records : IsFinal(r)}
    IN  IF finals = {} THEN None
        ELSE CHOOSE r \in finals : \A q \in finals : r.sequence <= q.sequence

-----------------------------------------------------------------------------
\* Digests.

\* Everything in the final record but its timestamp; the rest comes from the
\* recorded fixture.
BuildProofBundle(r) == [r EXCEPT !.time = None]

\* Throws for a day without a recorded root.
LookupDailyRootPda(r) ==
    LET day == r.time \div DayLength
    IN  IF day \in DOMAIN DailyRoot THEN DailyRoot[day] ELSE None

\* HOME, DRAW, AWAY.
ResultOf(score) == IF score[1] > score[2] THEN 1 ELSE IF score[1] = score[2] THEN 2 ELSE 3

-----------------------------------------------------------------------------
\* The simulated transaction.

BuildValidateStatV2Transaction(r, root) ==
    [keys |-> <<"payer", root, TxOracle>>, programIdIndex |-> 2, accounts |-> <<1>>,
     data |-> [score |-> r.score, period |-> r.period]]

DecodeValidateStatV2Transaction(tx) ==
    [program |-> tx.keys[tx.programIdIndex + 1], root |-> tx.keys[tx.accounts[1] + 1],
     data |-> tx.data]

\* The anti-spoofing assertions, over what is decoded from the bytes.
Spoofed(r, root) ==
    LET decoded == DecodeValidateStatV2Transaction(BuildValidateStatV2Transaction(r, root))
    IN  \/ decoded.program # TxOracle
        \/ LookupDailyRootPda(r) # root
        \/ LookupDailyRootPda(r) # decoded.root
        \/ decoded.data # [score |-> r.score, period |-> r.period]

\* What a provider answers is an error or not, the return data with the program
\* they come from, and the programs in the log.  The recorded responders answer:
RecordedSimulateResponse ==
    [err |-> FALSE, program |-> TxOracle, returned |-> <<1>>, invoked |-> {TxOracle}]

ExtractStableOutputs(response) ==
    [errIsNull |-> ~response.err, returnDataProgramId |-> response.program,
     returnsTrue |-> response.returned = <<1>>,
     unexpectedPrograms |-> response.invoked \ {TxOracle}]

StableOutputsAgree(outputs) ==
    /\ outputs.errIsNull /\ outputs.returnDataProgramId = TxOracle
    /\ outputs.returnsTrue /\ outputs.unexpectedPrograms = {}

=============================================================================
