--------------------------- MODULE BaseContracts ---------------------------
(***************************************************************************)
(* The Proofline stack on Base as contracts/base/script/Deploy.s.sol wires *)
(* it: CRELevel3Receiver and WormholeOutcomeReceiver report into the       *)
(* FinalityRegistry, DemoPredictionMarket settles from it.                 *)
(*                                                                         *)
(* A transaction is one step across all contracts it calls: when an inner  *)
(* call reverts, everything before it is rolled back, so a handler is the  *)
(* conjunction of its own guard and effect with the registry's Report.     *)
(*                                                                         *)
(* keccak256 is taken to be injective: a digest is the tuple of what is    *)
(* hashed (Compute, the body of a VAA).  Whether a VAA carries a guardian  *)
(* quorum is its field "signed" (module GuardianQuorum computes it).       *)
(***************************************************************************)
EXTENDS FinalityRegistry

CONSTANTS
    Accounts,           \* accounts that own contracts and send transactions
    Level3Address,      \* address of the CRELevel3Receiver
    Level4Address,      \* address of the WormholeOutcomeReceiver
    InitialForwarder,   \* forwarder constructor argument of both receivers
    Reports,            \* the CRE reports some forwarder may deliver
    Vaas,               \* the VAAs somebody may hold
    SourceChain,        \* SOURCE_CHAIN_SOLANA
    RegisteredEmitter,  \* registeredEmitter
    OurChain,           \* ourChainId
    MarketFixture,      \* fixtureId of the market
    Escrow              \* wei paid in by the market's constructor

\* keccak256 of the fixed-width fields; a bundle stands for the score sequence,
\* the validation-instruction hash and the proof-bundle hash.
Compute(emitter, fixture, bundle) == <<emitter, fixture, bundle>>

\* The attestation id _consumeVaa derives from a VAA body.
IdOf(body) == Compute(body.emitter, body.fixture, body.bundle)

ASSUME BaseAssumption ==
    /\ Accounts \subseteq Addresses
    /\ {Level3Address, Level4Address} \subseteq Addresses \ Accounts
    /\ Level3Address # Level4Address
    /\ InitialOwner \in Accounts /\ InitialForwarder \in Accounts
    /\ MarketFixture \in Fixtures
    /\ Escrow \in Nat \ {0}
    /\ \A r \in Reports : /\ r.fixture \in Fixtures
                          /\ r.id \in AttestationIds
                          /\ r.result \in Results
    /\ \A v \in Vaas : /\ v.signed \in BOOLEAN
                       /\ v.body.wellFormed \in BOOLEAN
                       /\ v.body.fixture \in Fixtures
                       /\ v.body.result \in Results
                       /\ IdOf(v.body) \in AttestationIds

VARIABLES
    owner,                 \* Ownable.owner of the receivers and the market
    forwarder,             \* the forwarder of each receiver
    consumedAttestations,  \* CRELevel3Receiver.consumedAttestations
    level3Store,           \* CRELevel3Receiver._attestations
    consumedVaaHashes,     \* WormholeOutcomeReceiver.consumedVaaHashes
    consumedSequences,     \* WormholeOutcomeReceiver.consumedSequences
    level4Store,           \* WormholeOutcomeReceiver._attestations
    market                 \* DemoPredictionMarket, with the wei it has paid out

adminVars == <<owner, forwarder>>
level3Vars == <<consumedAttestations, level3Store>>
level4Vars == <<consumedVaaHashes, consumedSequences, level4Store>>
vars == <<registryVars, adminVars, level3Vars, level4Vars, market>>

-----------------------------------------------------------------------------

Receivers == {"level3", "level4"}
Owned == Receivers \union {"market"}

\* What an empty slot of _attestations reads as.
NoLevel3 == [attestationId |-> ZeroId, result |-> 0]
NoLevel4 == [attestationId |-> ZeroId, result |-> 0, vaaHash |-> ZeroId, exists |-> FALSE]

BaseInit ==
    /\ Init
    /\ owner = [c \in Owned |-> InitialOwner]
    /\ forwarder = [c \in Receivers |-> InitialForwarder]
    /\ consumedAttestations = {}
    /\ level3Store = [f \in Fixtures |-> NoLevel3]
    /\ consumedVaaHashes = {}
    /\ consumedSequences = {}
    /\ level4Store = [f \in Fixtures |-> NoLevel4]
    /\ market = [settled |-> FALSE, winningOutcome |-> 0, claimed |-> FALSE,
                 balance |-> Escrow, paid |-> 0]

-----------------------------------------------------------------------------
\* Administration.

\* registry.setReporters as the deployment script calls it.
WireReporters(sender) ==
    /\ SetReporters(sender, Level3Address, Level4Address)
    /\ UNCHANGED <<adminVars, level3Vars, level4Vars, market>>

TransferRegistryOwnership(sender, new) ==
    /\ TransferRegistry(sender, new)
    /\ UNCHANGED <<adminVars, level3Vars, level4Vars, market>>

\* Ownable.transferOwnership of a receiver or of the market.
TransferOwnership(c, sender, new) ==
    /\ sender = owner[c]
    /\ new # ZeroAddress
    /\ owner' = [owner EXCEPT ![c] = new]
    /\ UNCHANGED <<registryVars, forwarder, level3Vars, level4Vars, market>>

\* setForwarder of either receiver.
SetForwarder(c, sender, new) ==
    /\ sender = owner[c]
    /\ new # ZeroAddress
    /\ forwarder' = [forwarder EXCEPT ![c] = new]
    /\ UNCHANGED <<registryVars, owner, level3Vars, level4Vars, market>>

-----------------------------------------------------------------------------
\* CRELevel3Receiver.

\* Bug variant: a digest is not checked against those consumed before.
OnReportRepeatable(sender, r) ==
    /\ sender = forwarder["level3"]
    /\ consumedAttestations' = consumedAttestations \union {r.id}
    /\ level3Store' = [level3Store EXCEPT ![r.fixture] =
           [attestationId |-> r.id, result |-> r.result]]
    /\ ReportLevel3(Level3Address, r.fixture, r.id, r.result)
    /\ UNCHANGED <<adminVars, level4Vars, market>>

\* onReport: consume the digest, overwrite the fixture's slot, report.
OnReport(sender, r) ==
    /\ sender = forwarder["level3"]
    /\ r.id \notin consumedAttestations
    /\ consumedAttestations' = consumedAttestations \union {r.id}
    /\ level3Store' = [level3Store EXCEPT ![r.fixture] =
           [attestationId |-> r.id, result |-> r.result]]
    /\ ReportLevel3(Level3Address, r.fixture, r.id, r.result)
    /\ UNCHANGED <<adminVars, level4Vars, market>>

-----------------------------------------------------------------------------
\* WormholeOutcomeReceiver.

\* Bug variant: any Solana emitter will do.
AuthenticAnyEmitter(v) ==
    /\ v.signed
    /\ v.body.chain = SourceChain
    /\ v.body.wellFormed /\ v.body.result \in ValidResults
    /\ v.body.destination = OurChain

\* Checks (1) to (8) of _consumeVaa; decode is (5), (6) and the result range.
Authentic(v) ==
    /\ v.signed
    /\ v.body.chain = SourceChain
    /\ v.body.emitter = RegisteredEmitter
    /\ v.body.wellFormed /\ v.body.result \in ValidResults
    /\ v.body.destination = OurChain

\* Bug variant: replay protection by digest only.
FreshByDigest(v) == v.body \notin consumedVaaHashes

\* Replay protection: by VAA digest and by emitter sequence.
Fresh(v) ==
    /\ v.body \notin consumedVaaHashes
    /\ v.body.sequence \notin consumedSequences

\* Bug variant: a conflicting VAA replaces the stored attestation.
StoreOutcomeOverwriting(b) ==
    /\ level4Store[b.fixture].attestationId # IdOf(b)
    /\ level4Store' = [level4Store EXCEPT ![b.fixture] =
           [attestationId |-> IdOf(b), result |-> b.result,
            vaaHash |-> b, exists |-> TRUE]]

\* The slot after the VAA: a conflicting VAA leaves it alone (10), an equal
\* digest reverts (DuplicateOutcome), the first one fills it (11).
StoreOutcome(b) ==
    \/ /\ level4Store[b.fixture].exists
       /\ level4Store[b.fixture].attestationId # IdOf(b)
       /\ UNCHANGED level4Store
    \/ /\ ~level4Store[b.fixture].exists
       /\ level4Store' = [level4Store EXCEPT ![b.fixture] =
              [attestationId |-> IdOf(b), result |-> b.result,
               vaaHash |-> b, exists |-> TRUE]]

ConsumeVaa(v) ==
    /\ Authentic(v)
    /\ Fresh(v)
    /\ consumedVaaHashes' = consumedVaaHashes \union {v.body}
    /\ consumedSequences' = consumedSequences \union {v.body.sequence}
    /\ StoreOutcome(v.body)
    /\ ReportLevel4(Level4Address, v.body.fixture, IdOf(v.body), v.body.result)
    /\ UNCHANGED <<adminVars, level3Vars, market>>

\* Permissionless delivery.
SubmitVaa(v) == ConsumeVaa(v)

\* Forwarder-gated delivery of the same bytes.
OnReportVaa(sender, v) ==
    /\ sender = forwarder["level4"]
    /\ ConsumeVaa(v)

-----------------------------------------------------------------------------
\* DemoPredictionMarket.

\* provisionalWinner, for display.
ProvisionalWinner(f) ==
    CASE status[f] = "CREAttested" ->
             [available |-> TRUE, result |-> attestation["level3"][f].result]
      [] status[f] = "DualFinalized" ->
             [available |-> TRUE, result |-> FinalOutcome(f).result]
      [] OTHER -> [available |-> FALSE, result |-> 0]

\* Bug variant: the fast lane is enough to settle.
SettleProvisional ==
    /\ ~market.settled
    /\ ProvisionalWinner(MarketFixture).available
    /\ market' = [market EXCEPT !.settled = TRUE,
                        !.winningOutcome = ProvisionalWinner(MarketFixture).result]
    /\ UNCHANGED <<registryVars, adminVars, level3Vars, level4Vars>>

\* settle: anyone, once, when the registry says DualFinalized.
Settle ==
    /\ ~market.settled
    /\ status[MarketFixture] = "DualFinalized"
    /\ FinalOutcome(MarketFixture).finalized
    /\ market' = [market EXCEPT !.settled = TRUE,
                                !.winningOutcome = FinalOutcome(MarketFixture).result]
    /\ UNCHANGED <<registryVars, adminVars, level3Vars, level4Vars>>

\* claim: the whole balance to the owner, once, after settlement.
ClaimPayout(sender) ==
    /\ sender = owner["market"]
    /\ market.settled
    /\ ~market.claimed
    /\ market' = [market EXCEPT !.claimed = TRUE,
                                !.balance = 0,
                                !.paid = @ + market.balance]
    /\ UNCHANGED <<registryVars, adminVars, level3Vars, level4Vars>>

-----------------------------------------------------------------------------

Administer(sender) ==
    \/ WireReporters(sender)
    \/ \E new \in Accounts \union {ZeroAddress} :
          \/ TransferRegistryOwnership(sender, new)
          \/ \E c \in Owned : TransferOwnership(c, sender, new)
          \/ \E c \in Receivers : SetForwarder(c, sender, new)

BaseNext ==
    \/ \E sender \in Accounts :
          \/ Administer(sender)
          \/ \E r \in Reports : OnReport(sender, r)
          \/ \E v \in Vaas : OnReportVaa(sender, v)
          \/ ClaimPayout(sender)
    \/ \E v \in Vaas : SubmitVaa(v)
    \/ Settle

BaseSpec == BaseInit /\ [][BaseNext]_vars

-----------------------------------------------------------------------------

\* Every variable holds a value of its Solidity type.
BaseTypeOK ==
    /\ TypeOK
    /\ owner \in [Owned -> Addresses]
    /\ forwarder \in [Receivers -> Addresses]
    /\ consumedAttestations \subseteq AttestationIds
    /\ level3Store \in [Fixtures ->
           [attestationId : AttestationIds, result : ValidResults] \union {NoLevel3}]
    /\ consumedVaaHashes \subseteq {v.body : v \in Vaas}
    /\ consumedSequences \subseteq {v.body.sequence : v \in Vaas}
    /\ level4Store \in [Fixtures ->
           [attestationId : AttestationIds, result : ValidResults,
            vaaHash : {v.body : v \in Vaas}, exists : {TRUE}] \union {NoLevel4}]
    /\ market \in [settled : BOOLEAN, winningOutcome : {0} \union ValidResults,
                   claimed : BOOLEAN, balance : {0, Escrow}, paid : {0, Escrow}]

\* VAA v is what the Level 4 lane of fixture f rests on.
Backs(v, f) ==
    /\ v.signed
    /\ v.body.chain = SourceChain /\ v.body.emitter = RegisteredEmitter
    /\ v.body.destination = OurChain
    /\ v.body \in consumedVaaHashes
    /\ v.body.fixture = f
    /\ attestation["level4"][f] =
           [attestationId |-> IdOf(v.body), result |-> v.body.result, exists |-> TRUE]
    /\ level4Store[f].vaaHash = v.body

\* The Level 4 lane stands on a quorum: whatever the registry holds for it came
\* in one VAA that carried a quorum, from the registered Solana emitter, for
\* this chain, is marked as consumed, and says what the record says.
Level4Backed ==
    \A f \in Fixtures : Has("level4", f) => \E v \in Vaas : Backs(v, f)

\* The Level 4 receiver and the registry never drift apart: they hold the same
\* outcome for the same fixtures, although each writes its own copy and either
\* may refuse (DuplicateOutcome, FixtureFrozen, FixtureFinalized, NotReporter).
ReceiverMirrorsRegistry ==
    \A f \in Fixtures :
        /\ level4Store[f].exists = Has("level4", f)
        /\ level4Store[f].attestationId = attestation["level4"][f].attestationId
        /\ level4Store[f].result = attestation["level4"][f].result

\* Replay protection is exact: one VAA per emitter sequence, the two consumed
\* sets describe the same VAAs, and a consumed VAA is one the registry counted
\* for its own fixture, so a refused delivery burns neither digest nor sequence.
VaaSpentExactly ==
    /\ consumedSequences = {b.sequence : b \in consumedVaaHashes}
    /\ \A b, c \in consumedVaaHashes : b.sequence = c.sequence => b = c
    /\ \A b \in consumedVaaHashes :
           [lane |-> "level4", id |-> IdOf(b)] \in accepted[b.fixture]
    /\ \A f \in Fixtures : \A x \in accepted[f] :
           x.lane = "level4" =>
               \E b \in consumedVaaHashes : b.fixture = f /\ IdOf(b) = x.id

\* A Level 3 digest is spent on exactly one fixture, and only together with a
\* report the registry took.
Level3SpentExactly ==
    /\ \A f \in Fixtures : \A x \in accepted[f] :
           x.lane = "level3" => x.id \in consumedAttestations
    /\ \A id \in consumedAttestations :
           \E f \in Fixtures :
               /\ [lane |-> "level3", id |-> id] \in accepted[f]
               /\ \A g \in Fixtures \ {f} :
                      [lane |-> "level3", id |-> id] \notin accepted[g]

\* The market is settled only by a fixture on which both lanes delivered the
\* same digest, its winner is the registry's final outcome ever after, and the
\* escrow is either still there or was paid out once, after settlement.
SettlementIsFinal ==
    /\ market.settled =>
           /\ FinalOutcome(MarketFixture) =
                  [finalized |-> TRUE, result |-> market.winningOutcome]
           /\ \E id \in AttestationIds : \A l \in Lanes :
                  [lane |-> l, id |-> id] \in accepted[MarketFixture]
    /\ market.claimed => market.settled
    /\ market.balance + market.paid = Escrow
    /\ market.paid > 0 <=> market.claimed

\* The lanes read the same evidence: whoever reports a digest reports the
\* outcome that goes with it.  The digest does not commit to scores or result
\* (AttestationIds.sol:14-31), so nothing on chain enforces this.
ConsistentInputs ==
    /\ \A r \in Reports, v \in Vaas : r.id = IdOf(v.body) => r.result = v.body.result
    /\ \A v, w \in Vaas : IdOf(v.body) = IdOf(w.body) => v.body.result = w.body.result

\* With consistent inputs a displayed provisional winner is never retracted
\* for another one: it can only be confirmed or, on conflict, withdrawn.
ProvisionalWinnerStands ==
    [][ \A f \in Fixtures :
           ProvisionalWinner(f).available /\ ProvisionalWinner(f)'.available =>
               ProvisionalWinner(f)'.result = ProvisionalWinner(f).result ]_vars

=============================================================================
