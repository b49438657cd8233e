--------------------------- MODULE SolanaAdapter ---------------------------
(***************************************************************************)
(* The Anchor program proofline-adapter, built with its "wormhole"         *)
(* feature: TxLINE verification by CPI, the VerifiedOutcome accounts it    *)
(* mints, and their publication as Wormhole messages.  An instruction is   *)
(* one step: when any check in it fails the transaction has no effect.     *)
(*                                                                         *)
(* keccak256 is taken to be injective: the proof-bundle hash is the input  *)
(* it hashes, the validation-instruction hash is the instruction.          *)
(*                                                                         *)
(* External, as the adapter relies on them: the TxLINE program, which says *)
(* of a strategy only that its predicates hold of the committed statistics *)
(* (not that the values in the input do), and the Wormhole core bridge.    *)
(* Which program stands for the core bridge is up to whoever configures    *)
(* the adapter: one that is none gets the emitter's signature too.  It can *)
(* take the call without posting anything, since the genuine bridge is not *)
(* among the accounts it is handed.                                        *)
(***************************************************************************)
EXTENDS Integers, Sequences, FiniteSets

CONSTANTS
    Fixtures, Timestamps,   \* fixture ids and min_timestamps (ms)
    Roots,                  \* daily-root accounts
    DailyScoresPda,         \* DailyScoresPda[t]: the daily-root account of time t
    Committed,              \* statistics committed to by the daily roots
    Args,                   \* VerifyOutcomeArgs somebody may submit
    FinalPeriod,            \* FINAL_PERIOD (100)
    MaxStatIndex,           \* u8::MAX
    Programs,               \* executable programs
    MainnetTxline,          \* MAINNET_PROGRAM_ID
    Signers, Chains,        \* keys that sign transactions; Wormhole chain ids
    CoreBridge,             \* the Wormhole core bridge
    Cores,                  \* keys somebody may configure as wormhole_core
    RogueCores,             \* those of them, not the bridge, that take the CPI
    RogueSequences,         \* what their sequence trackers may hold, less one
    MessageAccounts,        \* fresh keypairs for message accounts
    NoMessage,              \* Pubkey::default()
    Values                  \* values a score may have

Stat == [key : Nat, period : Nat, value : Values]
Input == [fixture : Fixtures, ts : Timestamps, minTs : Timestamps,
          event : Nat, stats : Seq(Stat)]
Predicate == [index : 0 .. MaxStatIndex, threshold : Values,
              comparison : {"EqualTo", "GreaterThan", "LessThan"}]

\* A daily root commits to one value per statistic of an event.
ASSUME AdapterAssumption ==
    /\ DailyScoresPda \in [Timestamps -> Roots]
    /\ Committed \subseteq [root : Roots, fixture : Fixtures, ts : Timestamps, event : Nat,
                            key : Nat, period : Nat, value : Values]
    /\ Args \subseteq [input : Input, strategy : SUBSET Predicate]
    /\ MaxStatIndex \in Nat
    /\ FinalPeriod \in Nat
    /\ Values \subseteq Int
    /\ MainnetTxline \in Programs
    /\ NoMessage \notin MessageAccounts
    /\ CoreBridge \in Cores /\ RogueCores \subseteq Cores \ {CoreBridge}
    /\ RogueSequences \subseteq Nat

VARIABLES
    config,        \* the Config account
    outcomes,      \* outcomes[k]: the VerifiedOutcome account of identity k
    nextSequence,  \* external: the bridge's sequence tracker of the emitter
    messages       \* external: the messages the bridge holds

vars == <<config, outcomes, nextSequence, messages>>

-----------------------------------------------------------------------------

\* Seeds of a VerifiedOutcome account: fixture and verified proof timestamp.
Identities == Fixtures \X Timestamps
IdentityOf(a) == <<a.input.fixture, a.input.minTs>>

NoConfig == [created |-> FALSE]
NoOutcome == [created |-> FALSE]

Config == [created : {TRUE}, admin : Signers, core : Cores, forwarder : Signers,
           destination : Chains]

VerifiedOutcome ==
    [created : {TRUE}, destination : Chains, result : 1 .. 3,
     participant1 : Values, participant2 : Values,
     dailyRoot : Roots, instructionHash : Roots \X Args,
     bundleHash : {a.input : a \in Args},
     published : BOOLEAN, sequence : Nat,
     message : MessageAccounts \union {NoMessage}]

\* derive_result: 1 home, 2 draw, 3 away.
DeriveResult(s1, s2) == IF s1 > s2 THEN 1 ELSE IF s1 = s2 THEN 2 ELSE 3

-----------------------------------------------------------------------------
\* TxLINE.

Holds(p, v) ==
    CASE p.comparison = "EqualTo"     -> v = p.threshold
      [] p.comparison = "GreaterThan" -> v > p.threshold
      [] p.comparison = "LessThan"    -> v < p.threshold

\* validate_stat_v2 returns true: every predicate of the strategy holds of the
\* committed value of the statistic it points at.
TxlineTrue(root, a) ==
    \A p \in a.strategy :
        /\ p.index < Len(a.input.stats)
        /\ \E c \in Committed :
              /\ c.root = root
              /\ c.fixture = a.input.fixture /\ c.ts = a.input.minTs
              /\ c.event = a.input.event
              /\ c.key = a.input.stats[p.index + 1].key
              /\ c.period = a.input.stats[p.index + 1].period
              /\ Holds(p, c.value)

\* Another program returns what it likes.
ReturnsTrue(program, root, a) == program = MainnetTxline => TxlineTrue(root, a)

-----------------------------------------------------------------------------
\* verify_outcome.rs

\* The one statistic with key k stands at position j.
ScoreAt(input, k, j) ==
    \A n \in DOMAIN input.stats : input.stats[n].key = k <=> n = j

\* Bug variant: a predicate's index counts from one.
AsU8FromOne(j) == j % (MaxStatIndex + 1)

\* Position j as the index of a predicate, "as u8".
AsU8(j) == (j - 1) % (MaxStatIndex + 1)

HasExactEqualityPredicate(a, j) ==
    [index |-> AsU8(j), threshold |-> a.input.stats[j].value,
     comparison |-> "EqualTo"] \in a.strategy

\* Bug variant: the index is narrowed without the overflow check.
ScoreBoundNarrowed(a, k, j) ==
    /\ ScoreAt(a.input, k, j)
    /\ a.input.stats[j].period = FinalPeriod
    /\ HasExactEqualityPredicate(a, j)

\* Statistic j is participant k's final score and the strategy pins its value.
ScoreBound(a, k, j) ==
    /\ ScoreAt(a.input, k, j)
    /\ a.input.stats[j].period = FinalPeriod
    /\ j - 1 <= MaxStatIndex
    /\ HasExactEqualityPredicate(a, j)

\* run_txline_verification, together with the timestamp check of derive_outcome.
TxlineVerifies(program, root, a) ==
    /\ program = MainnetTxline
    /\ a.input.ts = a.input.minTs
    /\ root = DailyScoresPda[a.input.minTs]
    /\ ReturnsTrue(program, root, a)

\* Bug variant: an account that exists is written again ("init_if_needed").
VerifiableAgain(program, root, a, i, j) ==
    /\ config # NoConfig
    /\ TxlineVerifies(program, root, a)
    /\ ScoreBound(a, 1, i)
    /\ ScoreBound(a, 2, j)

\* The checks of every verifying instruction; i and j are the positions of the
\* participants' scores.  "init" refuses an account that exists.
Verifiable(program, root, a, i, j) ==
    /\ config # NoConfig
    /\ outcomes[IdentityOf(a)] = NoOutcome
    /\ TxlineVerifies(program, root, a)
    /\ ScoreBound(a, 1, i)
    /\ ScoreBound(a, 2, j)

\* What record_verified_outcome writes.
Recorded(root, a, i, j) ==
    LET s1 == a.input.stats[i].value
        s2 == a.input.stats[j].value
    IN  [created |-> TRUE, destination |-> config.destination,
         result |-> DeriveResult(s1, s2), participant1 |-> s1, participant2 |-> s2,
         dailyRoot |-> root, instructionHash |-> <<root, a>>, bundleHash |-> a.input,
         published |-> FALSE, sequence |-> 0, message |-> NoMessage]

VerifyOutcome(program, root, a) ==
    /\ \E i, j \in DOMAIN a.input.stats :
          /\ Verifiable(program, root, a, i, j)
          /\ outcomes' = [outcomes EXCEPT ![IdentityOf(a)] = Recorded(root, a, i, j)]
    /\ UNCHANGED <<config, nextSequence, messages>>

\* on_report: the same, for the configured forwarder.
OnReport(signer, program, root, a) ==
    /\ config # NoConfig
    /\ signer = config.forwarder
    /\ VerifyOutcome(program, root, a)

-----------------------------------------------------------------------------
\* publish_outcome.rs and wormhole/emitter.rs

\* build_payload; the provider's score sequence is not known on chain.
BuildPayload(k, o) ==
    [fixture |-> k[1], ts |-> k[2], destination |-> o.destination,
     result |-> o.result, scoreSequence |-> 0,
     participant1 |-> o.participant1, participant2 |-> o.participant2,
     dailyRoot |-> o.dailyRoot, instructionHash |-> o.instructionHash,
     bundleHash |-> o.bundleHash]

\* The bridge's post_message: numbers the message and stores it in a fresh account.
PostMessage(account, payload) ==
    /\ \A m \in messages : m.account # account
    /\ messages' = messages \union
           {[account |-> account, sequence |-> nextSequence, payload |-> payload]}
    /\ nextSequence' = nextSequence + 1

\* post_message of emitter.rs: the CPI into the configured program.  The bridge
\* posts; another program that takes the call posts nothing; with any other key
\* the instruction fails.
Post(account, payload) ==
    \/ config.core = CoreBridge /\ PostMessage(account, payload)
    \/ config.core \in RogueCores /\ UNCHANGED <<nextSequence, messages>>

\* parse_assigned_sequence: one less than the configured program's tracker holds
\* after the CPI.
AssignedSequences ==
    IF config.core = CoreBridge THEN {nextSequence' - 1} ELSE RogueSequences

Stamped(o, account, sequence) ==
    [o EXCEPT !.published = TRUE, !.sequence = sequence, !.message = account]

\* Publishes outcome o of identity k.
Publish(k, o, account) ==
    /\ Post(account, BuildPayload(k, o))
    /\ \E sequence \in AssignedSequences :
          outcomes' = [outcomes EXCEPT ![k] = Stamped(o, account, sequence)]
    /\ UNCHANGED config

\* Bug variant: the latch is not consulted.
PublishAgain(k, account) ==
    /\ outcomes[k] # NoOutcome
    /\ Publish(k, outcomes[k], account)

PublishOutcome(k, account) ==
    /\ outcomes[k] # NoOutcome
    /\ ~outcomes[k].published
    /\ Publish(k, outcomes[k], account)

\* Verify and publish in one instruction.
VerifyAndPublishInline(program, root, a, account) ==
    \E i, j \in DOMAIN a.input.stats :
        /\ Verifiable(program, root, a, i, j)
        /\ Publish(IdentityOf(a), Recorded(root, a, i, j), account)

-----------------------------------------------------------------------------

\* initialize_config: whoever comes first, once.  Of what he names only the TxLINE
\* program is checked.
InitializeConfig(admin, program, core, forwarder, destination) ==
    /\ config = NoConfig
    /\ program = MainnetTxline
    /\ config' = [created |-> TRUE, admin |-> admin, core |-> core,
                  forwarder |-> forwarder, destination |-> destination]
    /\ UNCHANGED <<outcomes, nextSequence, messages>>

\* Somebody configures the adapter for this TxLINE program.
Configure(program) ==
    \E admin, forwarder \in Signers, core \in Cores, destination \in Chains :
        InitializeConfig(admin, program, core, forwarder, destination)

Init ==
    /\ config = NoConfig
    /\ outcomes = [k \in Identities |-> NoOutcome]
    /\ nextSequence = 0
    /\ messages = {}

Next ==
    \/ \E program \in Programs :
          \/ Configure(program)
          \/ \E root \in Roots, a \in Args :
                \/ VerifyOutcome(program, root, a)
                \/ \E s \in Signers : OnReport(s, program, root, a)
                \/ \E account \in MessageAccounts :
                      VerifyAndPublishInline(program, root, a, account)
    \/ \E k \in Identities, account \in MessageAccounts : PublishOutcome(k, account)

Spec == Init /\ [][Next]_vars

\* Somebody configures the program; some keeper submits each set of
\* arguments it holds until the outcome exists, and publishes what is verified.
Fairness ==
    /\ WF_vars(Configure(MainnetTxline))
    /\ \A a \in Args :
          WF_vars(VerifyOutcome(MainnetTxline, DailyScoresPda[a.input.minTs], a))
    /\ \A k \in Identities :
          WF_vars(\E account \in MessageAccounts : PublishOutcome(k, account))

FairSpec == Spec /\ Fairness

-----------------------------------------------------------------------------

\* Every account holds a value of its Rust type.
TypeOK ==
    /\ config \in Config \union {NoConfig}
    /\ outcomes \in [Identities -> VerifiedOutcome \union {NoOutcome}]
    /\ nextSequence \in Nat

\* Event e has these final scores under the daily root of identity k.
FinalScores(k, e, s1, s2) ==
    /\ [root |-> DailyScoresPda[k[2]], fixture |-> k[1], ts |-> k[2], event |-> e,
        key |-> 1, period |-> FinalPeriod, value |-> s1] \in Committed
    /\ [root |-> DailyScoresPda[k[2]], fixture |-> k[1], ts |-> k[2], event |-> e,
        key |-> 2, period |-> FinalPeriod, value |-> s2] \in Committed

\* Whatever anybody submits, through whichever of the three entry points, an
\* outcome on record is one that TxLINE committed to: both final scores belong
\* to one event of its own fixture and time (lib.rs:19-20, a relayer "can delay
\* an outcome, but it cannot change one").
OutcomeIsTrue ==
    \A k \in Identities :
        outcomes[k] # NoOutcome =>
            /\ \E c \in Committed :
                  FinalScores(k, c.event, outcomes[k].participant1, outcomes[k].participant2)
            /\ outcomes[k].dailyRoot = DailyScoresPda[k[2]]
            /\ outcomes[k].result =
                  DeriveResult(outcomes[k].participant1, outcomes[k].participant2)

\* Message m is the publication of identity k's outcome.
Publishes(m, k) ==
    /\ outcomes[k] # NoOutcome
    /\ outcomes[k].published
    /\ m.account = outcomes[k].message
    /\ m.sequence = outcomes[k].sequence
    /\ m.payload = BuildPayload(k, outcomes[k])

\* The only road to a Wormhole message is a VerifiedOutcome, and it is taken
\* once: every message is the publication of an outcome, whose stamp names it, and
\* no two messages share a sequence.  Whether every outcome that says it is
\* published has its message depends on the first caller of initialize_config: if
\* he named the bridge, yes; if not, there is no message at all
\* (publish_outcome.rs:12-14).
PublicationExact ==
    /\ \A m \in messages : \E k \in Identities : Publishes(m, k)
    /\ \A m, n \in messages : m.sequence = n.sequence => m = n
    /\ \A m \in messages : m.sequence < nextSequence
    /\ config # NoConfig =>
           IF config.core = CoreBridge
           THEN \A k \in Identities :
                    outcomes[k] # NoOutcome =>
                        (outcomes[k].published => \E m \in messages : Publishes(m, k))
           ELSE messages = {}

\* An account is frozen once written: the configuration never changes and of an
\* outcome only the publication stamp may be set, once (verified_outcome.rs:14-19).
FrozenOnceVerified ==
    [][ /\ config # NoConfig => config' = config
        /\ \A k \in Identities :
              outcomes[k] # NoOutcome =>
                 \/ outcomes'[k] = outcomes[k]
                 \/ /\ ~outcomes[k].published
                    /\ outcomes'[k] = [outcomes[k] EXCEPT
                          !.published = TRUE, !.sequence = outcomes'[k].sequence,
                          !.message = outcomes'[k].message] ]_vars

\* The plain proof of a final score: the two statistics, pinned in their order.
PlainProof(a) ==
    \E s1, s2 \in Values :
        /\ FinalScores(IdentityOf(a), a.input.event, s1, s2)
        /\ a.input.ts = a.input.minTs
        /\ a.input.stats = <<[key |-> 1, period |-> FinalPeriod, value |-> s1],
                             [key |-> 2, period |-> FinalPeriod, value |-> s2]>>
        /\ a.strategy = {[index |-> 0, threshold |-> s1, comparison |-> "EqualTo"],
                         [index |-> 1, threshold |-> s2, comparison |-> "EqualTo"]}

\* Nobody can censor a result: whatever others submit first, a final score that
\* somebody can prove is in the end on record, and published as well unless the
\* first caller of initialize_config named another program than the bridge
\* (config.rs:25-28 says it of the forwarder).
ProvableIsPublished ==
    \A a \in Args :
        PlainProof(a) =>
            <>(/\ outcomes[IdentityOf(a)] # NoOutcome
               /\ config.core = CoreBridge => outcomes[IdentityOf(a)].published)

=============================================================================
