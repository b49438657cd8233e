----------------------- MODULE MainnetRollout_proofs -----------------------
(***************************************************************************)
(* Proofs about the adapter and about the rollout that drives it, for any  *)
(* fixtures, times, commitments, arguments and index width, any number of  *)
(* runs, any rents and balances and any other users of the program.        *)
(*                                                                         *)
(* First the adapter: minting and stamping are the only ways an outcome    *)
(* changes; the lemmas say so once, and the invariants and the action      *)
(* property follow case by case.  Then the rollout: the script drives the  *)
(* adapter by the adapter's own steps, so whatever holds of the adapter    *)
(* holds here; the script's own promises follow from what a run may assume *)
(* at each of its steps.                                                   *)
(***************************************************************************)
EXTENDS MainnetRollout, TLAPS

\* Shape of the arguments of a verification.
LEMMA ArgsFacts ==
    ASSUME NEW a \in Args
    PROVE  /\ a.input \in Input
           /\ IdentityOf(a) \in Identities
           /\ IdentityOf(a) = <<a.input.fixture, a.input.minTs>>
           /\ a.input.stats \in Seq(Stat)
           /\ a.strategy \in SUBSET Predicate
<1>1. a \in [input : Input, strategy : SUBSET Predicate]
  BY AdapterAssumption
<1>2. a.input \in Input /\ a.strategy \in SUBSET Predicate
  BY <1>1
<1>3. /\ a.input.fixture \in Fixtures /\ a.input.minTs \in Timestamps
      /\ a.input.stats \in Seq(Stat)
  BY <1>2 DEF Input
<1>4. QED BY <1>2, <1>3 DEF IdentityOf, Identities

\* A statistic within the input has the type of its fields.
LEMMA StatFacts ==
    ASSUME NEW a \in Args, NEW j \in DOMAIN a.input.stats
    PROVE  /\ a.input.stats[j] \in Stat
           /\ j \in Nat /\ j >= 1 /\ j <= Len(a.input.stats)
           /\ a.input.stats[j].value \in Values
<1> DEFINE s == a.input.stats
<1>1. s \in Seq(Stat)
  BY ArgsFacts
<1>2. j \in DOMAIN s
  OBVIOUS
<1> HIDE DEF s
<1>3. s[j] \in Stat /\ j \in 1 .. Len(s) /\ Len(s) \in Nat
  BY <1>1, <1>2
<1>4. s[j].value \in Values
  BY <1>3 DEF Stat
<1>5. QED BY <1>3, <1>4 DEF s

\* A score that is bound and vouched for is committed to: the predicate that
\* pins it points at the very statistic, because the index did not wrap.
LEMMA BoundIsCommitted ==
    ASSUME NEW a \in Args, NEW root \in Roots, NEW k \in {1, 2},
           NEW j \in DOMAIN a.input.stats,
           ScoreBound(a, k, j), TxlineTrue(root, a)
    PROVE  [root |-> root, fixture |-> a.input.fixture, ts |-> a.input.minTs,
            event |-> a.input.event, key |-> k, period |-> FinalPeriod,
            value |-> a.input.stats[j].value] \in Committed
<1>1. j \in Nat /\ j >= 1 /\ a.input.stats[j].value \in Values
  BY StatFacts
<1>2. AsU8(j) = j - 1
  BY <1>1, AdapterAssumption DEF ScoreBound, AsU8
<1>3. AsU8(j) + 1 = j
  BY <1>1, <1>2
<1>4. a.input.stats[j].key = k /\ a.input.stats[j].period = FinalPeriod
  BY DEF ScoreBound, ScoreAt
<1> DEFINE p == [index |-> AsU8(j), threshold |-> a.input.stats[j].value,
                 comparison |-> "EqualTo"]
<1>5. p \in a.strategy
  BY DEF ScoreBound, HasExactEqualityPredicate
<1>6. PICK c \in Committed :
         /\ c.root = root
         /\ c.fixture = a.input.fixture /\ c.ts = a.input.minTs
         /\ c.event = a.input.event
         /\ c.key = a.input.stats[p.index + 1].key
         /\ c.period = a.input.stats[p.index + 1].period
         /\ Holds(p, c.value)
  BY <1>5 DEF TxlineTrue
<1>7. c.value = a.input.stats[j].value
  BY <1>6 DEF Holds
<1>8. c.key = k /\ c.period = FinalPeriod
  BY <1>3, <1>4, <1>6
<1>9. c \in [root : Roots, fixture : Fixtures, ts : Timestamps, event : Nat,
             key : Nat, period : Nat, value : Values]
  BY AdapterAssumption
<1>10. c = [root |-> c.root, fixture |-> c.fixture, ts |-> c.ts, event |-> c.event,
            key |-> c.key, period |-> c.period, value |-> c.value]
  BY <1>9
<1>11. QED BY <1>6, <1>7, <1>8, <1>10

\* What a verification records is true, of the type of the account, and
\* unpublished; it goes into an account that did not exist.
LEMMA VerifiedFacts ==
    ASSUME TypeOK, NEW program \in Programs, NEW root \in Roots, NEW a \in Args,
           NEW i \in DOMAIN a.input.stats, NEW j \in DOMAIN a.input.stats,
           Verifiable(program, root, a, i, j)
    PROVE  /\ Recorded(root, a, i, j) \in VerifiedOutcome
           /\ FinalScores(IdentityOf(a), a.input.event,
                          Recorded(root, a, i, j).participant1,
                          Recorded(root, a, i, j).participant2)
           /\ Recorded(root, a, i, j).dailyRoot = DailyScoresPda[IdentityOf(a)[2]]
           /\ \E c \in Committed : c.event = a.input.event
<1>1. /\ a.input.stats[i].value \in Values /\ a.input.stats[j].value \in Values
      /\ a.input.stats[i].value \in Int /\ a.input.stats[j].value \in Int
  BY StatFacts, AdapterAssumption
<1>2. config \in Config
  BY DEF TypeOK, Verifiable
<1>3. DeriveResult(a.input.stats[i].value, a.input.stats[j].value) \in 1 .. 3
  BY <1>1 DEF DeriveResult
<1>4. Recorded(root, a, i, j) \in VerifiedOutcome
  BY <1>1, <1>2, <1>3 DEF Recorded, VerifiedOutcome, Config
<1>5. root = DailyScoresPda[a.input.minTs] /\ TxlineTrue(root, a)
  BY DEF Verifiable, TxlineVerifies, ReturnsTrue
<1>6. [root |-> root, fixture |-> a.input.fixture, ts |-> a.input.minTs,
       event |-> a.input.event, key |-> 1, period |-> FinalPeriod,
       value |-> a.input.stats[i].value] \in Committed
  BY <1>5, BoundIsCommitted DEF Verifiable
<1>7. [root |-> root, fixture |-> a.input.fixture, ts |-> a.input.minTs,
       event |-> a.input.event, key |-> 2, period |-> FinalPeriod,
       value |-> a.input.stats[j].value] \in Committed
  BY <1>5, BoundIsCommitted DEF Verifiable
<1>8. IdentityOf(a)[1] = a.input.fixture /\ IdentityOf(a)[2] = a.input.minTs
  BY DEF IdentityOf
<1>9. /\ Recorded(root, a, i, j).participant1 = a.input.stats[i].value
      /\ Recorded(root, a, i, j).participant2 = a.input.stats[j].value
      /\ Recorded(root, a, i, j).dailyRoot = root
  BY DEF Recorded
<1>10. \E c \in Committed : c.event = a.input.event
  BY <1>6
<1>11. QED BY <1>4, <1>5, <1>6, <1>7, <1>8, <1>9, <1>10 DEF FinalScores

-----------------------------------------------------------------------------
\* How an outcome may change.

\* What OutcomeIsTrue says of one account.
TrueOutcome(k, o) ==
    /\ \E c \in Committed : FinalScores(k, c.event, o.participant1, o.participant2)
    /\ o.dailyRoot = DailyScoresPda[k[2]]
    /\ o.result = DeriveResult(o.participant1, o.participant2)

\* An account that exists is not an empty one.
LEMMA CreatedFacts ==
    /\ NoOutcome \notin VerifiedOutcome
    /\ \A o \in VerifiedOutcome \union {NoOutcome} :
          o # NoOutcome => o \in VerifiedOutcome
<1>1. NoOutcome.created = FALSE
  BY DEF NoOutcome
<1>2. \A o \in VerifiedOutcome : o.created = TRUE
  BY DEF VerifiedOutcome
<1>3. QED BY <1>1, <1>2

\* A verification writes a true and unpublished outcome into an empty account.
LEMMA RecordedFacts ==
    ASSUME TypeOK, NEW program \in Programs, NEW root \in Roots, NEW a \in Args,
           NEW i \in DOMAIN a.input.stats, NEW j \in DOMAIN a.input.stats,
           Verifiable(program, root, a, i, j)
    PROVE  /\ IdentityOf(a) \in Identities
           /\ outcomes[IdentityOf(a)] = NoOutcome
           /\ Recorded(root, a, i, j) \in VerifiedOutcome
           /\ TrueOutcome(IdentityOf(a), Recorded(root, a, i, j))
           /\ ~Recorded(root, a, i, j).published
<1>1. \E c \in Committed :
         FinalScores(IdentityOf(a), c.event, Recorded(root, a, i, j).participant1,
                     Recorded(root, a, i, j).participant2)
  BY VerifiedFacts
<1>2. Recorded(root, a, i, j).result =
         DeriveResult(Recorded(root, a, i, j).participant1,
                      Recorded(root, a, i, j).participant2)
  BY DEF Recorded
<1>3. ~Recorded(root, a, i, j).published
  BY DEF Recorded
<1>4. QED BY <1>1, <1>2, <1>3, ArgsFacts, VerifiedFacts DEF TrueOutcome, Verifiable

\* A stamp keeps an outcome's facts, names the message and fits the account.
LEMMA StampedFacts ==
    ASSUME NEW o \in VerifiedOutcome, NEW account \in MessageAccounts,
           NEW k \in Identities, NEW n \in Nat
    PROVE  /\ Stamped(o, account, n) \in VerifiedOutcome
           /\ Stamped(o, account, n).published
           /\ Stamped(o, account, n).sequence = n
           /\ Stamped(o, account, n).message = account
           /\ TrueOutcome(k, o) => TrueOutcome(k, Stamped(o, account, n))
<1>2. Stamped(o, account, n) = [o EXCEPT !.published = TRUE,
                                      !.sequence = n, !.message = account]
  BY DEF Stamped
<1>3. Stamped(o, account, n) \in VerifiedOutcome
  BY <1>2 DEF VerifiedOutcome
<1>4. /\ Stamped(o, account, n).published = TRUE
      /\ Stamped(o, account, n).sequence = n
      /\ Stamped(o, account, n).message = account
  BY <1>2 DEF VerifiedOutcome
<1>5. /\ Stamped(o, account, n).participant1 = o.participant1
      /\ Stamped(o, account, n).participant2 = o.participant2
      /\ Stamped(o, account, n).result = o.result
      /\ Stamped(o, account, n).destination = o.destination
      /\ Stamped(o, account, n).dailyRoot = o.dailyRoot
      /\ Stamped(o, account, n).instructionHash = o.instructionHash
      /\ Stamped(o, account, n).bundleHash = o.bundleHash
  BY <1>2 DEF VerifiedOutcome
<1>6. TrueOutcome(k, o) => TrueOutcome(k, Stamped(o, account, n))
  BY <1>5 DEF TrueOutcome
<1>7. QED BY <1>3, <1>4, <1>6

\* The one account k an instruction writes, and the outcome o it writes there.
Mints(k, o) ==
    /\ outcomes[k] = NoOutcome
    /\ config # NoConfig
    /\ o \in VerifiedOutcome /\ TrueOutcome(k, o) /\ ~o.published
    /\ outcomes' = [outcomes EXCEPT ![k] = o]
    /\ UNCHANGED <<config, nextSequence, messages>>

Publication(k, o, account, n) ==
    /\ o \in VerifiedOutcome /\ TrueOutcome(k, o) /\ ~o.published
    /\ outcomes[k] \in {NoOutcome, o}
    /\ config # NoConfig
    /\ n \in Nat /\ n \in AssignedSequences
    /\ Post(account, BuildPayload(k, o))
    /\ outcomes' = [outcomes EXCEPT ![k] = Stamped(o, account, n)]
    /\ UNCHANGED config

\* Nothing happens before the adapter is configured.
Untouched == config = NoConfig => messages = {} /\ outcomes = [k \in Identities |-> NoOutcome]

\* A publication stamps a natural number.
LEMMA PublishFacts ==
    ASSUME TypeOK, config # NoConfig, NEW k \in Identities, NEW o \in VerifiedOutcome,
           NEW account \in MessageAccounts, Publish(k, o, account),
           TrueOutcome(k, o), ~o.published, outcomes[k] \in {NoOutcome, o}
    PROVE  \E n \in Nat : Publication(k, o, account, n)
<1>1. PICK n \in AssignedSequences :
         outcomes' = [outcomes EXCEPT ![k] = Stamped(o, account, n)]
  BY DEF Publish
<1>2. n \in Nat
  <2>1. CASE config.core = CoreBridge
    <3>1. nextSequence' = nextSequence + 1 /\ nextSequence \in Nat
      BY <2>1, AdapterAssumption DEF Publish, Post, PostMessage, TypeOK
    <3>2. n = nextSequence' - 1
      BY <1>1, <2>1 DEF AssignedSequences
    <3>3. QED BY <3>1, <3>2
  <2>2. CASE config.core # CoreBridge
    BY <1>1, <2>2, AdapterAssumption DEF AssignedSequences
  <2>3. QED BY <2>1, <2>2
<1>3. QED BY <1>1, <1>2 DEF Publication, Publish

\* Every instruction configures, mints or publishes.
LEMMA Steps ==
    ASSUME TypeOK, OutcomeIsTrue, Untouched, Next
    PROVE  \/ Configure(MainnetTxline)
           \/ \E k \in Identities : \E o \in VerifiedOutcome : Mints(k, o)
           \/ \E k \in Identities : \E o \in VerifiedOutcome :
                 \E account \in MessageAccounts : \E n \in Nat : Publication(k, o, account, n)
<1>1. ASSUME NEW program \in Programs, Configure(program)
      PROVE  Configure(MainnetTxline)
  <2>1. program = MainnetTxline
    BY <1>1 DEF Configure, InitializeConfig
  <2>2. QED BY <1>1, <2>1
<1>2. ASSUME NEW program \in Programs, NEW root \in Roots, NEW a \in Args,
             VerifyOutcome(program, root, a)
      PROVE  \E k \in Identities : \E o \in VerifiedOutcome : Mints(k, o)
  <2>1. PICK i \in DOMAIN a.input.stats, j \in DOMAIN a.input.stats :
          /\ Verifiable(program, root, a, i, j)
          /\ outcomes' = [outcomes EXCEPT ![IdentityOf(a)] = Recorded(root, a, i, j)]
    BY <1>2 DEF VerifyOutcome
  <2>2. config # NoConfig
    BY <2>1 DEF Verifiable
  <2>3. Mints(IdentityOf(a), Recorded(root, a, i, j))
    BY <1>2, <2>1, <2>2, RecordedFacts DEF Mints, VerifyOutcome
  <2>4. QED BY <2>1, <2>3, RecordedFacts
<1>3. ASSUME NEW program \in Programs, NEW root \in Roots, NEW a \in Args,
             NEW account \in MessageAccounts,
             VerifyAndPublishInline(program, root, a, account)
      PROVE  \E k \in Identities : \E o \in VerifiedOutcome : \E n \in Nat :
                 Publication(k, o, account, n)
  <2>1. PICK i \in DOMAIN a.input.stats, j \in DOMAIN a.input.stats :
          /\ Verifiable(program, root, a, i, j)
          /\ Publish(IdentityOf(a), Recorded(root, a, i, j), account)
    BY <1>3 DEF VerifyAndPublishInline
  <2>2. config # NoConfig
    BY <2>1 DEF Verifiable
  <2>3. \E n \in Nat : Publication(IdentityOf(a), Recorded(root, a, i, j), account, n)
    BY <2>1, <2>2, RecordedFacts, PublishFacts
  <2>4. QED BY <2>1, <2>3, RecordedFacts
<1>4. ASSUME NEW k \in Identities, NEW account \in MessageAccounts,
             PublishOutcome(k, account)
      PROVE  \E o \in VerifiedOutcome : \E n \in Nat : Publication(k, o, account, n)
  <2>1. outcomes[k] \in VerifiedOutcome
    BY <1>4, CreatedFacts DEF PublishOutcome, TypeOK
  <2>2. TrueOutcome(k, outcomes[k])
    BY <1>4 DEF PublishOutcome, OutcomeIsTrue, TrueOutcome
  <2>3. config # NoConfig
    BY <1>4 DEF PublishOutcome, Untouched
  <2>4. \E n \in Nat : Publication(k, outcomes[k], account, n)
    BY <1>4, <2>1, <2>2, <2>3, PublishFacts DEF PublishOutcome
  <2>5. QED BY <2>1, <2>4
<1>5. QED BY <1>1, <1>2, <1>3, <1>4 DEF Next, OnReport

-----------------------------------------------------------------------------
\* The invariants.

\* Types and truth are inductive together: that a publication keeps an outcome
\* true needs the outcome it stamps to be typed, and the reverse does not hold.
\* The correspondence of outcomes and messages must not begin before it is known
\* which program was configured.
IInv ==
    /\ TypeOK
    /\ OutcomeIsTrue
    /\ PublicationExact
    /\ Untouched

\* Before the first transaction there is nothing to be wrong.
LEMMA InitIInv == Init => IInv
<1> SUFFICES ASSUME Init PROVE IInv
  OBVIOUS
<1>1. \A k \in Identities : outcomes[k] = NoOutcome
  BY DEF Init
<1>2. TypeOK
  BY DEF Init, TypeOK
<1>3. OutcomeIsTrue
  BY <1>1 DEF OutcomeIsTrue
<1>4. PublicationExact
  BY <1>1 DEF Init, PublicationExact
<1>5. Untouched
  BY DEF Init, Untouched
<1>6. QED BY <1>2, <1>3, <1>4, <1>5 DEF IInv

\* Writing a typed and true outcome keeps types and truth.
LEMMA WriteKeepsTruth ==
    ASSUME TypeOK, OutcomeIsTrue, NEW k \in Identities, NEW o \in VerifiedOutcome,
           TrueOutcome(k, o), outcomes' = [outcomes EXCEPT ![k] = o],
           config' = config, nextSequence' \in Nat
    PROVE  TypeOK' /\ OutcomeIsTrue'
<1>1. outcomes' \in [Identities -> VerifiedOutcome \union {NoOutcome}]
  BY DEF TypeOK
<1>2. TypeOK'
  BY <1>1 DEF TypeOK
<1>3. ASSUME NEW m \in Identities, outcomes'[m] # NoOutcome
      PROVE  TrueOutcome(m, outcomes'[m])
  <2>1. CASE m = k
    BY <2>1 DEF TypeOK
  <2>2. CASE m # k
    <3>1. outcomes'[m] = outcomes[m]
      BY <2>2 DEF TypeOK
    <3>2. QED BY <1>3, <3>1 DEF OutcomeIsTrue, TrueOutcome
  <2>3. QED BY <2>1, <2>2
<1>4. OutcomeIsTrue'
  BY <1>3 DEF OutcomeIsTrue, TrueOutcome
<1>5. QED BY <1>2, <1>4

\* A new, unpublished outcome has no message.
LEMMA MintKeepsPublications ==
    ASSUME TypeOK, PublicationExact, NEW k \in Identities, NEW o \in VerifiedOutcome,
           Mints(k, o)
    PROVE  PublicationExact'
<1>1. /\ messages' = messages /\ nextSequence' = nextSequence
      /\ config' = config /\ config # NoConfig
      /\ outcomes'[k] = o /\ ~o.published
      /\ \A m \in Identities \ {k} : outcomes'[m] = outcomes[m]
  BY DEF Mints, TypeOK
<1>2. ASSUME NEW m \in messages, NEW n \in Identities, Publishes(m, n)
      PROVE  Publishes(m, n)'
  <2>1. n # k
    BY <1>2 DEF Publishes, Mints
  <2>2. QED BY <1>1, <1>2, <2>1 DEF Publishes
<1>3. \A m \in messages' : \E n \in Identities : Publishes(m, n)'
  BY <1>1, <1>2 DEF PublicationExact
<1>4. ASSUME config.core = CoreBridge,
             NEW n \in Identities, outcomes'[n] # NoOutcome, outcomes'[n].published
      PROVE  \E m \in messages' : Publishes(m, n)'
  <2>1. n # k
    BY <1>1, <1>4
  <2>2. outcomes[n] # NoOutcome /\ outcomes[n].published
    BY <1>1, <1>4, <2>1
  <2>3. QED BY <1>1, <1>2, <1>4, <2>2 DEF PublicationExact
<1>5. /\ \A m, n \in messages' : m.sequence = n.sequence => m = n
      /\ \A m \in messages' : m.sequence < nextSequence'
  BY <1>1 DEF PublicationExact
<1>6. config.core # CoreBridge => messages' = {}
  BY <1>1 DEF PublicationExact
<1>7. QED BY <1>1, <1>3, <1>4, <1>5, <1>6 DEF PublicationExact

\* What a publication leaves of the correspondence: the other outcomes' messages,
\* and its own facts in the stamped outcome.
LEMMA PublicationFacts ==
    ASSUME TypeOK, NEW k \in Identities, NEW o \in VerifiedOutcome, NEW n \in Nat,
           NEW account \in MessageAccounts, Publication(k, o, account, n)
    PROVE  /\ outcomes'[k] = Stamped(o, account, n)
           /\ outcomes'[k] # NoOutcome /\ outcomes'[k].published
           /\ outcomes'[k].sequence = n /\ outcomes'[k].message = account
           /\ BuildPayload(k, outcomes'[k]) = BuildPayload(k, o)
           /\ \A m \in Identities \ {k} : outcomes'[m] = outcomes[m]
           /\ \A m : \A j \in Identities : Publishes(m, j) => Publishes(m, j)'
<1>1. /\ outcomes'[k] = Stamped(o, account, n)
      /\ \A m \in Identities \ {k} : outcomes'[m] = outcomes[m]
  BY DEF Publication, TypeOK
<1>2. /\ Stamped(o, account, n) \in VerifiedOutcome
      /\ Stamped(o, account, n).published
      /\ Stamped(o, account, n).sequence = n
      /\ Stamped(o, account, n).message = account
  BY StampedFacts
<1>3. BuildPayload(k, Stamped(o, account, n)) = BuildPayload(k, o)
  BY DEF BuildPayload, VerifiedOutcome, Stamped
<1>4. outcomes'[k] # NoOutcome
  BY <1>1, <1>2, CreatedFacts
<1>5. ASSUME NEW m, NEW j \in Identities, Publishes(m, j)
      PROVE  Publishes(m, j)'
  <2>1. j # k
    BY <1>5 DEF Publishes, Publication
  <2>2. QED BY <1>1, <1>5, <2>1 DEF Publishes
<1>6. QED BY <1>1, <1>2, <1>3, <1>4, <1>5

\* Through the bridge a publication adds one message with a sequence of its own,
\* and stamps it.
LEMMA BridgeKeepsPublications ==
    ASSUME TypeOK, PublicationExact, NEW k \in Identities, NEW o \in VerifiedOutcome,
           NEW account \in MessageAccounts, NEW n \in Nat, Publication(k, o, account, n),
           config.core = CoreBridge
    PROVE  PublicationExact'
<1> DEFINE new == [account |-> account, sequence |-> nextSequence,
                   payload |-> BuildPayload(k, o)]
<1>1. /\ messages' = messages \union {new} /\ nextSequence' = nextSequence + 1
      /\ config' = config /\ config # NoConfig
  BY AdapterAssumption DEF Publication, Post, PostMessage
<1>2. nextSequence \in Nat /\ n = nextSequence
  <2>1. nextSequence \in Nat
    BY DEF TypeOK
  <2>2. n = nextSequence' - 1
    BY DEF Publication, AssignedSequences
  <2>3. QED BY <1>1, <2>1, <2>2
<1>3. /\ new.account = account /\ new.sequence = nextSequence
      /\ new.payload = BuildPayload(k, o)
  OBVIOUS
<1> HIDE DEF new
<1>4. ASSUME NEW m, m = new PROVE Publishes(m, k)'
  <2>1. /\ m.account = account /\ m.sequence = n /\ m.payload = BuildPayload(k, o)
    BY <1>2, <1>3, <1>4
  <2>2. QED BY <2>1, PublicationFacts DEF Publishes
<1>5. \A m \in messages' : \E j \in Identities : Publishes(m, j)'
  <2>1. ASSUME NEW m \in messages PROVE \E j \in Identities : Publishes(m, j)'
    <3>1. PICK j \in Identities : Publishes(m, j)
      BY DEF PublicationExact
    <3>2. QED BY <3>1, PublicationFacts
  <2>2. QED BY <1>1, <1>4, <2>1
<1>6. ASSUME NEW j \in Identities, outcomes'[j] # NoOutcome, outcomes'[j].published
      PROVE  \E m \in messages' : Publishes(m, j)'
  <2>1. CASE j = k
    BY <1>1, <1>4, <2>1
  <2>2. CASE j # k
    <3>1. outcomes[j] # NoOutcome /\ outcomes[j].published
      BY <1>6, <2>2, PublicationFacts
    <3>2. PICK m \in messages : Publishes(m, j)
      BY <1>1, <3>1 DEF PublicationExact
    <3>3. QED BY <1>1, <3>2, PublicationFacts
  <2>3. QED BY <2>1, <2>2
<1>7. ASSUME NEW m \in messages PROVE m.sequence \in Nat /\ m.sequence < nextSequence
  <2>1. PICK j \in Identities : Publishes(m, j)
    BY DEF PublicationExact
  <2>2. outcomes[j] \in VerifiedOutcome
    BY <2>1, CreatedFacts DEF Publishes, TypeOK
  <2>3. outcomes[j].sequence \in Nat
    BY <2>2 DEF VerifiedOutcome
  <2>4. QED BY <2>1, <2>3 DEF Publishes, PublicationExact
<1>8. \A m \in messages' : m.sequence < nextSequence'
  BY <1>1, <1>2, <1>3, <1>7
<1>9. \A m \in messages : m.sequence # new.sequence
  BY <1>2, <1>3, <1>7
<1>10. \A m, j \in messages' : m.sequence = j.sequence => m = j
  BY <1>1, <1>9 DEF PublicationExact
<1>11. QED BY <1>1, <1>5, <1>6, <1>8, <1>10 DEF PublicationExact

\* Another program in the bridge's place leaves no message behind.
LEMMA RogueKeepsPublications ==
    ASSUME TypeOK, PublicationExact, NEW k \in Identities, NEW o \in VerifiedOutcome,
           NEW account \in MessageAccounts, NEW n \in Nat, Publication(k, o, account, n),
           config.core # CoreBridge
    PROVE  PublicationExact'
<1>1. /\ messages' = messages /\ messages = {}
      /\ config' = config /\ config # NoConfig
  BY DEF Publication, Post, PublicationExact
<1>2. QED BY <1>1 DEF PublicationExact

\* The adapter's invariant is inductive.
LEMMA NextIInv == IInv /\ [Next]_vars => IInv'
<1> SUFFICES ASSUME IInv, [Next]_vars PROVE IInv'
  OBVIOUS
<1> USE DEF IInv
<1>1. CASE Configure(MainnetTxline)
  <2>1. /\ config = NoConfig /\ config' \in Config
        /\ UNCHANGED <<outcomes, nextSequence, messages>>
    BY <1>1 DEF Configure, InitializeConfig, Config
  <2>2. TypeOK'
    BY <2>1 DEF TypeOK
  <2>3. OutcomeIsTrue'
    BY <2>1 DEF OutcomeIsTrue
  <2>4. messages = {} /\ \A k \in Identities : outcomes[k] = NoOutcome
    BY <2>1 DEF Untouched
  <2>5. PublicationExact'
    BY <2>1, <2>4 DEF PublicationExact
  <2>6. Untouched'
    BY <2>1, <2>4 DEF Untouched
  <2>7. QED BY <2>2, <2>3, <2>5, <2>6
<1>2. ASSUME NEW k \in Identities, NEW o \in VerifiedOutcome, Mints(k, o)
      PROVE  IInv'
  <2>1. nextSequence' \in Nat /\ config' # NoConfig
    BY <1>2 DEF Mints, TypeOK
  <2>2. TypeOK' /\ OutcomeIsTrue'
    BY <1>2, <2>1, WriteKeepsTruth DEF Mints
  <2>3. QED BY <1>2, <2>1, <2>2, MintKeepsPublications DEF Untouched
<1>3. ASSUME NEW k \in Identities, NEW o \in VerifiedOutcome,
             NEW account \in MessageAccounts, NEW n \in Nat, Publication(k, o, account, n)
      PROVE  IInv'
  <2>1. nextSequence' \in Nat /\ config' = config /\ config # NoConfig
    BY <1>3 DEF Publication, Post, PostMessage, TypeOK
  <2>2. /\ Stamped(o, account, n) \in VerifiedOutcome
        /\ TrueOutcome(k, Stamped(o, account, n))
    BY <1>3, StampedFacts DEF Publication
  <2>3. TypeOK' /\ OutcomeIsTrue'
    BY <1>3, <2>1, <2>2, WriteKeepsTruth DEF Publication
  <2>4. PublicationExact'
    BY <1>3, BridgeKeepsPublications, RogueKeepsPublications
  <2>5. QED BY <2>1, <2>3, <2>4 DEF Untouched
<1>4. CASE UNCHANGED vars
  BY <1>4 DEF vars, TypeOK, OutcomeIsTrue, PublicationExact, Publishes, Untouched
<1>5. QED BY <1>1, <1>2, <1>3, <1>4, Steps

\* The inductive invariant holds always.
THEOREM AdapterInvariant == Spec => []IInv
<1>1. QED BY InitIInv, NextIInv, PTL DEF Spec

\* Every account keeps its type.
THEOREM AdapterTypeCorrect == Spec => []TypeOK
<1>1. IInv => TypeOK
  BY DEF IInv
<1>2. QED BY <1>1, AdapterInvariant, PTL

\* No sequence of instructions, by whomever and with whatever arguments, puts an
\* outcome on record that TxLINE did not commit to.
THEOREM OutcomesAreTrue == Spec => []OutcomeIsTrue
<1>1. IInv => OutcomeIsTrue
  BY DEF IInv
<1>2. QED BY <1>1, AdapterInvariant, PTL

\* Messages and published outcomes correspond one to one.
THEOREM PublicationsAreExact == Spec => []PublicationExact
<1>1. IInv => PublicationExact
  BY DEF IInv
<1>2. QED BY <1>1, AdapterInvariant, PTL

\* What one step may do to the configuration and to an outcome.
FrozenStep ==
    /\ config # NoConfig => config' = config
    /\ \A k \in Identities :
          outcomes[k] # NoOutcome =>
             \/ outcomes'[k] = outcomes[k]
             \/ /\ ~outcomes[k].published
                /\ outcomes'[k] = [outcomes[k] EXCEPT
                      !.published = TRUE, !.sequence = outcomes'[k].sequence,
                      !.message = outcomes'[k].message]

\* No transaction of anybody rewrites an outcome.
LEMMA NextFrozen == IInv /\ [Next]_vars => FrozenStep
<1> SUFFICES ASSUME IInv, [Next]_vars PROVE FrozenStep
  OBVIOUS
<1> USE DEF IInv
<1>1. CASE Configure(MainnetTxline)
  BY <1>1 DEF Configure, InitializeConfig, FrozenStep
<1>2. ASSUME NEW k \in Identities, NEW o \in VerifiedOutcome, Mints(k, o)
      PROVE  FrozenStep
  <2>1. \A m \in Identities : outcomes[m] # NoOutcome => outcomes'[m] = outcomes[m]
    BY <1>2 DEF Mints, TypeOK
  <2>2. QED BY <1>2, <2>1 DEF Mints, FrozenStep
<1>3. ASSUME NEW k \in Identities, NEW o \in VerifiedOutcome,
             NEW account \in MessageAccounts, NEW n \in Nat, Publication(k, o, account, n)
      PROVE  FrozenStep
  <2>1. /\ outcomes'[k] = Stamped(o, account, n)
        /\ outcomes'[k].sequence = n /\ outcomes'[k].message = account
        /\ \A m \in Identities \ {k} : outcomes'[m] = outcomes[m]
    BY <1>3, PublicationFacts
  <2>2. Stamped(o, account, n) = [o EXCEPT !.published = TRUE,
                                     !.sequence = n, !.message = account]
    BY DEF Stamped
  <2>3. outcomes[k] # NoOutcome =>
          /\ ~outcomes[k].published
          /\ outcomes'[k] = [outcomes[k] EXCEPT
                !.published = TRUE, !.sequence = outcomes'[k].sequence,
                !.message = outcomes'[k].message]
    BY <1>3, <2>1, <2>2 DEF Publication
  <2>4. config' = config
    BY <1>3 DEF Publication
  <2>5. QED BY <2>1, <2>3, <2>4 DEF FrozenStep
<1>4. CASE UNCHANGED vars
  BY <1>4 DEF vars, FrozenStep
<1>5. QED BY <1>1, <1>2, <1>3, <1>4, Steps

\* A verified outcome is frozen but for one publication stamp; so is the
\* configuration, entirely.
THEOREM FrozenCorrect == Spec => FrozenOnceVerified
<1>1. IInv /\ [Next]_vars => [FrozenStep]_vars
  BY NextFrozen
<1>2. QED BY <1>1, AdapterInvariant, PTL DEF Spec, FrozenOnceVerified, FrozenStep

-----------------------------------------------------------------------------
Golden == IdentityOf(GoldenArgs)

\* The rehearsed arguments have their types.
LEMMA GoldenFacts ==
    /\ GoldenArgs \in Args
    /\ Golden \in Identities
    /\ Golden = <<GoldenArgs.input.fixture, GoldenArgs.input.minTs>>
    /\ GoldenRoot \in Roots
<1>1. GoldenArgs \in Args
  BY RolloutAssumption
<1>2. /\ Golden \in Identities
      /\ Golden = <<GoldenArgs.input.fixture, GoldenArgs.input.minTs>>
      /\ GoldenArgs.input \in Input
  BY <1>1, ArgsFacts DEF Golden
<1>3. GoldenArgs.input.minTs \in Timestamps
  BY <1>2 DEF Input
<1>4. QED BY <1>1, <1>2, <1>3, AdapterAssumption DEF GoldenRoot

-----------------------------------------------------------------------------
\* The rollout uses the adapter as anybody may.

\* Every step of the script and of others is a step of the adapter or none of it.
LEMMA StepsAreAdapterSteps == [RolloutNext]_rolloutVars => [Next]_vars
<1> SUFFICES ASSUME [RolloutNext]_rolloutVars PROVE [Next]_vars
  OBVIOUS
<1>1. CASE Outsider
  BY <1>1 DEF Outsider, Next
<1>2. CASE Initialize
  <2>1. /\ MainnetTxline \in Programs /\ Burner \in Signers /\ Destination \in Chains
        /\ SystemProgram \in Cores
    BY AdapterAssumption, RolloutAssumption
  <2>2. CASE InitializeConfig(Burner, MainnetTxline, SystemProgram, Burner, Destination)
    <3>1. Configure(MainnetTxline)
      BY <2>1, <2>2 DEF Configure
    <3>2. QED BY <2>1, <3>1 DEF Next
  <2>3. CASE UNCHANGED vars
    BY <2>3
  <2>4. QED BY <1>2, <2>2, <2>3 DEF Initialize
<1>3. CASE Verify
  <2>1. MainnetTxline \in Programs
    BY AdapterAssumption
  <2>2. QED BY <1>3, <2>1, GoldenFacts DEF Verify, Next
<1>4. ASSUME ~Outsider, ~Initialize, ~Verify, RolloutNext
      PROVE  UNCHANGED vars
  BY <1>4 DEF RolloutNext, Script, Preflight, Deploy, Recover, CheckConfig,
              CheckArguments, AwaitFinalized, WriteEvidence, StartRun, Interrupt, CatchUp
<1>5. CASE UNCHANGED rolloutVars
  BY <1>5 DEF rolloutVars
<1>6. QED BY <1>1, <1>2, <1>3, <1>4, <1>5

\* Whatever the script does and in whatever state it is left, the program on
\* chain sees instructions it might get from anybody.
THEOREM RolloutImplementsAdapter == RolloutSpec => Spec
<1>1. RolloutInit => Init
  BY DEF RolloutInit
<1>2. QED BY <1>1, StepsAreAdapterSteps, PTL DEF RolloutSpec, Spec

\* So the outcome a rollout leaves on mainnet is one TxLINE committed to.
THEOREM RolloutOutcomesAreTrue == RolloutSpec => []OutcomeIsTrue
<1>1. QED BY RolloutImplementsAdapter, OutcomesAreTrue, PTL

-----------------------------------------------------------------------------
\* The burner's balance.

\* A run that is past its preflight can pay for the deployment.
PurseInv ==
    /\ balance \in Int /\ locked \in Nat /\ rent \in Nat
    /\ MemoReserveKept
    /\ step = "deploy" => balance - rent - FeeAllowance >= MemoReserve

\* The purse's invariant is inductive.
LEMMA PurseNext == PurseInv /\ [RolloutNext]_rolloutVars => PurseInv'
<1> SUFFICES ASSUME PurseInv, [RolloutNext]_rolloutVars PROVE PurseInv'
  OBVIOUS
<1> USE RolloutAssumption DEF PurseInv, MemoReserveKept
<1>1. CASE StartRun
  BY <1>1 DEF StartRun, wallet
<1>2. CASE Preflight
  BY <1>2 DEF Preflight, Funded, Goto, Abort, wallet
<1>3. CASE Deploy
  <2>1. PICK fees \in 0 .. FeeAllowance : Land(fees) \/ Fall(fees)
    BY <1>3 DEF Deploy
  <2>a. /\ \E left \in {0, rent} : balance' = balance - left - fees
        /\ \E left \in {0, rent} : locked' = locked + left
    <3>1. CASE Land(fees)
      BY <3>1 DEF Land
    <3>2. CASE Fall(fees)
      BY <3>2 DEF Fall
    <3>3. QED BY <2>1, <3>1, <3>2
  <2>2. step = "deploy" /\ step' # "deploy" /\ rent' = rent
    BY <1>3 DEF Deploy, Goto
  <2>3. balance' >= MemoReserve /\ balance' \in Int
    BY <2>a, <2>2
  <2>4. locked' \in Nat
    BY <2>a
  <2>5. QED BY <2>2, <2>3, <2>4
<1>4. CASE Recover
  <2>1. step' # "deploy" /\ rent' = rent
    BY <1>4 DEF Recover, Abort, Goto
  <2>2. \/ balance' = balance + locked /\ locked' = 0
        \/ balance' = balance /\ locked' = locked
    BY <1>4 DEF Recover, wallet
  <2>3. QED BY <2>1, <2>2
<1>5. ASSUME \/ CheckConfig \/ Initialize \/ CheckArguments \/ Verify
             \/ AwaitFinalized \/ WriteEvidence \/ Interrupt
      PROVE  PurseInv'
  <2>1. step' # "deploy" /\ rent' = rent /\ UNCHANGED wallet
    BY <1>5 DEF CheckConfig, Initialize, CheckArguments, Verify, AwaitFinalized, TryAgain,
                WriteEvidence, Interrupt, Abort, Goto
  <2>2. QED BY <2>1 DEF wallet
<1>6. ASSUME Outsider \/ CatchUp \/ UNCHANGED rolloutVars
      PROVE  PurseInv'
  BY <1>6 DEF Outsider, CatchUp, rolloutVars, wallet, run
<1>7. QED BY <1>1, <1>2, <1>3, <1>4, <1>5, <1>6 DEF RolloutNext, Script

\* A burner that can pay for the memos before the first run can pay for them
\* ever after, whichever runs fail and whether or not their buffers come back.
THEOREM MemoReserveCorrect ==
    ASSUME StartBalance >= MemoReserve
    PROVE  RolloutSpec => []MemoReserveKept
<1>1. RolloutInit => PurseInv
  BY RolloutAssumption DEF RolloutInit, PurseInv, MemoReserveKept
<1>2. PurseInv => MemoReserveKept
  BY DEF PurseInv
<1>3. QED BY <1>1, <1>2, PurseNext, PTL DEF RolloutSpec

-----------------------------------------------------------------------------
\* The evidence.

\* Steps of a run that has deployed, those of a run that has also configured the
\* program, and those of one whose verification has landed.
Deployed == {"config", "initialize", "arguments", "verify", "finalized", "readback"}
Configured == {"arguments", "verify", "finalized", "readback"}
Verified == {"finalized", "readback"}

\* A run reads back only what it has written itself, since nobody can have
\* configured the program before it or rewrite it after; and evidence is of what
\* is there.
EvidenceInv ==
    /\ runs \in Nat /\ deployments \in Nat
    /\ step \in Deployed => deployments > 0
    /\ step \in Configured => config = BurnersConfig
    /\ step \in Verified => outcomes[Golden] # NoOutcome
    /\ evidence # NoEvidence => outcomes[Golden] # NoOutcome
    /\ EvidenceIsTrue

\* The burner's configuration is one.
LEMMA BurnersFacts == BurnersConfig # NoConfig
<1>1. BurnersConfig.created = TRUE /\ NoConfig.created = FALSE
  BY DEF BurnersConfig, NoConfig
<1>2. QED BY <1>1

\* In this build nobody can publish, so what is on chain stays as it is.
LEMMA ChainFrozen ==
    ASSUME IInv, \/ vars' = vars
                 \/ \E program \in Programs : Configure(program)
                 \/ \E program \in Programs, root \in Roots, a \in Args :
                       VerifyOutcome(program, root, a)
    PROVE  /\ config # NoConfig => config' = config
           /\ outcomes[Golden] # NoOutcome => outcomes'[Golden] = outcomes[Golden]
<1>1. CASE vars' = vars
  BY <1>1 DEF vars
<1>2. ASSUME NEW program \in Programs, Configure(program)
      PROVE  /\ config # NoConfig => config' = config
             /\ outcomes'[Golden] = outcomes[Golden]
  BY <1>2 DEF Configure, InitializeConfig
<1>3. ASSUME NEW program \in Programs, NEW root \in Roots, NEW a \in Args,
             VerifyOutcome(program, root, a)
      PROVE  /\ config' = config
             /\ outcomes[Golden] # NoOutcome => outcomes'[Golden] = outcomes[Golden]
  <2>1. PICK i, j \in DOMAIN a.input.stats :
           /\ Verifiable(program, root, a, i, j)
           /\ outcomes' = [outcomes EXCEPT ![IdentityOf(a)] = Recorded(root, a, i, j)]
    BY <1>3 DEF VerifyOutcome
  <2>2. outcomes[IdentityOf(a)] = NoOutcome
    BY <2>1 DEF Verifiable
  <2>3. DOMAIN outcomes = Identities
    BY DEF IInv, TypeOK
  <2>4. outcomes[Golden] # NoOutcome => outcomes'[Golden] = outcomes[Golden]
    BY <2>1, <2>2, <2>3, GoldenFacts
  <2>5. QED BY <1>3, <2>4 DEF VerifyOutcome
<1>4. QED BY <1>1, <1>2, <1>3

\* Evidence outlives every step that leaves the file alone, an upgrade included.
LEMMA EvidenceStands ==
    ASSUME EvidenceInv, evidence' = evidence,
           deployments' \in {deployments, deployments + 1},
           config # NoConfig => config' = config,
           outcomes[Golden] # NoOutcome => outcomes'[Golden] = outcomes[Golden]
    PROVE  /\ EvidenceIsTrue'
           /\ evidence' # NoEvidence => outcomes'[Golden] # NoOutcome
<1> SUFFICES ASSUME evidence # NoEvidence
             PROVE  EvidenceIsTrue' /\ outcomes'[Golden] # NoOutcome
  BY DEF EvidenceIsTrue
<1>1. /\ evidence.deployment \in 1 .. deployments /\ deployments \in Nat
      /\ config = evidence.config /\ config = BurnersConfig
      /\ outcomes[Golden] = evidence.outcome /\ outcomes[Golden] # NoOutcome
      /\ evidence.outcome.instructionHash = <<GoldenRoot, GoldenArgs>>
  BY DEF EvidenceInv, EvidenceIsTrue, Golden
<1>2. config' = config /\ outcomes'[Golden] = outcomes[Golden]
  BY <1>1, BurnersFacts
<1>3. evidence.deployment \in 1 .. deployments'
  BY <1>1
<1>4. QED BY <1>1, <1>2, <1>3 DEF EvidenceIsTrue, Golden

\* The evidence is about what is on chain, and stays so.
LEMMA EvidenceNext == IInv /\ EvidenceInv /\ [RolloutNext]_rolloutVars => EvidenceInv'
<1> SUFFICES ASSUME IInv, EvidenceInv, [RolloutNext]_rolloutVars PROVE EvidenceInv'
  OBVIOUS
<1>1. CASE UNCHANGED rolloutVars \/ Outsider \/ CatchUp
  <2>1. UNCHANGED <<evidence, deployments, step, runs>>
    BY <1>1 DEF rolloutVars, Outsider, CatchUp, run, deployed
  <2>2. /\ config # NoConfig => config' = config
        /\ outcomes[Golden] # NoOutcome => outcomes'[Golden] = outcomes[Golden]
    BY <1>1, ChainFrozen DEF rolloutVars, Outsider, CatchUp
  <2>3. QED BY <2>1, <2>2, EvidenceStands, BurnersFacts DEF EvidenceInv
<1>2. CASE StartRun \/ Preflight \/ Recover \/ CheckConfig \/ CheckArguments
           \/ AwaitFinalized \/ Interrupt
  <2>1. UNCHANGED <<evidence, deployments, config, outcomes>>
    BY <1>2 DEF StartRun, Preflight, Recover, CheckConfig, CheckArguments, AwaitFinalized,
                Interrupt, vars, deployed
  <2>2. runs' \in Nat
    BY <1>2 DEF EvidenceInv, StartRun, Preflight, Recover, CheckConfig, CheckArguments,
                AwaitFinalized, TryAgain, Interrupt, Abort, Goto
  <2>3. /\ step' \in Deployed => step \in Deployed
        /\ step' \in Configured => step \in Configured
        /\ step' \in Verified => step \in Verified
    BY <1>2 DEF Deployed, Configured, Verified, StartRun, Preflight, Recover, CheckConfig,
                CheckArguments, AwaitFinalized, TryAgain, Interrupt, Abort, Goto
  <2>4. QED BY <2>1, <2>2, <2>3, EvidenceStands DEF EvidenceInv
<1>3. CASE Deploy
  <2>1. UNCHANGED <<evidence, config, outcomes, runs>>
    BY <1>3 DEF Deploy, Goto, vars
  <2>2. PICK fees \in 0 .. FeeAllowance :
           \/ Land(fees) /\ (Goto("config") \/ Goto("recover"))
           \/ Fall(fees) /\ Goto("recover")
    BY <1>3 DEF Deploy
  <2>3. /\ \/ deployments' = deployments + 1
           \/ deployments' = deployments /\ step' = "recover"
        /\ step' \in {"config", "recover"}
    BY <2>2 DEF Land, Fall, Goto, deployed
  <2>4. deployments \in Nat
    BY DEF EvidenceInv
  <2>5. /\ deployments' \in Nat
        /\ step' \in Deployed => deployments' > 0
        /\ step' \notin Configured /\ step' \notin Verified
    BY <2>3, <2>4 DEF Deployed, Configured, Verified
  <2>6. QED BY <2>1, <2>3, <2>5, EvidenceStands DEF EvidenceInv
<1>4. CASE Initialize \/ Verify
  <2>1. deployments > 0 /\ UNCHANGED <<evidence, deployments, runs>>
    BY <1>4 DEF Initialize, Verify, Goto, Abort, EvidenceInv, Deployed, deployed
  <2>2. \/ vars' = vars
        \/ Configure(MainnetTxline)
        \/ VerifyOutcome(MainnetTxline, GoldenRoot, GoldenArgs)
    BY <1>4, RolloutAssumption DEF Initialize, Verify, Configure
  <2>3. /\ config # NoConfig => config' = config
        /\ outcomes[Golden] # NoOutcome => outcomes'[Golden] = outcomes[Golden]
    BY <2>2, ChainFrozen, GoldenFacts, AdapterAssumption
  <2>4. step' = "finalized" => outcomes'[Golden] # NoOutcome
    <3> SUFFICES ASSUME step' = "finalized" PROVE outcomes'[Golden] # NoOutcome
      OBVIOUS
    <3>1. VerifyOutcome(MainnetTxline, GoldenRoot, GoldenArgs)
      BY <1>4 DEF Initialize, Verify, Goto, Abort
    <3>2. PICK i, j \in DOMAIN GoldenArgs.input.stats :
             outcomes' = [outcomes EXCEPT ![Golden] = Recorded(GoldenRoot, GoldenArgs, i, j)]
      BY <3>1 DEF VerifyOutcome, Golden
    <3>3. outcomes'[Golden] = Recorded(GoldenRoot, GoldenArgs, i, j)
      BY <3>2, GoldenFacts DEF IInv, TypeOK
    <3>4. Recorded(GoldenRoot, GoldenArgs, i, j).created = TRUE /\ NoOutcome.created = FALSE
      BY DEF Recorded, NoOutcome
    <3>5. QED BY <3>3, <3>4
  <2>5. step' \in {"off", "arguments", "finalized"}
    BY <1>4 DEF Initialize, Verify, Goto, Abort
  <2>6. step' \in {"arguments", "finalized"} => config' = BurnersConfig
    <3>1. CASE Initialize
      <4>1. step' \in {"arguments", "finalized"} =>
               InitializeConfig(Burner, MainnetTxline, SystemProgram, Burner, Destination)
        BY <3>1 DEF Initialize, Abort, Goto
      <4>2. QED BY <4>1 DEF InitializeConfig, BurnersConfig
    <3>2. CASE Verify
      <4>1. config = BurnersConfig
        BY <3>2 DEF Verify, EvidenceInv, Configured
      <4>2. QED BY <4>1, <2>3, BurnersFacts
    <3>3. QED BY <1>4, <3>1, <3>2
  <2>7. step' \in Verified => step' = "finalized"
    BY <2>5 DEF Verified
  <2>8. step' \in Configured => step' \in {"arguments", "finalized"}
    BY <2>5 DEF Configured
  <2>9. QED BY <2>1, <2>3, <2>4, <2>6, <2>7, <2>8, EvidenceStands DEF EvidenceInv
<1>5. CASE WriteEvidence
  <2>1. /\ deployments \in Nat /\ deployments > 0 /\ outcomes[Golden] # NoOutcome
        /\ config = BurnersConfig
        /\ UNCHANGED <<config, outcomes, deployments, runs>> /\ step' = "off"
    BY <1>5 DEF WriteEvidence, Abort, Goto, vars, deployed, EvidenceInv, Deployed, Configured,
                Verified
  <2>2. step' \notin Deployed /\ step' \notin Configured /\ step' \notin Verified
    BY <2>1 DEF Deployed, Configured, Verified
  <2>3. CASE UNCHANGED evidence
    BY <2>1, <2>2, <2>3, EvidenceStands DEF EvidenceInv
  <2>4. CASE /\ ReadsBack(config, outcomes[Golden])
             /\ evidence' = [run |-> runs, config |-> config, outcome |-> outcomes[Golden],
                             deployment |-> deployments]
    <3>1. /\ evidence'.config = config /\ evidence'.outcome = outcomes[Golden]
          /\ evidence'.deployment = deployments
      BY <2>4
    <3>2. outcomes[Golden].instructionHash = <<GoldenRoot, GoldenArgs>>
      BY <2>4 DEF ReadsBack
    <3>3. deployments \in 1 .. deployments
      BY <2>1
    <3>4. EvidenceIsTrue'
      BY <2>1, <3>1, <3>2, <3>3 DEF EvidenceIsTrue, Golden
    <3>5. QED BY <2>1, <2>2, <3>4 DEF EvidenceInv
  <2>5. QED BY <1>5, <2>3, <2>4 DEF WriteEvidence, Golden
<1>6. QED BY <1>1, <1>2, <1>3, <1>4, <1>5 DEF RolloutNext, Script

\* Evidence that a run wrote is true of the chain, then and ever after, for any
\* number of runs and whoever uses the program in between.
THEOREM EvidenceCorrect == RolloutSpec => []EvidenceIsTrue
<1>1. RolloutInit => Init /\ IInv /\ EvidenceInv
  BY InitIInv DEF RolloutInit, EvidenceInv, EvidenceIsTrue, Deployed, Configured, Verified
<1>2. IInv /\ [RolloutNext]_rolloutVars => IInv'
  BY StepsAreAdapterSteps, NextIInv
<1>3. EvidenceInv => EvidenceIsTrue
  BY DEF EvidenceInv
<1>4. QED BY <1>1, <1>2, <1>3, EvidenceNext, PTL DEF RolloutSpec

=============================================================================
