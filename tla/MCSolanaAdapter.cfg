SPECIFICATION FairSpec
CONSTANTS
    f1 = f1
    f2 = f2
    dayOne = dayOne
    dayTwo = dayTwo
    impostor = impostor
    Fixtures = {f1, f2}
    Timestamps = {1, 2}
    Roots = {dayOne, dayTwo}
    DailyScoresPda <- MCDailyScoresPda
    Committed <- MCCommitted
    Args <- MCArgs
    FinalPeriod = 100
    MaxStatIndex = 2
    MainnetTxline = MainnetTxline
    Programs = {MainnetTxline, impostor}
    Signers = {keystone, stranger}
    Chains = {base, ethereum}
    CoreBridge = CoreBridge
    Cores = {CoreBridge, rogue, systemProgram}
    RogueCores = {rogue}
    RogueSequences = {0}
    MessageAccounts = {m1, m2, m3}
    NoMessage = NoMessage
    Values = {0, 1, 2, 3}
INVARIANTS
    OutcomeIsTrue
    PublicationExact
PROPERTIES
    ProvableIsPublished
CHECK_DEADLOCK FALSE
