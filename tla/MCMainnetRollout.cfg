SPECIFICATION RolloutSpec
CONSTANTS
    fixture = fixture
    day = day
    Fixtures = {fixture}
    Timestamps = {1}
    Roots = {day}
    DailyScoresPda <- MCDailyScoresPda
    Committed <- MCCommitted
    Args <- MCArgs
    FinalPeriod = 100
    MaxStatIndex = 2
    MainnetTxline = MainnetTxline
    Programs = {MainnetTxline}
    Signers = {burner, stranger}
    Chains = {base, ethereum}
    CoreBridge = CoreBridge
    Cores = {CoreBridge, systemProgram}
    RogueCores = {}
    RogueSequences = {}
    MessageAccounts = {}
    NoMessage = NoMessage
    Values = {0, 3}
    GoldenArgs <- MCGolden
    Burner = burner
    Destination = base
    SystemProgram = systemProgram
    StartBalance = 12
    MinimumBalance = 5
    MemoReserve = 2
    FeeAllowance = 1
    Rents = {3, 4}
    MaxAttempts = 3
    MaxRuns = 3
INVARIANTS
    EvidenceIsTrue
    MemoReserveKept
PROPERTIES
    RunEnds
CHECK_DEADLOCK FALSE
