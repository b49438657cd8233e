SPECIFICATION BaseSpec
CONSTANTS
    f1 = f1
    f2 = f2
    b1 = b1
    b2 = b2
    emitter = emitter
    impostor = impostor
    solana = solana
    elsewhere = elsewhere
    base = base
    ethereum = ethereum
    Fixtures = {f1, f2}
    AttestationIds <- MCIds
    ZeroId = ZeroId
    Results <- MCResults
    Accounts = {deployer, keeper}
    Level3Address = Level3Address
    Level4Address = Level4Address
    Addresses = {deployer, keeper, Level3Address, Level4Address}
    ZeroAddress = ZeroAddress
    InitialOwner = deployer
    InitialForwarder = deployer
    Reports <- MCReports
    Vaas <- MCVaas
    SourceChain = solana
    RegisteredEmitter = emitter
    OurChain = base
    MarketFixture = f1
    Escrow = 100
INVARIANTS
    StatusMatchesRecords
    Level4Backed
    ReceiverMirrorsRegistry
    VaaSpentExactly
    Level3SpentExactly
    SettlementIsFinal
PROPERTIES
    ProvisionalWinnerStands
    ImplementsDualFinality
