SPECIFICATION RelaySpec
CONSTANTS
    emitter = emitter
    rpc1 = rpc1
    rpc2 = rpc2
    rpc3 = rpc3
    Fixtures = {match}
    AttestationIds <- MCIds
    ZeroId = ZeroId
    Results = {1, 2}
    Accounts = {deployer}
    Level3Address = Level3Address
    Level4Address = Level4Address
    Addresses = {deployer, Level3Address, Level4Address}
    ZeroAddress = ZeroAddress
    InitialOwner = deployer
    InitialForwarder = deployer
    Reports <- MCReports
    Vaas <- MCVaas
    SourceChain = solana
    RegisteredEmitter = emitter
    OurChain = base
    MarketFixture = match
    Escrow = 100
    Feeds <- MCFeeds
    Configured = {{}}
    None = None
    DayLength = 10
    DailyRoot <- MCDailyRoot
    RootAccount = "root"
    TxOracle = "oracle"
    Sequence = 1
    Providers = {rpc1, rpc2, rpc3}
    ProviderQuorum = 2
    Behaviours <- MCQuorum
    RivalVersions <- MCRivals
    MaxKills = 1
    MaxCorrections = 1
INVARIANTS
    LanesDeliverOneDigest
    FinalityEventsAreReal
