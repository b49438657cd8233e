SPECIFICATION FairSpec
CONSTANTS
    Chunks = 3
    MaxTicks = 4
    ReadyAfter = 0
    MaxCrashes = 1
    RootAccount = RootAccount
    Pdas = {RootAccount, otherDay}
    NoPda = NoPda
PROPERTIES
    FinalIsStaged
