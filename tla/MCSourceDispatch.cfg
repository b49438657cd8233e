SPECIFICATION FairSpec
CONSTANTS
    Chunks = 3
    MaxTicks = 4
    ReadyAfter = 1
    MaxCrashes = 2
    RootAccount = RootAccount
    Pdas = {RootAccount, otherDay}
    NoPda = NoPda
INVARIANTS
    HandoffIsSealed
    EventsAreReal
PROPERTIES
    StagedOnce
    StagedUnlessInterrupted
