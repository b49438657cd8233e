SPECIFICATION FairSpec
CONSTANTS
    noScore = noScore
    none = none
    watched = watched
    other = other
    Fixtures = {watched, other}
    Watched = watched
    NoScore = noScore
    None = none
    Committed <- MCCommitted
    Records <- MCRecords
    Proofs <- MCProofs
    MaxRecords = 1
    MaxProofs = 2
    MaxStarts = 2
    MaxMemos = 1
INVARIANTS
    MemoIsTrue
PROPERTIES
    AlwaysEnds
    EventuallyVerified
CHECK_DEADLOCK FALSE
