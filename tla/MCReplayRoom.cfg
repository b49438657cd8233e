SPECIFICATION FairSpec

CONSTANTS
    Recordings <- MCRecordings
    LiveRun <- Retried
    LiveAvailable = TRUE
    Quorum = 13
    NoManifest = NoManifest
    MaxClicks = 4

INVARIANTS
    LitExactly
    RailsFillInOrder
    NoteTellsWhy

PROPERTIES
    AutoplayShowsAll

CHECK_DEADLOCK FALSE
