SPECIFICATION FairSpec
CONSTANTS
    Players = {p1, p2}
    Chunks <- MCChunks
    Places <- MCPlaces
    Origin = 0
    Default = 2
    MapgenRadius = 1
    SentRadius = 2
    TreeReach = 1
    None = None
    Stored = {0}
    Flaky = {p1}
    MaxSessions = 2
    MaxActs = 1
INVARIANTS
    SentIsCurrent
    NothingIsMissing
PROPERTIES
    SurroundingsArrive
    RowsCatchUp
CHECK_DEADLOCK FALSE
