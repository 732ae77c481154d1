SPECIFICATION FairSpec
CONSTANTS
    c1 = c1
    c2 = c2
    c3 = c3
    c4 = c4
    c5 = c5
    Conns = {c1, c2}
    Nicks = {"bob"}
    ValidNicks = {"bob"}
    Ids = {"bob"}
    Lower <- ReturnLower
    Password <- ReturnPassword
    Keys <- ReturnKeys
    Data = {"empty", "full"}
    Default = "empty"
    Flaky = {c1}
    QueueBound = 2
    Situations <- ReturnSituations
    None = None
INVARIANTS
    InventoryIsStored
PROPERTIES
    JoinsWithStoredRows
    WaitingPlayersJoin
    GhostsLeave
