SPECIFICATION BackendSpec
CONSTANTS
    chunk = chunk
    nameIdMap = nameIdMap
    inventory = inventory
    v1 = v1
    v2 = v2
    NoValue = NoValue
    ChunkKeys = {chunk}
    GlobalKeys = {nameIdMap}
    PlayerKeys = {inventory}
    Values = {v1, v2}
    WritesPerTransaction = 2
    MaxWrites = 5
INVARIANTS
    ReadsSeeEveryWrite
    DiskIsAPrefix
    TransactionBound
PROPERTIES
    ImplementsDurableLog
