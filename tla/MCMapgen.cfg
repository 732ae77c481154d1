SPECIFICATION Spec
CONSTANTS
    Chunks <- MCChunks
    Areas <- MCAreas
    Reach <- MCReach
    Absent = Absent
    QueueBound = 2
    MaxEdits = 2
    MaxCrashes = 1
INVARIANTS
    SchematicsFindTheirChunks
    TreesGrowWhole
    EditsSurvive
    StoredIsCurrent
    AreasArrive
CHECK_DEADLOCK FALSE
