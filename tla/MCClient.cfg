SPECIFICATION FairSpec
CONSTANTS
    c1 = c1
    c2 = c2
    air = air
    stone = stone
    grass = grass
    flower = flower
    unknown = unknown
    Nobody = Nobody
    Clients = {c1, c2}
    Blobs = {h1, h2}
    Size = 3
    Blocky <- MCBlocky
    Crossed <- MCCrossed
    Undrawn = {air}
    Fallback = "black"
    Situations <- MCSituations
    Aims <- MCAims
INVARIANTS
    DrawnIsCurrent
    OnlyAClashFails
PROPERTIES
    EverythingIsShown
CHECK_DEADLOCK FALSE
