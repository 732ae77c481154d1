SPECIFICATION Spec
CONSTANTS
    ann = ann
    bob = bob
    Players = {ann, bob}
    Pos = {"p"}
    Items = {"chest", "stone"}
    NoItem = NoItem
    Air = "air"
    HasInventory = {"chest"}
    Limit = 2
    Width = 8
    MainSize = 1
    HudSize = 1
    CraftSide = 1
    Recipes <- MCRecipes
    ChestSize = 1
    Start <- MCStart
    StartBlocks <- MCStartBlocks
    StartChests <- MCStartChests
    None = None
    MaxCommands = 3
INVARIANTS
    ViewsAgree
    ChestsHaveInventories
PROPERTIES
    ItemsAreKept
SYMMETRY MCSymmetry
CHECK_DEADLOCK FALSE
