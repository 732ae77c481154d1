SPECIFICATION Spec
CONSTANTS
    Items = {"tree", "wood", "chest"}
    NoItem = NoItem
    Limit = 2
    Width = 8
    MainSize = 2
    HudSize = 2
    CraftSide = 2
    Recipes <- MCRecipes
    Drops <- MCDrops
    Gifts <- MCGifts
    Start <- MCStart
    Clickable <- MCClickable
    Closed = Closed
    MaxCommands = 3
INVARIANTS
    CopiesAgree
PROPERTIES
    SwapsKeepItems
    CraftTakesItsInputs
CHECK_DEADLOCK FALSE
