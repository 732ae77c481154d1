SPECIFICATION Spec
CONSTANTS
    c1 = c1
    c2 = c2
    c3 = c3
    c4 = c4
    c5 = c5
    Conns = {c1, c2, c3, c4, c5}
    Nicks = {"ann", "bob", "Bob", "!"}
    ValidNicks = {"ann", "bob", "Bob"}
    Ids = {"ann", "bob"}
    Lower <- AllLower
    Password <- AllPasswords
    Keys = {"position", "inventory"}
    Data = {"empty", "full"}
    Default = "empty"
    Flaky = {c4, c5}
    QueueBound = 1
    Situations <- AllSituations
    None = None
INVARIANTS
    OneSessionPerPlayer
    MissingRowsAreDue
    OnlyAuthenticatedPlay
PROPERTIES
    NoTakeover
