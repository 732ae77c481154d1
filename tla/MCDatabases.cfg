SPECIFICATION DatabasesSpec
CONSTANTS
    Conns = {"c1", "c2"}
    Nicks = {"ann", "Ann", "bob"}
    Hashes = {"h1", "h2"}
    Lower <- MCLower
    None = None
INVARIANTS
    RunsOnWholeFiles
    StorageMatchesAccounts
    EnrolmentsAreNew
PROPERTIES
    ForeignFilesAreLeftAlone
    AccountsAreKept
