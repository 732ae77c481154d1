SPECIFICATION WorldSpec
CONSTANTS
    Seeds = {78, 79}
    Names = {"air", "tree", "sand", "coal", "iron"}
    Builtin <- MCBuiltin
    ParamFiles <- MCParamFiles
    ReservedCount = 4
    Chunks = {"c1", "c2"}
    NoValue = NoValue
    WritesPerTransaction = 2
    MaxWrites = 6
INVARIANTS
    WorldTypeOK
    OneSeed
    BlocksKeepTheirNames
