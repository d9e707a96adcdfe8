CONSTANTS
    Names = {"chain-sync"}
    Closers = {"u1"}
    Configs <- NodeConfigs
    ErrorCap = 1
    MaxErrors = 1
SPECIFICATION FairSpec
INVARIANTS
    SetupInOrder
    ClosedCleanly
PROPERTIES
    SetupReturns
    EndsClosed
