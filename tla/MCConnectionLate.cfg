CONSTANTS
    Names = {"chain-sync"}
    Closers = {"u1"}
    Configs <- SuppliedChannel
    ErrorCap = 1
    MaxErrors = 1
SPECIFICATION Spec
INVARIANTS
    NoSendAfterClose
