CONSTANTS
    a = a
    b = b
    Roles = {a, b}
    LiveRoles = {a}
    Sizes = {2}
    Overhead = 1
    Scenarios <- MCScenarios
    DefaultLimit = 3
    DefaultBudget = 5
    MaxInt = 6
    MaxExtension = 1
    ChCap = 1
SPECIFICATION IngressFairSpec
CHECK_DEADLOCK FALSE
INVARIANTS
    Accounting
    StreamInOrder

    
