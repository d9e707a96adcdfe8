CONSTANTS
    p1 = p1
    p2 = p2
    p3 = p3
    l1 = l1
    l2 = l2
    Senders <- PraosAndLeios
    LeiosSenders <- Leios
    PraosBurst = 2
SPECIFICATION FairSpec
CHECK_DEADLOCK FALSE
INVARIANTS
    TurnHasOneOwner
    BoundedWait
PROPERTIES
    EveryWaiterLeaves
