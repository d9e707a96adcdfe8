CONSTANTS
    Scenarios <- LiveScenarios
    MaxPerSegment = 2
    SendQueueSize = 1
    RecvQueueSize = 1
    RecvBudget = 2
    MaxStrays = 2
CHECK_DEADLOCK FALSE
SPECIFICATION FairSpec
PROPERTIES
    LoopsProgress
    TakesTurns
