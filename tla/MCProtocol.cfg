CONSTANTS
    Scenarios <- SafetyScenarios
    MaxPerSegment = 2
    SendQueueSize = 2
    RecvQueueSize = 1
    RecvBudget = 2
    MaxStrays = 2
CHECK_DEADLOCK FALSE
SPECIFICATION Spec
INVARIANTS
    EngineConsistent
    OneConversation
    NoFalseViolation
