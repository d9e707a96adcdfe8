\* Order, budget, drains and configurations under every disturbance.
CONSTANTS
    s1 = s1  s2 = s2  w1 = w1  d1 = d1  d2 = d2  v1 = v1  v2 = v2
    Submitters = {s1, s2}
    Drainers = {w1}
    BufSize = 1
    MaxUint = 7
    Scenarios <- SafetyScenarios
SYMMETRY WorkerSymmetry
SPECIFICATION Spec
INVARIANTS
    WithinBounds
    BlocksInOrder
    NoSendOnClosed
    
