CONSTANTS
    p = p  init = init  resp = resp  u = u  u1 = u1  u2 = u2
    Reader = readLoop
    ProtocolUnknown = unknown
    Initiator = init
    ChCap = 1
    Scenarios <- SafetyScenarios
SYMMETRY UserSymmetry
SPECIFICATION Spec
INVARIANTS
    NoneUnaccounted
    NothingMisdelivered
PROPERTIES
    LateSegmentIsNotFatal
