CONSTANTS
    p = p  init = init  resp = resp  u = u  u1 = u1  u2 = u2
    Reader = readLoop
    ProtocolUnknown = unknown
    Initiator = init
    ChCap = 1
    Scenarios <- LiveScenarios
CHECK_DEADLOCK FALSE
SPECIFICATION FairSpec
PROPERTIES
    MuxerNeverStalls
