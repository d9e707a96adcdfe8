CONSTANTS
    Clients <- AnyClients
    Servers <- AnyServers
SPECIFICATION FairSpec
INVARIANTS
    RightOutcome
    SameSession
    QueryOpensNoSession
PROPERTIES
    HandshakeEnds
