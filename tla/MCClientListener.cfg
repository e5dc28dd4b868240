CONSTANTS
    c1 = c1
    c2 = c2
    c3 = c3
    Conns <- MCConns
    MaxConnections = 2
SPECIFICATION Spec
INVARIANTS OneOwner WaitingAnnounced EventsHaveProxy
PROPERTY HandshakeEnds
CHECK_DEADLOCK FALSE
