CONSTANTS
    HandshakeCodes = {"SIMPLEX_COMMUNICATION"}
    StateCheckCapacity = 2
    HandshakeBound = 2
    PingBound = 0
SPECIFICATION FairSpec
CHECK_DEADLOCK FALSE
INVARIANTS
    HandshakeAgreement
    ServerGrantsFirst
    CloseHasAnAuthor
    ClientEndsClosed
    ServerEndsClosed
PROPERTIES
    LostServerIsReconnected
    HandshakeEnds
    CloseTakesBothEndsDown
    AcceptorCloseReachesClient
