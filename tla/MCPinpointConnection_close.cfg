CONSTANTS
    HandshakeCodes = {"DUPLEX_COMMUNICATION"}
    StateCheckCapacity = 1
    HandshakeBound = 1
    PingBound = 0
SPECIFICATION Spec
CHECK_DEADLOCK FALSE
INVARIANTS
    ClosedHandlerIsClosed
