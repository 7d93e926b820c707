CONSTANTS
    HandshakeCodes = {"DUPLEX_COMMUNICATION", "PROPERTY_ERROR"}
    StateCheckCapacity = 2
    HandshakeBound = 1
    PingBound = 4
SPECIFICATION Spec
CHECK_DEADLOCK FALSE
CONSTRAINT QuietNetwork
INVARIANTS
    TypeOK
    CheckerIsWindow
PROPERTIES
    ClosedIsFinal
