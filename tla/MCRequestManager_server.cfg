CONSTANTS
    Requests = {r1, r2}
SPECIFICATION Spec
CHECK_DEADLOCK FALSE
INVARIANTS
    ServerClearsRequests
