CONSTANTS
    Requests = {r1, r2}
SPECIFICATION FairSpec
CHECK_DEADLOCK FALSE
INVARIANTS
    ListenerOnce
    NothingLeaks
    StopLeavesNoRequest
PROPERTIES
    KeepsPromise
    RequestCompletes
