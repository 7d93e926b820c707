CONSTANTS
    Attempts = 1
SPECIFICATION Spec
CHECK_DEADLOCK FALSE
INVARIANTS
    ForceCloseCloses
