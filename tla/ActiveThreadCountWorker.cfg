SPECIFICATION Spec
CONSTANTS
    Streams = {1, 2}
    MaxData = 1
INVARIANTS TypeOK NoStreamAfterStop ContextsAreLive OneLiveStream InactiveIsRetried ConnectedInPairs
PROPERTIES NeverRevived
CHECK_DEADLOCK FALSE
