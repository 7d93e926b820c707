CONSTANTS
    Attempts = 3
SPECIFICATION FairSpec
CHECK_DEADLOCK FALSE
INVARIANTS
    OneChannelAtATime
    NeverForgotten
PROPERTIES
    PublishedInOrder
    ClosedStopsReconnecting
