SPECIFICATION Spec
CONSTANTS
    first = first
    second = second
    Data = {first, second}
    Nothing = Nothing
    QueueSize = 2
    MaxDrain = 1
    RetryCount <- MCRetryCount
    Capacity = 2
    MaxRetry = 2
INVARIANTS TypeOK FireStateIsTask
PROPERTIES QueuedIsSent WaitingIsRetried
CHECK_DEADLOCK FALSE
