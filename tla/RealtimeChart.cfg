SPECIFICATION Spec
CONSTANTS
    Sockets = {1, 2}
    MaxSent = 0
    Applications = {"a"}
INVARIANTS TimersRun BoundIsServed ShownIsSubscribed ToldWhenClosed
CHECK_DEADLOCK FALSE
