SPECIFICATION Spec
CONSTANTS
    s1 = s1
    s2 = s2
    k1 = k1
    NoServer = NoServer
    Servers = {s1, s2}
    Keys = {k1}
    KeyOf <- KeyOfBoth
    MaxRetry = 1
    MaxTimeouts = 2
    MaxDisconnects = 1
INVARIANTS TypeOK RunRegistered RepositoryKept
PROPERTIES GoneIsRemoved
CHECK_DEADLOCK FALSE
