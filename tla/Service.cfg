\* The daemon and a server that fails, crashes or is told to stop.
SPECIFICATION FairService
CONSTANTS
    Errors = {e1, e2}
    ERRNUMTOEXIT = 2
    SERVERPORT = 18083
    TryNum = 2
    Others = {18083, 18084}
    Keys = {k1}
    Workers = {w1}
    None = None
    AnyPort = AnyPort
    MaxQueued = 1
    MayRecover = TRUE
INVARIANTS
    ServiceTypeOK
    EndsWithServer
PROPERTIES
    LastingErrorEnds
    InterruptHeeded
    ServerBack
\* The service ends.
CHECK_DEADLOCK FALSE
