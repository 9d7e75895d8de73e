\* SIGINT while a job runs.
SPECIFICATION Spec
CONSTANTS
    Errors = {e1}
    ERRNUMTOEXIT = 5
    SERVERPORT = 18083
    TryNum = 2
    Others = {}
    Keys = {k1, k2}
    Workers = {w1}
    None = None
    AnyPort = AnyPort
    MaxQueued = 1
    MayRecover = TRUE
INVARIANT CommandStays
\* The process ends.
CHECK_DEADLOCK FALSE
