\* A server that crashes and is started again; no other program wants its port.
SPECIFICATION ServiceSpec
CONSTANTS
    Errors = {}
    ERRNUMTOEXIT = 5
    SERVERPORT = 18083
    TryNum = 2
    Others = {}
    Keys = {k1}
    Workers = {w1}
    None = None
    AnyPort = AnyPort
    MaxQueued = 1
    MayRecover = FALSE
INVARIANT ListensAtPort
\* The service ends.
CHECK_DEADLOCK FALSE
