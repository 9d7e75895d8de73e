\* A prompt server, one that answers late and in parts, and one that drops connections.
SPECIFICATION FairSpec
CONSTANTS
    N = 3
    None = None
    Modes <- Everything
INVARIANTS
    TypeOK
    AtMostOnce
    SocketsAccounted
PROPERTIES
    Implements
    AllDone
\* The thread has run all its commands.
CHECK_DEADLOCK FALSE
