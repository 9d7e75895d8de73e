\* Two workers, three outstanding jobs, fair threads.
SPECIFICATION FairSpec
CONSTANTS
    Nodes = {n1, n2, n3}
    NULL = NULL
    Junk = Junk
    threads_num = 2
INVARIANTS
    TypeOK
    ListShape
    SingleOwner
    SemAccounting
    ExitTokens
    DrainAlone
PROPERTIES
    JobLeavesQueue
    StopCompletes
    Implements
