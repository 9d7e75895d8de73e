\* One worker with segments that end anywhere, and two workers on one client.
SPECIFICATION FairSpec
CONSTANTS
    w1 = w1
    w2 = w2
    Workers <- TwoWorkers
    Base = 4
    Settings <- Both
INVARIANTS
    TypeOK
    InOrder
    UsedOnce
PROPERTY AllParsed
\* The client may have nothing more to say.
CHECK_DEADLOCK FALSE
