\* Two workers with clients that wait, one worker with clients that do not.
SPECIFICATION FairSpec
CONSTANTS
    w1 = w1
    w2 = w2
    Sessions = {s1, s2}
    Fds = {1, 2}
    Conns = {a1, a2}
    Workers <- TwoWorkers
    None = None
    MaxRequests = 2
    Settings <- Ordered
INVARIANTS
    TypeOK
    ConnAlive
    NoLeak
PROPERTY ClientServed
\* The loop may wait for ever in epoll_wait: no client has to act.
CHECK_DEADLOCK FALSE
