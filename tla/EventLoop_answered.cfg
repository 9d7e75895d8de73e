\* Two workers; clients close as soon as every request is answered.
SPECIFICATION Spec
CONSTANTS
    w1 = w1
    w2 = w2
    Sessions = {s1, s2}
    Fds = {1, 2}
    Conns = {a1, a2}
    Workers <- TwoWorkers
    None = None
    MaxRequests = 2
    Settings <- Hasty
INVARIANT ReadsOwnStream
CHECK_DEADLOCK FALSE
