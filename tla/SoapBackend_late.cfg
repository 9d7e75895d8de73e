\* The server may answer after select has given up.
SPECIFICATION Spec
CONSTANTS
    N = 2
    None = None
    Modes <- Late
INVARIANT AnswerMatches
\* The thread has run all its commands.
CHECK_DEADLOCK FALSE
