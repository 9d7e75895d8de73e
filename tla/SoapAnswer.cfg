\* Buffers of 14 tokens: the longest answer needs two of them.
SPECIFICATION Spec
CONSTANTS
    MAX_BUF_SIZE = 14
    Answers <- AllAnswers
    Tails <- AllTails
INVARIANTS
    ToldExactly
    StatusTrue
    ContentWhole
\* One answer is read.
CHECK_DEADLOCK FALSE
