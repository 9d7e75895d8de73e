\* Every kind of item, alone and beside a good one; the database works or fails.
SPECIFICATION Spec
CONSTANTS
    Table <- SmallTable
    Messages <- AllMessages
    MaxMessages = 2
    DbFails = {"open", "prepare", "step"}
INVARIANTS
    TypeOK
    AllOrNothing
    HandleOpen
    NothingLeft
\* The job ends.
CHECK_DEADLOCK FALSE
