SPECIFICATION FairSpec
CONSTANTS
    N = 3
    Limit = 2
CHECK_DEADLOCK FALSE
INVARIANTS
    TypeOK
    PoolKept
    StepAccounted
PROPERTIES
    CancellationTold
    Terminates
    LogOrdered
    NothingStartsAfterAbort
