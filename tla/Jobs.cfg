SPECIFICATION FairSpec
CONSTANTS
    Owners = {a1}
    Jobs = {j1, j2}
    Calls = {c1}
    none = none
    Endings = {"completed"}
    Limit = 2
    WakeBudget = 1
INVARIANTS
    TypeOK
    NoOrphan
    ReportedOnce
    NoLostWaiter
PROPERTIES
    ContractKept
    TeardownEnds
CHECK_DEADLOCK FALSE
