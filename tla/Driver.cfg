SPECIFICATION FairSpec
CONSTANTS
    m1 = m1
    m2 = m2
    Msgs <- TwoMsgs
    Causes <- UserCancels
    MaxSteps = 2
    MaxInsert = 2
    MaxNest = 2
CHECK_DEADLOCK FALSE
INVARIANTS
    TypeOK
    InboxConsistent
PROPERTIES
    TraceOK
    ClaimAccounted
    AbortHonoured
    LateWakeServed
