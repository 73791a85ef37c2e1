SPECIFICATION Spec
CONSTANTS
    m1 = m1
    m2 = m2
    Msgs <- TwoMsgs
    Causes <- UserCancels
    MaxSteps = 2
    MaxInsert = 2
    MaxNest = 1
CHECK_DEADLOCK FALSE
INVARIANT
    LiveDriverClaims
