SPECIFICATION Spec
CONSTANTS
    Starts = {s1}
    Ids = {i1}
    none = none
CHECK_DEADLOCK FALSE
INVARIANT
    OwnersQuiesce
