SPECIFICATION Spec
CONSTANTS
    Owners = {a1}
    Jobs = {j1, j2}
    Calls = {c1}
    none = none
    Endings = {"completed"}
    Limit = 2
    WakeBudget = 1
PROPERTY
    TeardownSilent
CHECK_DEADLOCK FALSE
