SPECIFICATION Spec
CONSTANTS
    Procs = {p1}
    Handles = {h1}
    MaxEvents = 2
    Faults = {}
    none = none
CHECK_DEADLOCK FALSE
INVARIANT
    FlushStores
