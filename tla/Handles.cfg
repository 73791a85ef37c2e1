SPECIFICATION Spec
CONSTANTS
    Procs = {p1, p2}
    Handles = {h1, h2}
    MaxEvents = 2
    Faults = {"write", "sync"}
    none = none
SYMMETRY Symmetry
CHECK_DEADLOCK FALSE
CONSTRAINTS
    NotStray
    OneFlush
INVARIANTS
    TypeOK
    WriterHoldsLock
    InOrder
    PromisesStored
PROPERTIES
    StoredRefined
