SPECIFICATION FairSpec
CONSTANTS
    Procs = {p1}
    Handles = {h1}
    MaxEvents = 3
    Faults = {"write", "sync", "release"}
    none = none
CHECK_DEADLOCK FALSE
INVARIANTS
    NothingSkipped
PROPERTIES
    HandlesSettle
