SPECIFICATION FairSpec
CONSTANTS
    MaxId = 2
    Calls = {c1}
    drive = drive
    Delays = {1}
    Interval = 1
    MaxDelay = 1
    Horizon = 2
    Turns = 1
    Lives = 2
INVARIANTS
    TypeOK
    Confirmed
    ToldOncePerLife
    Covered
PROPERTIES
    ToldFromStored
    ContractKept
    NothingWaits
CHECK_DEADLOCK FALSE
