SPECIFICATION FairSpec
CONSTANTS
    Policies = {"IF_EMPTY", "ALWAYS"}
    MaxItems = 4
    MayThrow = TRUE
    StopLocks = {TRUE, FALSE}
INVARIANTS
    SerialOrder
    StopDrains
PROPERTIES
    ItemsTakenUp
    LockedStopReturns
CHECK_DEADLOCK FALSE
