SPECIFICATION FairSpec
CONSTANTS
    Policies = {"IF_EMPTY", "ALWAYS"}
    MaxItems = 2
    MayThrow = FALSE
    StopLocks = {FALSE}
PROPERTY
    StopReturns
CHECK_DEADLOCK FALSE
