\* A burst of one message is never counted: violated.
SPECIFICATION Spec
CONSTANTS
    Tests <- MCSingle
    MaxAgents = 2
    MaxIterations = 1
    MaxSlots = 2
    Window = 1
    LongSleep = TRUE
    MayFail = FALSE
    Mortal = {}
    SockBuf = 2
INVARIANT PassMeansAllCounted
CHECK_DEADLOCK FALSE
