\* A second is too short and the reader misses the messages: violated.
SPECIFICATION Spec
CONSTANTS
    Tests <- MCRobustReader
    MaxAgents = 2
    MaxIterations = 1
    MaxSlots = 2
    Window = 1
    LongSleep = FALSE
    MayFail = FALSE
    Mortal = {}
    SockBuf = 2
PROPERTY ScriptEnds
CHECK_DEADLOCK FALSE
