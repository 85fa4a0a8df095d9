\* The reader starts too late and the writer never dies: violated.
SPECIFICATION Spec
CONSTANTS
    Tests <- MCRobustWriter
    MaxAgents = 2
    MaxIterations = 1
    MaxSlots = 2
    Window = 1
    LongSleep = TRUE
    MayFail = FALSE
    Mortal = {}
    SockBuf = 2
INVARIANT RobustWriterTests
CHECK_DEADLOCK FALSE
