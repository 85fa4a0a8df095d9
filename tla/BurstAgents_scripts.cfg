\* The three scripts; a writer and a reader may be killed anywhere.
\* A script that failed leaves readers behind that wait for ever.
SPECIFICATION Spec
CONSTANTS
    Tests <- MCTests
    MaxAgents = 2
    MaxIterations = 2
    MaxSlots = 2
    Window = 1
    LongSleep = TRUE
    MayFail = TRUE
    Mortal <- MCMortal
    SockBuf = 2
INVARIANTS
    OneInside
    PassMeansAllReceived
    RobustReaderTests
    OwnBurst
PROPERTIES
    ScriptEnds
CHECK_DEADLOCK FALSE
