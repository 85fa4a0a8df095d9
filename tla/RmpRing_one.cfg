SPECIFICATION Spec
CONSTANTS
    BufSize = 8
    HdrSize = 2
    MaxReaders = 1
    MsgLens = {1, 2}
    BpAnswers = {"wait", "write", "throw"}
    CopyAnswers = {TRUE, FALSE}
    MayCrash = {"writer", "reader"}
    BposMaxLag = 4
    PositionFirst = TRUE
    GarbageLens = {1, 8}
    MaxPos = 16
INVARIANTS
    ProtectedIntact
    StreamWellFormed
    ExpiredJustified
    AssertionsHold
PROPERTY
    ImplementsStream
CHECK_DEADLOCK FALSE
