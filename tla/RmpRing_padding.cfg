SPECIFICATION Spec
CONSTANTS
    BufSize = 8
    HdrSize = 2
    MaxReaders = 1
    MsgLens = {1, 2}
    BpAnswers = {"wait"}
    CopyAnswers = {TRUE}
    MayCrash = {}
    BposMaxLag = 4
    PositionFirst = TRUE
    GarbageLens = {1, 8}
    MaxPos = 16
INVARIANTS
    ExpiredWasOverwritten
CHECK_DEADLOCK FALSE
