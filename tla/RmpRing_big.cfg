SPECIFICATION FairSpec
CONSTANTS
    BufSize = 8
    HdrSize = 1
    MaxReaders = 1
    MsgLens = {4}
    BpAnswers = {"wait"}
    CopyAnswers = {TRUE}
    MayCrash = {}
    BposMaxLag = 4
    PositionFirst = TRUE
    GarbageLens = {1, 8}
    MaxPos = 16
PROPERTY
    WriteCompletes
CHECK_DEADLOCK FALSE
