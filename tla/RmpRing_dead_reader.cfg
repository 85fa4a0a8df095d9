SPECIFICATION FairSpec
CONSTANTS
    BufSize = 8
    HdrSize = 1
    MaxReaders = 1
    MsgLens = {2}
    BpAnswers = {"wait"}
    CopyAnswers = {TRUE}
    MayCrash = {"reader"}
    BposMaxLag = 4
    PositionFirst = TRUE
    GarbageLens = {1, 8}
    MaxPos = 16
PROPERTY
    WriteCompletes
CHECK_DEADLOCK FALSE
