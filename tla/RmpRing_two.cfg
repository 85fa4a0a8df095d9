SPECIFICATION FairSpec
CONSTANTS
    BufSize = 8
    HdrSize = 1
    MaxReaders = 2
    MsgLens = {2}
    BpAnswers = {"wait"}
    CopyAnswers = {TRUE}
    MayCrash = {}
    BposMaxLag = 8
    PositionFirst = FALSE
    GarbageLens = {2}
    MaxPos = 12
INVARIANTS
    IInv
PROPERTIES
    NoUnreadByteOverwritten
    ImplementsStream
    WriteCompletes
CHECK_DEADLOCK FALSE
