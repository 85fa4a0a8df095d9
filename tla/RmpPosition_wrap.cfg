SPECIFICATION PositionFairSpec
CONSTANTS
    Mod = 64
    BufSize = 8
    BposMaxLag = 4
    Sizes = {2, 3, 7, 15}
INVARIANTS
    NeverOvertaken
PROPERTY
    WaitEnds
CHECK_DEADLOCK FALSE
