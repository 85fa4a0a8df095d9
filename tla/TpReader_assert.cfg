SPECIFICATION Spec
CONSTANTS
    ChannelReaders = {c1, c2}
    OneQueue = {FALSE}
    LiveList = {FALSE}
    MayClose = TRUE
    MayOverride = FALSE
    KeepHistory = TRUE
    Window = 2
    MaxPosts = 3
INVARIANTS
    AssertionsHold
CHECK_DEADLOCK FALSE
