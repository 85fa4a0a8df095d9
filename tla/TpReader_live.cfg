SPECIFICATION Spec
CONSTANTS
    ChannelReaders = {c1, c2}
    OneQueue = {TRUE}
    LiveList = {TRUE}
    MayClose = TRUE
    MayOverride = FALSE
    KeepHistory = FALSE
    Window = 2
    MaxPosts = 3
INVARIANTS
    ListNotEmpty
CHECK_DEADLOCK FALSE
