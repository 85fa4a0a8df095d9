SPECIFICATION FairSpec
CONSTANTS
    ChannelReaders = {c1, c2}
    OneQueue = {TRUE, FALSE}
    LiveList = {TRUE, FALSE}
    MayClose = TRUE
    MayOverride = TRUE
    KeepHistory = FALSE
    Window = 2
    MaxPosts = 3
INVARIANTS
    NoGaps
    ActiveIffReaders
    CalmAssertionsHold
PROPERTY
    StreamIsRead
CHECK_DEADLOCK FALSE
