\* What the documentation says and the code does not do: tlc -continue.
SPECIFICATION Spec
CONSTANTS
    ChannelReaders = {c1, c2}
    OneQueue = {TRUE}
    LiveList = {FALSE}
    MayClose = FALSE
    MayOverride = FALSE
    KeepHistory = TRUE
    Window = 2
    MaxPosts = 3
INVARIANTS
    OnlyNewMessages
    NothingMissed
CHECK_DEADLOCK FALSE
