SPECIFICATION FairSpec
CONSTANTS
    Posters = {t1, t2}
    Workers = {w1, w2}
    Window = 2
    BpAnswers = {"wait", "write", "throw"}
    SendFails = TRUE
    MaxPosts = 5
    MaxPending = 1
INVARIANTS
    OneDrainer
    PostOrder
    SleepsWithNothingToRead
PROPERTY
    PostedIsRead
CHECK_DEADLOCK FALSE
