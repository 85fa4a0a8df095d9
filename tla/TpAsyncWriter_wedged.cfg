SPECIFICATION Spec
CONSTANTS
    Posters = {t1}
    Workers = {w1}
    Window = 2
    BpAnswers = {"wait"}
    SendFails = TRUE
    MaxPosts = 4
    MaxPending = 1
INVARIANTS
    QueueHasDrainer
CHECK_DEADLOCK FALSE
