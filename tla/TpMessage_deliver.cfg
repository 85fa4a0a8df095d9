SPECIFICATION MessageSpec
CONSTANTS
    Characters = {"/", "a", "b"}
    Topics <- MCTopics
    Lens = {1, 2, 5, 9, 12, 60, 63, 66}
    MaxMessageSize = 20
    Word = 64
INVARIANTS
    Delivered
    SizesChecked
CHECK_DEADLOCK FALSE
