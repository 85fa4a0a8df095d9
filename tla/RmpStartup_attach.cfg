SPECIFICATION Spec
CONSTANTS
    Initializer = i
    Writers = {w}
    Readers = {r}
    Unlinkers = {u}
    MaxReaders = 1
    TruncateMayFail = TRUE
    Mortal = {i, r}
INVARIANTS
    UsesConstructed
    LateCheckPasses
    SameObjects
    OrderlyStart
CHECK_DEADLOCK FALSE
