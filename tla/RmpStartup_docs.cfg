\* What the documentation says and the code does not do: tlc -continue.
SPECIFICATION Spec
CONSTANTS
    Initializer = i
    Writers = {w}
    Readers = {r}
    Unlinkers = {u}
    MaxReaders = 1
    TruncateMayFail = FALSE
    Mortal = {}
INVARIANTS
    FlagMeansComplete
    AttachedMaskRight
    NoBusError
    CreatesOrOpens
CHECK_DEADLOCK FALSE
