SPECIFICATION Spec
CONSTANTS
    MaxReaders = 2
    Procs = {p1, p2}
    Resident = {}
    MayCrash = FALSE
INVARIANTS
    ActivatedIsInRange
CHECK_DEADLOCK FALSE
