SPECIFICATION Spec
CONSTANTS
    MaxReaders = 3
    Procs = {p1, p2}
    Resident = {1}
    MayCrash = TRUE
INVARIANTS
    ListedInRange
    VisitsListed
    QuietRangeExact
CHECK_DEADLOCK FALSE
