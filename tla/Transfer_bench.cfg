SPECIFICATION Spec
CONSTANTS
    Benches = {"rmp", "tp"}
    Burst = 3
    Iterations = 2
    Window = 2
    SockBuf = 1
INVARIANTS
    OutcomeTrue
    ForcedPastAwake
PROPERTIES
    BenchEnds
CHECK_DEADLOCK FALSE
