\* Messages are written before the reader is added: violated.
SPECIFICATION Spec
CONSTANTS
    Benches = {"tp"}
    Burst = 3
    Iterations = 1
    Window = 2
    SockBuf = 1
PROPERTY LateEnds
CHECK_DEADLOCK FALSE
