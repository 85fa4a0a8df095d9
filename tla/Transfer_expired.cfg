\* Main is not notified of the expiry and sleeps on: violated.
SPECIFICATION Spec
CONSTANTS
    Benches = {"tp"}
    Burst = 3
    Iterations = 1
    Window = 2
    SockBuf = 1
PROPERTY ExpiryEnds
CHECK_DEADLOCK FALSE
