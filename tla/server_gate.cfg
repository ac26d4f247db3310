SPECIFICATION Spec
CONSTANTS
    MAX_ACCEPT_COUNT = 1
    TIMEOUT = 2
    TICKS = 2
    c1 = c1
    c2 = c2
    c3 = c3
    I = I
    R = R
    NoConn = NoConn
    Conn <- TwoConn
    Fd <- TwoFds
    Type <- MCTypes
    TYPE_INIT <- I
    Chunk <- Mixed
    MaxSends = 2
    LastArrival = 1
INVARIANTS
    GateExact
    AuthWindow
PROPERTY
    ClosedForCause
