SPECIFICATION FairSpec
CONSTANTS
    MAX_ACCEPT_COUNT = 2
    TIMEOUT = 1
    TICKS = 1
    c1 = c1
    c2 = c2
    c3 = c3
    I = I
    R = R
    NoConn = NoConn
    Conn <- TwoConn
    Fd <- OneFd
    Type <- MCTypes
    TYPE_INIT <- I
    Chunk <- Unheeded
    MaxSends = 2
    LastArrival = 1
PROPERTIES
    Answered
    AuthOrClosed
    GoneReleased
    InputRead
