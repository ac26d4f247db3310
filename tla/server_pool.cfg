SPECIFICATION Spec
CONSTANTS
    MAX_ACCEPT_COUNT = 2
    TIMEOUT = 1
    TICKS = 1
    c1 = c1
    c2 = c2
    c3 = c3
    I = I
    R = R
    NoConn = NoConn
    Conn <- ThreeConn
    Fd <- ThreeFds
    Type <- MCTypes
    TYPE_INIT <- I
    Chunk <- Singles
    MaxSends = 1
    LastArrival = 1
SYMMETRY ConnSymmetry
INVARIANTS
    TypeOK
    PoolPartition
    DescriptorOwnership
    DebugCount
PROPERTY
    KeepsPromise
