SPECIFICATION StreamSpec
CONSTANTS
    MAX_SIZE = 16384
    LENGTH_END = 9
    packet_min_size = 11
    Buffer = {}
    Stale <- AnyStale
    DEPTH = 6
    Stream <- AllStreams
INVARIANTS
    StreamTypeOK
    DepthBound
    InOrder
    NothingLost
    NothingExtra
    CutCostsOne
    OnceInOrder
    AckBound
PROPERTY Returns
