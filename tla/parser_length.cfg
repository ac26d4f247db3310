SPECIFICATION Spec
CONSTANTS
    MAX_SIZE = 16384
    LENGTH_END = 9
    packet_min_size = 11
    Buffer <- AnyBuffer
    Stale <- AnyStale
    DEPTH = 6
INVARIANT LongEnough
