SPECIFICATION FairLoopSpec
CONSTANTS
    m1 = m1
    m2 = m2
    m3 = m3
    m4 = m4
    m5 = m5
    reader = reader
    Kafka = Kafka
    Msg = {m1, m2, m3, m4, m5}
    Kind <- FiveKinds
    PIPE = 1
    Server = {reader}
\* A crashed process stops.
CHECK_DEADLOCK FALSE
INVARIANTS
    LoopTypeOK
    WakeupPending
    ReadWaits
PROPERTIES
    Batched
    Served
    DrainEnds
    Consumed
