SPECIFICATION ProcessSpec
CONSTANTS
    m1 = m1
    m2 = m2
    m3 = m3
    m4 = m4
    m5 = m5
    s1 = s1
    s2 = s2
    Msg = {m1, m2, m3, m4, m5}
    CAPACITY = 2
    Session = {s1, s2}
    Of <- PacketOf
    Type <- PacketType
\* The process has ended.
CHECK_DEADLOCK FALSE
INVARIANT FreesSessions
