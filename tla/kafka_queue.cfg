SPECIFICATION Spec
CONSTANTS
    m1 = m1
    m2 = m2
    m3 = m3
    m4 = m4
    Msg = {m1, m2, m3, m4}
    CAPACITY = 2
\* The process has ended.
CHECK_DEADLOCK FALSE
PROPERTY PutInQueue
