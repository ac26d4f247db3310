SPECIFICATION Spec
CONSTANTS
    CRC16_GENERATOR <- Generator
    Data <- ShortData
    Noise <- SomeNoise
\* A packet is checked once.
CHECK_DEADLOCK FALSE
INVARIANTS
    TypeOK
    ExactVerdict
    Detects
    DetectsBurst
