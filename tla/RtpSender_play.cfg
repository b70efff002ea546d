SPECIFICATION Spec
CONSTANTS
    MaxFrames = 2
    UseFec = FALSE
    FecK = 0
    MaskBits = 48
    MaxQueue = 3
INVARIANTS PlayingMeansStreaming
CHECK_DEADLOCK FALSE
