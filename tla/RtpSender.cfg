SPECIFICATION FairSpec
CONSTANTS
    MaxFrames = 3
    UseFec = TRUE
    FecK = 2
    MaskBits = 48
    MaxQueue = 4
INVARIANTS OneChain NotRunningMeansQuiet NoHandlerAfterDestruction
PROPERTIES DestructorReturns
CHECK_DEADLOCK FALSE
