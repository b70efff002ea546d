SPECIFICATION Spec
CONSTANTS
    Mod = 12
    MaxDropout = 4
    MaxMisorder = 3
    MinSequential = 2
    FirstSeq = {0, 5, 11}
    MaxTurns = 2
    MaxReceived = 12
INVARIANTS CountsExactly ValidMeansExpected
PROPERTIES StrayIsHarmless
CHECK_DEADLOCK FALSE
