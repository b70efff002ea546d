SPECIFICATION Spec
CONSTANTS
    Mod = 32
    MaxDropout = 8
    MaxMisorder = 4
    MinSequential = 2
    First = 4
    FecK = {2, 3, 4}
    MaskBits = 16
    BufferSize = 5
    Delay = 2
    NoUtility = NoUtility
    Frames = 9
INVARIANTS TypeOK NoBrokenFrame FramesInOrder RecoversLoneLosses BufferGrowsWithRecoveries MaskNamesGroup StatisticsAddUp
CHECK_DEADLOCK FALSE
