SPECIFICATION ResponseSpec
CONSTANTS
    Sizes = {1, 2}
    MaxLength = 4
    MaxSends = 2
INVARIANTS NothingLeftOver
CHECK_DEADLOCK FALSE
