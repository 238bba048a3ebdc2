CONSTANTS
    Lengths = {0, 1, 2, 3, 4, 5, 6, 7}
    MaxPayload = 3
    PipeSize = 2
    Padding = 2
SPECIFICATION PullLiveSpec
CHECK_DEADLOCK FALSE
INVARIANTS
    VerdictIsTrue
PROPERTIES
    ReapingEnds
