CONSTANTS
    Sizes = {0, 1, 2, 3}
    MaxChunk = 2
    ClientCap = 2
    DaemonCap = 2
    Buffer = 3
SPECIFICATION LiveSpec
CHECK_DEADLOCK FALSE
INVARIANTS
    PayloadsAreExact
    SuccessIsTrue
    EarlyErrorsComeFirst
    WaitersAreTold

    
