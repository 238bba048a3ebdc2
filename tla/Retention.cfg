CONSTANTS
    N = 3
    Sizes = {0, 1, 2}
    Caps = {0, 2, 3}
SPECIFICATION LoopSpec
CHECK_DEADLOCK FALSE
INVARIANTS
    ExpiredAreGone
    UnderCapUnlessProtected
    OldestFirst
PROPERTY
    EvictsOnlyOverCap
