CONSTANTS
    h = h
    f = f
    a = a
    x = x
    y = y
    b = b
    Files = {f, x}
    Dirs = {h, a}
    Slots = {f, a}
    Within <- WithinLayout
    Requests = {r1, r2, r3}
    Edits = {e1, e2}
    Made = Made
    Absent = Absent
    NoTree = NoTree
    NoSlot = NoSlot
    MaxInFlight = 2
    MaxGCRuns = 1
    MaxCrashes = 0
    RenameFails = TRUE
    SavesFail = FALSE
    GCOverlaps = FALSE
    EditsRace = FALSE
SYMMETRY Interchangeable
SPECIFICATION Spec
CHECK_DEADLOCK FALSE
INVARIANTS
    EveryCopyTracked
    OpensOwnCopy
PROPERTIES
    EditsNeedForce
    
    ImplementsCache
