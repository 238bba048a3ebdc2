CONSTANTS
    h = h
    f = f
    a = a
    x = x
    y = y
    b = b
    Files = {x}
    Dirs = {h, a}
    Slots = {a, x}
    Within <- WithinLayout
    Requests = {r1, r2}
    Edits = {e1}
    Made = Made
    Absent = Absent
    NoTree = NoTree
    NoSlot = NoSlot
    MaxInFlight = 1
    MaxGCRuns = 0
    MaxCrashes = 0
    RenameFails = FALSE
    SavesFail = FALSE
    GCOverlaps = FALSE
    EditsRace = FALSE
SYMMETRY Interchangeable
SPECIFICATION Spec
CHECK_DEADLOCK FALSE
PROPERTY
    EditsNeedForce
