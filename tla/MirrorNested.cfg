CONSTANTS
    h = h
    f = f
    a = a
    x = x
    y = y
    b = b
    Files = {x, y}
    Dirs = {h, a}
    Slots = {a, x}
    Within <- WithinLayout
    Requests = {r1, r2, r3}
    Edits = {e1}
    Made = Made
    Absent = Absent
    NoTree = NoTree
    NoSlot = NoSlot
    MaxInFlight = 1
    MaxGCRuns = 2
    MaxCrashes = 1
    RenameFails = TRUE
    SavesFail = TRUE
    GCOverlaps = FALSE
    EditsRace = FALSE
SYMMETRY Interchangeable
SPECIFICATION Spec
CHECK_DEADLOCK FALSE
INVARIANTS
    FileAndDirNeverOverlap
    
    EditsAreVisible
PROPERTIES
    EntryGuardsEdits
    GCKeepsEdits
