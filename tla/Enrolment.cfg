CONSTANTS
    p1 = p1
    p2 = p2
    p3 = p3
    p4 = p4
    Setups = {p1, p2, p3, p4}
    Label <- Given
    Labels <- Accepted
    Port <- Ports
    Length <- Lengths
    Absent = Absent
    Empty = Empty
    Torn = Torn
SPECIFICATION Spec
CHECK_DEADLOCK FALSE
INVARIANTS
    EnrolledStays
    SavedConfigLoads
