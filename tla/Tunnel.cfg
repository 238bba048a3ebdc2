CONSTANTS
    Shells = {s1, s2, s3}
    Lssh = lssh
    Own = own
    Foreign = foreign
    Length <- Lengths
    Absent = Absent
    Empty = Empty
    Torn = Torn
    NoShell = NoShell
    NoText = NoText
    MaxFaults = 2
    MaxHops = 1
SPECIFICATION LiveSpec
CHECK_DEADLOCK FALSE
INVARIANTS
    
    UpMeansProvisioned
PROPERTIES
    TunnelComesUp
