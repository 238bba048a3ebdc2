CONSTANTS
    Daemons = {d1, d2, d3}
    Hosts = {h1, h2}
    Entries = {e1, e2}
    NoOne = NoOne
    NoHost = NoHost
SYMMETRY Interchangeable
SPECIFICATION Spec
CHECK_DEADLOCK FALSE
INVARIANTS
    SocketsLead
    RefusedForARival
PROPERTIES
    TokensSurvive
    
