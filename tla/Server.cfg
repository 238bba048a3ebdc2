CONSTANTS
    c1 = c1
    c2 = c2
    c3 = c3
    t1 = t1
    t2 = t2
    s1 = s1
    s2 = s2
    Conns = {c1, c2, c3}
    Tunnels = {t1, t2}
    TunnelOf <- Through
    Slots = {s1, s2}
    SlotOf <- Names
    Max = 2
    NoConn = NoConn
SPECIFICATION LiveSpec
CHECK_DEADLOCK FALSE
INVARIANTS
    HandlersBounded
    SlotsGivenBack
PROPERTIES
    LateRequestsEnd
    EveryConnectionIsServed
