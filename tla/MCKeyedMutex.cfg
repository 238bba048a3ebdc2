CONSTANTS
    Procs = {p1, p2, p3}
    Keys = {k1, k2}
    Mutexes = {m1, m2, m3}
    NoMutex = NoMutex
    NoKey = NoKey
SPECIFICATION LiveSpec
INVARIANTS
    NoLeak
PROPERTIES
    ImplementsSlotLock
    EveryWaiterIsServed
