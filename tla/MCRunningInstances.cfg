SPECIFICATION Spec
CONSTANTS
    Goroutine = {g1, g2, g3}
    Key = {k1, k2}
    Entry = {e1, e2, e3, e4}
    NoGoroutine = NoGoroutine
    NoEntry = NoEntry
    MaxTries = 2
    MaxAbandoned = 3
SYMMETRY MCSymmetry
INVARIANTS
    MutualExclusion
    UnlockFindsItsMutex
    WaitersCount
PROPERTY ImplementsInstanceLock
CHECK_DEADLOCK FALSE
