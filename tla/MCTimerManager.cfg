SPECIFICATION Spec
CONSTANTS
    Timer = {t1, t2}
    MaxWaiters = 3
    MaxFailures = 1
    Caller = {c1}
    Loop = Loop
    NoTimer = NoTimer
    MaxTime = 1
    MayRemove = TRUE
    MayStop = TRUE
SYMMETRY MCSymmetry
INVARIANTS
    NoDuplicateWaiters
    OnlyRemovalStrands
    
