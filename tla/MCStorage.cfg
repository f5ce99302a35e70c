SPECIFICATION Spec
CONSTANTS
    Null = Null
    Inst = {1, 2}
    Child = {2}
    Parent = 1
    Elem = 1
    Does <- MCDoes
    TTLs <- MCTTLs
    Threshold = 1
    MaxTime = 2
    MaxVersion = 2
    MaxFaults = 1
CONSTRAINT MCConstraint
ACTION_CONSTRAINT MCActionConstraint
INVARIANTS
    
    CleanupRemovesWhatItSelected
PROPERTIES
    HistoryIsKept
CHECK_DEADLOCK FALSE
