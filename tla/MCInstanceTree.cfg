SPECIFICATION Spec
CONSTANTS
    Shapes <- MCShapes
    MaxFailures = 1
INVARIANTS
    ParentsMatchChildren
    EveryItemOnce
    EndedTreesAreQuiet
    NoCircularWait
CHECK_DEADLOCK FALSE
