SPECIFICATION Spec
CONSTANTS
    Node <- ChoiceNode
    Kind <- ChoiceKind
    Out <- ChoiceOut
    Boundary <- ChoiceBoundary
    Message <- ChoiceMessage
    StartEvents <- OneStart
    CatchEvents <- ChoiceCatches
    Interrupting = {"late"}
    Handled = {"auto"}
    MayFail = {"auto", "task"}
    Client = {c1, c2}
    TimerLoop = timerLoop
    NoOne = noOne
    Nobody = nobody
    Calls = {"complete", "message", "cancel", "resolve"}
    ModifyAt = {}
    StaleTimers = TRUE
    MaxTokens = 6
    MaxRows = 4
    MaxFailures = 0
    MaxCrashes = 0
SYMMETRY MCSymmetry
INVARIANTS
    ExactlyOnePath
    EndedHasNoWork
    
    

    
CHECK_DEADLOCK FALSE
