SPECIFICATION Spec
CONSTANTS
    Node <- JumpNode
    Kind <- JumpKind
    Out <- JumpOut
    Boundary <- JumpBoundary
    Message <- JumpMessage
    StartEvents <- OneStart
    CatchEvents <- JumpCatches
    Interrupting = {"reply"}
    Handled = {}
    MayFail = {"catch"}
    Client = {c1, c2}
    TimerLoop = timerLoop
    NoOne = noOne
    Nobody = nobody
    Calls = {"complete", "resolve", "cancel", "message", "modify", "assign"}
    ModifyAt = {"task"}
    StaleTimers = FALSE
    MaxTokens = 5
    MaxRows = 2
    MaxFailures = 1
    MaxCrashes = 1
SYMMETRY MCSymmetry
PROPERTIES
    EndedIsFinal
CHECK_DEADLOCK FALSE
