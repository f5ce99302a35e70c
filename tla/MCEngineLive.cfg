SPECIFICATION FairSpec
CONSTANTS
    Node <- RemindNode
    Kind <- RemindKind
    Out <- RemindOut
    Boundary <- RemindBoundary
    Message <- RemindMessage
    StartEvents <- OneStart
    CatchEvents <- NoCatches
    Interrupting = {}
    Handled = {}
    MayFail = {}
    Client = {c1, c2}
    TimerLoop = timerLoop
    NoOne = noOne
    Nobody = nobody
    Calls = {"complete", "fail", "cancel", "message"}
    ModifyAt = {}
    StaleTimers = FALSE
    MaxTokens = 6
    MaxRows = 4
    MaxFailures = 0
    MaxCrashes = 1
PROPERTIES
    RunningTokensResume
    EveryCallReturns
CHECK_DEADLOCK FALSE
