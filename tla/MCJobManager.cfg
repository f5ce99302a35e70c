SPECIFICATION FairSpec
CONSTANTS
    Node = {n1}
    Part = {"p1"}
    c1 = c1
    c2 = c2
    Client = {c1, c2}
    Type = {"t"}
    Job = {1}
    TypeOf <- OneType
    PartOf <- OnePart
    None = none
    MaxActive = 1
    MaxRequests <- SubscribeTwice
    MaxFaults = 1
    MaxRestarts = 1
INVARIANTS
    LockedJobsAreNotShared
    LocksLeakOnlyAfterFaults
    DispatcherWaitsForAServedClient

    
CHECK_DEADLOCK FALSE
