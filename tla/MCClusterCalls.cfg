SPECIFICATION Spec
CONSTANTS
    Null = Null
    KeySpace = 100
    Node = {1, 2}
    Partition = {1, 2}
    Scenarios <- MCScenarios
    MaxCalls = 2
    MaxLost = 1
INVARIANTS AcknowledgedDeploymentsAreEverywhere SubscriptionsAreReachable 
 
CHECK_DEADLOCK FALSE
