SPECIFICATION Spec
CONSTANTS
    Node = {n1, n2}
    None = none
    Slots = 2
    BootstrapExpect = 1
    MaxLog = 4
    MaxPartElections = 1
    MaxFaults = 1
SYMMETRY MCSymmetry
VIEW MCView
INVARIANTS
    AtMostOneLeader
    ReplicasAgreeOnPartitions
    InitializedLeaderHasEngine
    
CHECK_DEADLOCK FALSE
