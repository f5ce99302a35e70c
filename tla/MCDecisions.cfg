SPECIFICATION FairSpec
CONSTANTS
    Caller = {c1, c2, c3}
    Runner = {r1, r2, r3}
    maxVmPoolSize = 2
    minVmPoolSize = 1
    Diagram <- MCDiagram
    Variables <- MCVariables
    Task <- MCTask
INVARIANTS
    RunnersAreCounted
    RequirementsAreEvaluatedAlone
    TasksWriteOnlyTheirResults
    
PROPERTY EveryCallGetsARunner
