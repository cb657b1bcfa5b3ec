CONSTANTS
    Plans <- MCPlans
    Workers = {w1}
    Wakers = {k1}
    Client = c
    None = none
    MaxThreads = 2
    MaxParks = 1
    MaxYields = 1
    MaxFaults = 1
SPECIFICATION Spec
INVARIANTS PipelineOrder TasksAccounted NothingOutlives SuccessIsReal
PROPERTIES StatementEnds
