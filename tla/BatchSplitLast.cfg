SPECIFICATION Spec
CONSTANTS
    Shapes <- MCShapes
    Lists <- MCLists
    Adders = {a1, a2}
    BadHosts = {"bad"}
    MaxBatchSize = 3
    PendingWorkCapacity = 1
    MaxConcurrentBatches = 1
    MaxFlushes = 2
    maxApiSize = 3
INVARIANT
    OnlyOversizedDropped
CHECK_DEADLOCK FALSE
