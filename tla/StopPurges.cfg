SPECIFICATION Spec
CONSTANTS
    Nil = Nil
    a1 = a1
    a2 = a2
    b1 = b1
    A = A
    B = B
    Spans = {a1, a2, b1}
    TraceIDs = {A, B}
    TraceOf <- MCTraceOf
    Roots <- MCRoots
    SamplerKeys = {"ka", "kb"}
    SamplerKeyOf <- MCSamplerKeyOf
    SentCacheType = "legacy"
    StartSentSize = 1
    DefaultCapacity = 3
    StartConfig <- MCStart
    Configs <- MCConfigs
    QueueFactor = 2
    ShrinkFloor = 1
    TraceTimeout = 1
    SendDelay = 0
    MaxReloads = 0
    MayStop = TRUE
INVARIANT
    PurgedAtStop
CHECK_DEADLOCK FALSE
