SPECIFICATION FairSpec
CONSTANTS
    Nil = Nil
    a1 = a1
    a2 = a2
    b1 = b1
    A = A
    B = B
    Spans = {a1, a2, b1}
    TraceIDs = {A, B}
    TraceOf <- MCTraceOf
    Roots <- MCRoots
    SamplerKeys = {"ka"}
    SamplerKeyOf <- MCSamplerKeyOf
    SentCacheType = "cuckoo"
    StartSentSize = 1
    DefaultCapacity = 3
    StartConfig <- MCStart
    Configs <- MCKeptSizes
    QueueFactor = 1
    ShrinkFloor = 1
    TraceTimeout = 0
    SendDelay = 0
    MaxReloads = 1
    MayStop = FALSE
PROPERTIES
    EverySpanSettles
    ReloadTakesHold
