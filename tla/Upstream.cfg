SPECIFICATION UpstreamFairSpec
CONSTANTS
    N = 2
    Lifetime = 2
    MaxTicks = 2
    RedisCalls = 1
    MaxNotices = 2
    MaxChanges = 2
    MaxFileChanges = 1
INVARIANTS
    OKMeansDelivered
    FirstRefusalRenews
PROPERTIES
    CallsReturn
    RingFollows
CHECK_DEADLOCK FALSE
