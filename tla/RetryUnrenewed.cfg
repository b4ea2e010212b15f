SPECIFICATION UpstreamSpec
CONSTANTS
    N = 1
    Lifetime = 1
    MaxTicks = 2
    RedisCalls = 1
    MaxNotices = 2
    MaxChanges = 2
    MaxFileChanges = 2
INVARIANT RenewedBeforeRetry
CHECK_DEADLOCK FALSE
