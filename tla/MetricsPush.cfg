CONSTANTS
    Main = main
    GrpcCalls = {c1}
    Pushers = {p1}
    Callers = {c1, p1}
    Configs <- ConfigsDef
SPECIFICATION FairSpec
INVARIANTS
    SettlesAlone
PROPERTIES
    Converges
    PushesGetThrough
CHECK_DEADLOCK FALSE
