CONSTANTS
    Nodes = {1, 2}
    Self = 2
    Configured = {1, 2}
    Tries = 2
    MaxCalls = 2
    MaxChanges = 2
SPECIFICATION FairSpec
INVARIANTS
    NeverWithoutPeers
    SharderCurrent
PROPERTIES
    SharderFollows
CHECK_DEADLOCK FALSE
