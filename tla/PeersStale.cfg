CONSTANTS
    Nodes = {1, 2}
    Self = 2
    Configured = {1, 2}
    Tries = 2
    MaxCalls = 2
    MaxChanges = 1
SPECIFICATION FairSpec
PROPERTY
    AlwaysFollows
CHECK_DEADLOCK FALSE
