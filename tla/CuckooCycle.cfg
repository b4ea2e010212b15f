CONSTANTS
    StartSize = 4
    Sizes = {2, 6}
    MaxBurst = 3
    MaxAdds = 9
    MaxResizes = 2
SPECIFICATION FilterFairSpec
INVARIANTS
    OldestForgottenFirst
PROPERTIES
    CycledWhenFull
    FullIsCycled
CHECK_DEADLOCK FALSE
