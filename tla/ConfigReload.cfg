CONSTANTS
    ok1 = ok1
    ok2 = ok2
    bad = bad
    mangled = mangled
    half = half
    collector = collector
    transmission = transmission
    Contents = {ok1, ok2, bad, mangled, half}
    Start = ok1
    Rejected = {bad}
    Garbled = {mangled}
    Unparsable = {half}
    Consumers = {collector, transmission}
    MaxEdits = 3
SPECIFICATION ConfigFairSpec
INVARIANTS
    ConsumersCurrent
PROPERTIES
    FilesTakeEffect
CHECK_DEADLOCK FALSE
