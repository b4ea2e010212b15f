CONSTANTS
    ok1 = ok1
    ok2 = ok2
    bad = bad
    mangled = mangled
    half = half
    collector = collector
    transmission = transmission
    Contents = {ok1, ok2, bad}
    Start = ok1
    Rejected = {bad}
    Garbled = {}
    Unparsable = {}
    Consumers = {collector, transmission}
    MaxEdits = 2
SPECIFICATION ConfigFairSpec
PROPERTY
    LiveReload
CHECK_DEADLOCK FALSE
