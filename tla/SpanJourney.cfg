CONSTANTS
    MaxUint32 = 15
    MaxInt32 = 7
    Rates = {0, 1, 3}
    Wires <- WiresDef
    Scenarios <- ScenariosDef
SPECIFICATION Spec
INVARIANTS
    TranslatedAsDefined
    SentAsReceived
    SameAtOwner
    NestedSamples
    RateAtLeastOne
CHECK_DEADLOCK FALSE
