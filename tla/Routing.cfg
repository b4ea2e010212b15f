SPECIFICATION FairSpec
CONSTANTS
    Nodes = {"n1", "n2"}
    Traces = {"t"}
    NoTrace = "none"
    Requests = {1, 2, 3, 4, 5}
    Spans = {1, 2, 3, 4, 5, 6}
    Kind <- MCKind
    At <- MCAt
    Events <- MCEvents
    TraceOf <- MCTraceOf
    Views <- MCViews
    Lookups = {4, 5}
    Gzipped = {5}
CONSTANT MaxChanges = 1
INVARIANTS
    OneCollectorPerTrace
    AtMostOneHop
    AnswerIsFate
PROPERTIES
    RequestsSettle
CHECK_DEADLOCK FALSE
