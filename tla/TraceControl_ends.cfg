SPECIFICATION FairSpec
CONSTANTS
    c1 = c1
    c2 = c2
    k1 = k1
    Looper = Looper
    None = None
    Callers <- TwoCallers
    Keys <- OneKey
    StartArgs <- AnyArgs
    StopOps <- AllStops
    MaxTraces = 1
    MAX_TRACES = 2
INVARIANTS
    ListenerProtocol
    StartEntryFirst
PROPERTIES
    StoppedTraceEnds
    
