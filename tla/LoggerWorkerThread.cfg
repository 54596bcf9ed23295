SPECIFICATION WorkerSpec
CONSTANTS
    t1 = t1
    t2 = t2
    NoTrace = NoTrace
    TraceIDs <- TwoTraces
    Capacity = 3
    MaxEntries = 4
INVARIANTS CallbackOrder FileExact  CompletedAfterDump ReleasedWhenStarted OutcomeTrue
PROPERTIES  WorkerFinishes
CHECK_DEADLOCK FALSE
