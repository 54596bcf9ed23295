SPECIFICATION Spec
CONSTANTS
    p = p
    q = q
    other = other
    Bits <- AllBits
    Supported <- Known
    Asked <- AskedFor
    CountSpace = 256
    MaxTraces = 3
    MaxRunning = 2
INVARIANTS FullTransition
CHECK_DEADLOCK FALSE
