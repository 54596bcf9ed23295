SPECIFICATION FairSpec
CONSTANTS
    p = p
    q = q
    other = other
    Bits <- AllBits
    Supported <- Known
    Asked <- AskedFor
    CountSpace = 256
    MaxTraces = 3
    MaxRunning = 2
INVARIANTS MaskExact NoDeadBuffers EnableMatched 
 
CHECK_DEADLOCK FALSE
