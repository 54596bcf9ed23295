CONSTANTS
    t1 = t1
    t2 = t2
    Threads <- TwoThreads
    Capacity = 3
    kOnePacketSize = 2
    Sizes <- UpToThree
    StreamSpace = 8
    MaxEntries = 3
    MaxTickets = 6
    kStreamPoolSize = 1
SPECIFICATION Spec
SYMMETRY ThreadSymmetry
INVARIANTS ForwardExact BackwardExact BoundedStreams DumpReaches
CHECK_DEADLOCK FALSE
