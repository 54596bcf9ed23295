CONSTANTS
    t1 = t1
    t2 = t2
    Threads <- TwoThreads
    Capacity = 4
    kOnePacketSize = 2
    Sizes <- UpToThree
    StreamSpace = 16
    MaxEntries = 3
    MaxTickets = 7
    kStreamPoolSize = 1
    ExtraSizes <- Added
    kExtraRecordCount = 4
SPECIFICATION Spec
SYMMETRY ThreadSymmetry
INVARIANT RecoveryEnds
CHECK_DEADLOCK FALSE
