CONSTANTS
    t1 = t1
    t2 = t2
    Threads <- TwoThreads
    Capacity = 4
    kOnePacketSize = 2
    Sizes <- UpToThree
    StreamSpace = 16
    MaxEntries = 4
    MaxTickets = 7
    kStreamPoolSize = 1
    ExtraSizes <- Added
    kExtraRecordCount = 4
SPECIFICATION Spec
SYMMETRY ThreadSymmetry
INVARIANTS RecoveryExact LostOnlyBehindTorn StartNotMissed
CHECK_DEADLOCK FALSE
