SPECIFICATION Spec
CONSTANTS
    w1 = w1
    w2 = w2
    w3 = w3
    r1 = r1
    Writers <- ThreeWriters
    Readers <- NoReaders
    Capacity = 1
    NumWords = 1
    MaxTickets = 7
    TurnSpace = 12
    kWaitersMask = 3
    NumChannels = 2
SYMMETRY WriterSymmetry
CHECK_DEADLOCK FALSE
INVARIANTS
    OneWriterPerSlot
    ChecksHold
    NoLostWakeup
    WriterBlocksOnlyOnLappedWriter
