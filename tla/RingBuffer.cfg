SPECIFICATION FairSpec
CONSTANTS
    w1 = w1
    w2 = w2
    w3 = w3
    r1 = r1
    Writers <- TwoWriters
    Readers <- OneReader
    Capacity = 2
    NumWords = 2
    MaxTickets = 3
    TurnSpace = 16
    kWaitersMask = 7
    NumChannels = 4
INVARIANTS
    IInv
    ReadIsExact
PROPERTIES
    ReadFailsOnlyWhenLapped
    ImplementsStream
    WriteCompletes
    ReadReturns
