SPECIFICATION TxFairSpec
CONSTANTS
    NBuf = 2
    NInt = 2
    IntLengths <- MCLengths
    UdpEnd = 1
    LastByteWaits = FALSE
    Window = 1
    MaxId = 2
    MaxResends = 1
INVARIANTS
    MuxInv
PROPERTIES
    RepliesGoOut
