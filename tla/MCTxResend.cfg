SPECIFICATION TxSpec
CONSTANTS
    NBuf = 3
    NInt = 2
    IntLengths <- MCNoLengths
    UdpEnd = 1
    LastByteWaits = TRUE
    Window = 3
    MaxId = 4
    MaxResends = 1
INVARIANTS
    WireWhole
