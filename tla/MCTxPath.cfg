SPECIFICATION TxSpec
CONSTANTS
    NBuf = 4
    NInt = 2
    IntLengths <- MCNoLengths
    UdpEnd = 1
    LastByteWaits = TRUE
    Window = 2
    MaxId = 5
    MaxResends = 2
INVARIANTS
    WireWhole
    NoReplyLost
    ResendMatches
