SPECIFICATION RingFairSpec
CONSTANTS
    NBuf = 4
    None <- MCNone
INVARIANTS
    RingTypeOK
    WriterOwnsFreeBuffer
    SendsOldest
    PendingIsOrder
PROPERTIES
    NobodyStarves
    ImplementsFifo
