SPECIFICATION CcFairSpec
CONSTANTS
    Depth = 3
    Banks = {0, 1}
    NBuf = 2
    MinMac = 3
    MaxMac = 5
INVARIANTS
    CcInv
    CrossOnce
    CleanIsWhole
    ShowsNextWord
PROPERTIES
    OffersSettled
    RequestsDrain
