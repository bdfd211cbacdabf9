SPECIFICATION RxSpec
CONSTANTS
    NBuf = 3
    FrameLen = 4
    ClosingByte = 3
    QuietClocks = 4
    MaxFrames = 6
INVARIANTS
    PendingIntact
