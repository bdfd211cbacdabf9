SPECIFICATION FairSpec
CONSTANTS
    Clients = {"one", "two"}
    Requests <- MCRequests
    Empty = Empty
    Addresses <- MCAddresses
    ResetAddr = 2
    ValueBits = 2
    REQUEST_QUEUE_SIZE = 1
    MaxPackets = 3
INVARIANTS
    RepliesPassChecks
    RepliesReachAsker
PROPERTIES
    EveryPacketServed
    ServerStops
CHECK_DEADLOCK FALSE
