SPECIFICATION FairSpec
CONSTANTS
    HeaderWords = 1
    TIMEOUT = 2
    WordRange = 4
    MaxWords = 3
    MaxPackets = 2
    NoPacket = NoPacket
    Packets <- MCPackets
INVARIANTS
    MachinesInv
    BusMatchesRequest
    NothingLeftUnserved
    ReplyMatchesServed
PROPERTIES
    EveryRequestDone
