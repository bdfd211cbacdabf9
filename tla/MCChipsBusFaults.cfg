SPECIFICATION FairSpec
CONSTANTS
    Registers <- MCRegisters
    Items <- FaultItems
    Data <- MCData
    WholeMask <- MCWholeMask
    MAX_TRANSACTION_ID = 2
    MAX_QUEUED_REQUESTS = 2
    Faults = {"duplicate", "reorder", "lap", "empty", "stale"}
    NoAnswer = NoAnswer
    MaxCalls = 2
INVARIANTS
    UniformQueueReturnsReads
PROPERTIES
    EveryCallReturns
