SPECIFICATION FairSpec
CONSTANTS
    Registers <- MCRegisters
    Items <- MCItems
    Data <- MCData
    WholeMask <- MCWholeMask
    MAX_TRANSACTION_ID = 3
    MAX_QUEUED_REQUESTS = 2
    Faults = {}
    NoAnswer = NoAnswer
    MaxCalls = 3
INVARIANTS
    ClientInv
PROPERTIES
    SuccessDrains
    ImplementsService
