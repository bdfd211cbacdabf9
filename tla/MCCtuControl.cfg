SPECIFICATION FairSpec
CONSTANTS
    MAX_BLOCK_TRANSFER_DEPTH = 2
    WordRange = 3
    Items <- MCItems
    Depths = {0, 3}
    DataLists <- MCDataLists
    MaxCalls = 3
    trig_info = 0
    force_trig = 1
    other = 2
    Typed = {1}
INVARIANTS
    InOneRun
    WholeWhenReturned
    TriggerReleased
    PairTogether
PROPERTIES
    EveryCommandEnds
