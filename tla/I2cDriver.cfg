SPECIFICATION FairI2cSpec
CONSTANTS
    BufferObjects = 3
    Lengths <- ShortOrCut
    TransferMax = 3
INVARIANTS
    AloneIsSafe
    StatusTellsOutcome
    WithinBuffers
PROPERTIES
    TransfersEnd
CHECK_DEADLOCK FALSE
