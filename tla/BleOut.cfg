SPECIFICATION FairOutSpec
CONSTANTS
    QueueMax = 2
    Slots = 3
    DriverMax = 3
    PostMax = 7
    LineFails = TRUE
INVARIANTS
    CopyAlive
    SlotsReturn
PROPERTIES
    ImplementsChannel
    EveryPacketSettled
CHECK_DEADLOCK FALSE
