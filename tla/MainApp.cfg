\* The system stops for good in the exception handler.
SPECIFICATION FairMainSpec
CONSTANTS
    RunModes = {"none", "positioning"}
    StrayParsers = {"null", "trap"}
    QueueMax = 2
    TimerSlots = 3
INVARIANTS
    MainTypeOK
    LitHasOwner
    PositioningLit
    ToldCurrent
PROPERTY ProbeEnds
CHECK_DEADLOCK FALSE
