\* The system stops for good in the exception handler.
SPECIFICATION MainSpec
CONSTANTS
    RunModes = {"none", "positioning"}
    StrayParsers = {"null", "trap"}
    QueueMax = 2
    TimerSlots = 3
PROPERTY StartPosKeepsLight
CHECK_DEADLOCK FALSE
