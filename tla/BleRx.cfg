\* The phone sends PktMax packets and stops.
SPECIFICATION FairRxSpec
CONSTANTS
    BufLen = 7
    PktMax = 3
    LossMax = 1
    QueueMax = 1
INVARIANTS
    NoFalseAlarm
PROPERTIES
    AcceptedOnce
    PacketsGetThrough
    FirstCorruptionCleared
CHECK_DEADLOCK FALSE
