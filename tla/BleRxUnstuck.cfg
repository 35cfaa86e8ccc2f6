\* The phone sends PktMax packets and stops.
SPECIFICATION FairRxSpec
CONSTANTS
    BufLen = 7
    PktMax = 3
    LossMax = 2
    QueueMax = 1
PROPERTIES
    Unstuck
CHECK_DEADLOCK FALSE
