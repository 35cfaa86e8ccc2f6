\* The clients make ReqMax requests and stop.
SPECIFICATION FairPoSpec
CONSTANTS
    MaxBqRequests = 3
    ReqMax = 6
    BusOutcomes = {"complete", "error", "refused"}
INVARIANTS
    ServedIsUnanswered
    DataOnce
    NoneOverwritten
PROPERTIES
    AllAnswered
    ServedIsAnswered
CHECK_DEADLOCK FALSE
