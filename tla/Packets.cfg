CONSTANTS
    Blocks = {b1, b2, b3, b4, b5}
    NULL = NULL
    QueueMax = 2
    Slots = 2
    Inputs <- SomeInputs
    ReqMax = 2
    ReportMax = 3
    ReopenMax = 2
SPECIFICATION PkSpec
SYMMETRY HeapSymmetry
CHECK_DEADLOCK FALSE
INVARIANT PkTypeOK
INVARIANT OneOwner
INVARIANT WellFormed
PROPERTY AnswersMatch
PROPERTY ProbeNamed
