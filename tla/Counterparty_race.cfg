SPECIFICATION Spec
CONSTANTS
    None = None
    Requests = {r1, r2}
    Keys = {k1}
    States <- RaceStates
    Observations <- RaceObservations
    WriteLimit = 2
CHECK_DEADLOCK FALSE
INVARIANTS
    TypeOK
    NoEquivocation
    AcknowledgedKept
PROPERTIES
    AnswersStay
