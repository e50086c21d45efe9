\* Everything may be lost or late; the parent context may end.
SPECIFICATION Spec
CONSTANTS
    Lossy = TRUE
    ParentMayEnd = TRUE
    OperatorActions = {"cancel", "pause", "resume"}
INVARIANTS TypeOK FirstVerdictStands VerdictIsRecorded
PROPERTY PollerStops
CHECK_DEADLOCK FALSE
