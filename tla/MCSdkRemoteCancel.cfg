SPECIFICATION Spec
CONSTANTS
    Lossy = FALSE
    ParentMayEnd = FALSE
    OperatorActions = {"cancel", "stop"}
PROPERTY RemoteCancelReachesWorker
CHECK_DEADLOCK FALSE
