\* One checker that may say degraded.
SPECIFICATION Spec
CONSTANTS
    Names = {w1}
    Calls = {c1}
    CheckStates = {"ok", "degraded", "down"}
    DefaultThreshold = 2
    RegisterThresholds = {0}
    CheckinThresholds <- KeepOrOne
    MayDrop = FALSE
    MaxEvents = 3
PROPERTIES AlertsFollowDowns
