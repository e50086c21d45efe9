\* Concurrent check-ins of every kind; callers hang up; thresholds change.
SPECIFICATION Spec
CONSTANTS
    Names = {w1}
    Calls = {c1, c2}
    CheckStates = {"ok", "degraded", "down"}
    DefaultThreshold = 2
    RegisterThresholds = {0, 1}
    CheckinThresholds <- KeepOrOne
    MayDrop = TRUE
    MaxEvents = 6
SYMMETRY CallSymmetry
INVARIANTS TypeOK RowFollowsHistory OrderlyChangesAreAnnounced
PROPERTIES AlertsAreDeserved ImplementsAnnouncements
