\* Two check-ins of one watcher at once.
SPECIFICATION Spec
CONSTANTS
    Names = {w1}
    Calls = {c1, c2}
    CheckStates = {"ok", "down"}
    DefaultThreshold = 2
    RegisterThresholds = {1}
    CheckinThresholds = {1}
    MayDrop = FALSE
    MaxEvents = 3
INVARIANTS OutagesAreAnnounced
