\* Two goroutines inside Store.Update at once; callers put no terminal status
\* in an update, as the SDK puts none.
SPECIFICATION Spec
CONSTANTS
    Tasks = {t1}
    Handlers = {h1, h2}
    Fields = {details}
    Values = {0}
    UpdateStatuses = {"queued"}
    Threshold = 1
    MaxTime = 2
    MaxEvents = 5
SYMMETRY HandlerSymmetry
INVARIANTS TypeOK ControlFollowsHistory OutcomeFollowsHistory StatusFollowsHistory
PROPERTIES EveryChangeIsLogged ImplementsLifecycle
