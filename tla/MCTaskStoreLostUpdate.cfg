SPECIFICATION Spec
CONSTANTS
    Tasks = {t1}
    Handlers = {h1}
    Fields = {progress, details}
    Values = {0, 1}
    UpdateStatuses = {"queued"}
    Threshold = 1
    MaxTime = 1
    MaxEvents = 6
PROPERTY UpdateTouchesOnlyItsFields
