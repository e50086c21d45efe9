\* A threshold of three sleeps of two ticks, two outages of LocalOps or silences,
\* two actions of an operator.
SPECIFICATION Spec
CONSTANTS
    Threshold = 6
    Interval = 2
    OperatorActions = {"cancel", "stop", "pause", "resume"}
    MaxOutages = 2
    MaxActions = 2
INVARIANTS TypeOK BeatsKeepItAlive VerdictIsTheCommands
PROPERTIES ImplementsLifecycle OnlySilenceBlocks LostVerdictIsFound
