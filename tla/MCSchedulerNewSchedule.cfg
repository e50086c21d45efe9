SPECIFICATION Spec
CONSTANTS
    Schedules = {s1}
    Seeded = {}
    Intervals = {1}
    TicksPerSecond = 2
    MaxTime = 4
    MaxFailures = 0
    MaxBoots = 1
PROPERTY ScheduledMeansRun
