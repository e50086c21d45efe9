SPECIFICATION Spec
CONSTANTS
    Schedules = {s1, s2}
    Seeded = {s1}
    Intervals = {1, 2}
    TicksPerSecond = 2
    MaxTime = 9
    MaxFailures = 1
    MaxBoots = 2
INVARIANTS TypeOK AtMostOncePerInterval
PROPERTY DueSchedulesRun
