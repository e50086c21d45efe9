SPECIFICATION Spec
CONSTANTS
    Tasks = {t1, t2}
    Threshold = 4
    SweepInterval = 2
    MaxSweep = 1
    MaxFailures = 1
    MaxBoots = 2
INVARIANTS TypeOK
PROPERTIES OncePerEpisodeAndBoot EveryEpisodeAlerts
