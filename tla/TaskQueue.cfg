SPECIFICATION FairSpec
CONSTANTS
    Tasks = {t1, t2}
    Workers = {w1, w2}
    Concurrency = 2
    Attempts = 2
    ListensInTime = TRUE
    NoTask = NoTask
    NoWorker = NoWorker
    MaxFaults = 3
INVARIANTS
    OneTaskPerChild
PROPERTIES
    ProvidesService
    EveryTaskEnds
CHECK_DEADLOCK FALSE
