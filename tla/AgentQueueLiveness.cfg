\* Fair workers, two bounded repositories to lock, crashes and failures.
SPECIFICATION FairSpec
CONSTANTS
    Workers = {w1, w2}
    Producers = {p1}
    Repos = {1, 2}
    Tasks = {1, 2}
    Keys = {}
    Priorities = {0}
    Ceilings = {1}
    EnvCeiling = 0
    MaxAttempts = 2
    MaxOps = 0
    MaxFaults = 1
    NoWorker = NoWorker
    NoKey = NoKey
    NoRepo = NoRepo
    NoTask = NoTask
PROPERTIES Settles ClaimEnds ImplementsTaskLease
