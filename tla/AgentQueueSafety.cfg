\* Every runner has a ceiling; racing producers, an operator, every fault.
SPECIFICATION Spec
CONSTANTS
    Workers = {w1, w2}
    Producers = {p1, p2}
    Repos = {1}
    Tasks = {1, 2}
    Keys = {k}
    Priorities = {0}
    Ceilings = {1, 2}
    EnvCeiling = 0
    MaxAttempts = 2
    MaxOps = 1
    MaxFaults = 1
    NoWorker = NoWorker
    NoKey = NoKey
    NoRepo = NoRepo
    NoTask = NoTask
SYMMETRY MCSymmetry
INVARIANTS ThrottleOvershoot
PROPERTIES DoneByHolder LostLeaseStaysLost CeilingRespected
