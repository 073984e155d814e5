\* Two replicas around one task: a fix, or a review that may escalate.
SPECIFICATION RunSpec
CONSTANTS
    Workers = {w1, w2}
    Producers = {p1}
    Repos = {1}
    Tasks = {1}
    Keys = {}
    Priorities = {0}
    Ceilings = {0}
    EnvCeiling = 0
    MaxAttempts = 2
    MaxOps = 1
    MaxFaults = 1
    Runs = {1, 2}
    Kinds = {"review", "fix"}
    NoWorker = NoWorker
    NoKey = NoKey
    NoRepo = NoRepo
    NoTask = NoTask
    NoRun = NoRun
SYMMETRY MCSymmetry
INVARIANTS SelectedIsQueued RunConsistent DoneIsEarned DuplicatesCost
PROPERTY PullRequestHead
