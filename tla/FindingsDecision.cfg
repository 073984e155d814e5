\* The decision route as it is: it flushes and commits nothing.
CONSTANTS
    Handlers = {h1, h2}
    Commits = {c1, c2}
    Issues = {i1}
    Marks = {f1}
    Settings <- MCSettings
    Cooldown = TRUE
    Ceiling = 2
    MaxTasks = 2
    MaxPosts = 2
    MaxFaults = 1
    Matches = {f1, f2}
    Meta = meta
    Blocking = {f2}
    Ingests = {w1, w2}
    Contexts <- MCContexts
    NoPolicy = NoPolicy
    NoiseThreshold = 1
    Committing = FALSE
    MaxDay = 1
    MaxEvents = 4
    Kinds = {"review", "fix", "checks"}
    Scripts = {"", "sharp", "blunt"}
    Manifests = {"", "validated", "unvalidated", "malformed", "twice"}
    Policies <- MCPolicies
    Overrides = {""}
    SeedTimesOut = FALSE
    MaxCheckTasks = 2
    MaxCommitted = 1
    MaxDays = 1
    MaxOpen = 2
    MaxProposals = 1
INIT Init
NEXT Next
INVARIANT DecisionKept
CHECK_DEADLOCK FALSE
