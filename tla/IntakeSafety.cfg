\* Two deliveries, two ingesting runs, and two runs judged by their repository's checks.
\* Committing: decisions are taken as committed, which the route does not do (FindingsDecision.cfg).
CONSTANTS
    Handlers = {h1, h2}
    Commits = {c1, c2}
    Issues = {i1}
    Marks = {f1}
    Settings <- MCSettings
    Cooldown = TRUE
    Ceiling = 2
    MaxTasks = 2
    MaxPosts = 2
    MaxFaults = 1
    Matches = {f1, f2}
    Meta = meta
    Blocking = {f2}
    Ingests = {w1, w2}
    Contexts <- MCContexts
    NoPolicy = NoPolicy
    NoiseThreshold = 1
    Committing = TRUE
    MaxDay = 1
    MaxEvents = 4
    Kinds = {"review", "fix", "checks"}
    Scripts = {"", "sharp", "blunt"}
    Manifests = {"", "validated", "unvalidated", "malformed", "twice"}
    Policies <- MCPolicies
    Overrides = {""}
    SeedTimesOut = FALSE
    MaxCheckTasks = 2
    MaxCommitted = 1
    MaxDays = 1
    MaxOpen = 2
    MaxProposals = 1
INIT Init
NEXT Next
INVARIANTS DeliveriesTrue FindingsTrue 
PROPERTIES ReopenedForCause
CHECK_DEADLOCK FALSE
