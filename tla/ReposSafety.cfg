CONSTANTS
    \* Import jobs.
    Jobs = {j1, j2}
    PullRequests = {2}
    Commits = 3
    GitFaults = FALSE
    Size = 2
    MaxIssues = 2
    MaxCommits = 4
    PollAttempts = 1
    FirstIssues = 2
    LastIssues = 3
    MaxFaults = 1
    \* Repositories.
    Callers = {c1, c2}
    Sources <- MCSources
    LocalSlugs <- MCLocalSlugs
    PerPage = {0, 2}
    MAX_PER_PAGE = 2
    MaxRepos = 3
    MaxIssueRows = 2
    MaxRequests = 3
    \* Context.
    Rows <- MCRows
    Evidence = {3, 6}
    Anchors <- MCAnchors
    MAX_TERMS = 1
    Queries <- MCQueries
    Importing = FALSE
    MAX_LIMIT = 4
    MIN_BUDGET = 4
    MAX_BUDGET = 40
    MAX_BODY_CHARS = 4
    Notice = 1
    \* Runners.
    Repos = {1, 2}
    Operators = {o1}
    Workers = {w1, w2}
    Subdirs <- MCSubdirs
    Sandboxes <- MCSandboxes
    Shared = "s"
    Tokens = {"t1"}
    RETENTION = 1
    MaxAsks = 2
    MaxTasks = 2
    MaxTime = 1
INIT Init
NEXT Next
INVARIANTS  ContextTrue 
SYMMETRY Symmetric
CHECK_DEADLOCK FALSE
