CONSTANTS
    \* Model routes.
    Editors = {e1, e2}
    Names = {"a"}
    Bodies <- MCBodies
    Masters = {"", "m1"}
    SealOnline = FALSE
    MAX_CONTEXT_WINDOW = 2
    MAX_OUTPUT_TOKENS = 2
    MaxRoutes = 2
    MaxEdits = 3
    \* Build mirrors.
    Archives <- MCArchives
    Indexes = {"python", "node"}
    Walks = {"nvm", "latest", "catalog", "page"}
    SyncsAtBoot = FALSE
    WatchPackages = TRUE
    MaxWrites = 3
    MaxWalks = 2
    \* Counters.
    timer = timer
    forced = forced
    proc = proc
    Processes = {proc}
    Home <- MCHome
    Files <- MCFiles
    Sizes = {1, 3}
    ApiKeys = {"k"}
    MaxDiskChanges = 1
    MaxEvents = 2
    MaxRefreshes = 2
    MaxRestarts = 1
    \* The schema.
    Booters = {b1, b2}
    Dialects = {"postgresql", "sqlite"}
    Releases <- MCReleases
    MaxSchemaBoots = 3
INIT Init
NEXT Next
INVARIANTS    UpgradeTrue
CHECK_DEADLOCK FALSE
