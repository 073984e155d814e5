\* Two pages opened and four requests sent; two documents, three requests
\* and two texts typed.
CONSTANTS
    RepoSlugs = {"a", "b"}
    Filters = {"x"}
    Drafts <- MCDrafts
    Identities <- MCIdentities
    Reordering = FALSE
    MAX_RETRIES = 1
    BOOT_MAX_RETRIES = 1
    WARM_MAX_POLLS = 2
    MaxMounts = 2
    MaxAsks = 4
    DocIds = {"a", "b"}
    MaxTexts = 2
    MaxDocAsks = 3
INIT Init
NEXT Next
\* The operator may stop at any time.
CHECK_DEADLOCK FALSE
INVARIANTS  EditorTrue
