CONSTANTS
    \* The mirrors' cache.
    Clients = {c1, c2}
    blob = blob
    ours = ours
    theirs = theirs
    Repos = {ours, theirs}
    Sha256 = {blob}
    Others = {}
    BlobOf <- MCBlobOf
    Contains <- MCContains
    Owner <- MCOwner
    Size <- MCSize
    Budget = 3
    TTL = 0
    MaxTime = 1
    MaxVersion = 1
    MaxRequests = 3
    MaxMirrorFaults = 1
    \* The publish paths.
    Uploaders = {u1}
    OnDuplicate = "overwrite"
    Publishers = {p1, p2, p3}
    Listers = {t1}
    MaxUploads = 4
    MaxListings = 4
    \* The tools catalog.
    Paths = {a, b}
    Defaults = {a}
    Writers = {w1, w2}
    Seeders = {s1}
    Overwrite = TRUE
    MaxKeys = 3
    MaxBoots = 3
    \* The storage port.
    StoreCallers = {sc1, sc2}
    StoreKeys = {sk1, sk2}
    FreshKeys = TRUE
    Chunks = 2
    DELETE_BATCH = 1
    MaxCalls = 4
    MaxTicks = 1
    \* The npm documents.
    Packages = {"x", "@a/x"}
    Tarballs <- MCTarballs
    Versions <- MCVersions
    Listed <- MCListed
    Basename <- MCBasename
    SEARCH_MAX_SIZE = 2
    MaxChanges = 2
    MaxInstalls = 2
INIT Init
NEXT Next
INVARIANTS MirrorTrue  
PROPERTY ImplementsObjects
SYMMETRY Symmetric
CHECK_DEADLOCK FALSE
