\* Rows and objects: two threads on one address, crashes and lost answers.
SPECIFICATION Spec
CONSTANTS
    Editors = {e1, e2}
    Slugs = {s1}
    Ids = {i1, i2}
    Keys = {k1, k2, k3}
    MaxRev = 3
    MaxFaults = 2
    NoId = NoId
    NoSlug = NoSlug
    NoKey = NoKey
SYMMETRY MCSymmetry
\* The editors may stop at any time, and ids and keys are bounded.
CHECK_DEADLOCK FALSE
INVARIANTS RowsServed HistoryComplete NoLostUpdate
PROPERTY RevisionsImmutable
