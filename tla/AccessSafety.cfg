CONSTANTS
    t1 = t1
    c1 = c1
    p1 = p1
    p2 = p2
    Threads = {t1, c1}
    Procs = {p1, p2}
    ProcOf <- MCProcOf
    Commands = {c1}
    Users = {u1, u2}
    First = u1
    Demoters = {t1}
    TTL = 1
    AuthEnabled = FALSE
    MaxWrites = 2
    Anon = Anon
    Exchangers = {x1, x2}
    Command = cmd
    Accounts = {a1}
    MaxTokens = 2
    MaxToggles = 2
    MaxCrashes = 1
    Lossy = TRUE
SYMMETRY MCSymmetry
INIT Init
NEXT Next
 
PROPERTIES StaleBound OperatorEditsKept
CHECK_DEADLOCK FALSE
