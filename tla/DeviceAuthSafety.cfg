\* Every property of the device flow under the fairness of its threads, with
\* one store: no thread races the first use of _store(). The second request
\* can only take the code the first one left.
SPECIFICATION FairSpec
CONSTANTS
    Threads = {t1, t2}
    Devices = {d1, d2}
    UserCodes = {c1}
    Keys = {k1, k2}
    Stores = {s1}
    MaxCrashes = 1
    NoThread = NoThread
    NoDevice = NoDevice
    NoCode = NoCode
    NoKey = NoKey
    NoStore = NoStore
INVARIANTS KeyHandedOnce 
PROPERTIES  RequestEnds
