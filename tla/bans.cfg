SPECIFICATION Spec
CONSTANTS
    m1 = m1
    m2 = m2
    k1 = k1
    k2 = k2
    Models = {m1, m2}
    Keys = {k1, k2}
    Admins = {k2}
    NoAuthor = NoAuthor
    Cli = Cli
    Threads = {t1, t2}
    Shells = {s1}
    Threshold = 2
    Requests <- BanRequests
    MaxCuts = 1
    NoRequest = NoRequest
INVARIANTS BanLeavesOnlySlipped
PROPERTIES ImplementsLifecycle
