SPECIFICATION Spec
CONSTANTS
    w1 = w1  w2 = w2  w3 = w3
    p1 = p1  p2 = p2
    Workers = {w1, w2}
    Problems = {p1}
    MaxVersion = 2
    Items <- Addresses
    Ttl = 1
    Buffer = 1
    Interval = 1
    Threshold = 0
    MaxClock = 3
INVARIANTS
    TypeOK
    DirectoryFollowsStore
    InUseIsKept
    CheckerCompiledOnce
PROPERTIES
    JobsLeaveTheCache
