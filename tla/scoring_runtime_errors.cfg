SPECIFICATION Spec
CONSTANTS
    u1 = u1
    p1 = p1
    u2 = u2
    p2 = p2
    Users = {u1}
    Problems = {p1}
    Times <- ContestTimes
    RunStatuses = {"AC", "WA", "RE", "NZEC", "SIGSEGV"}
    MaxRuns = 3
    PenaltyOffset = 10000000
INVARIANT EveryIncorrectRunCosts
CHECK_DEADLOCK FALSE
