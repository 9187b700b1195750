SPECIFICATION Spec
CONSTANTS
    u1 = u1
    p1 = p1
    u2 = u2
    p2 = p2
    Users = {u1, u2}
    Problems = {p1, p2}
    Times <- ContestTimes
    RunStatuses = {"AC", "WA", "CE"}
    MaxRuns = 4
    PenaltyOffset = 10000000
INVARIANTS
    CountsRunsBeforeAC
    ArrivalOrderIsIrrelevant
    CompositeIsICPC
SYMMETRY Symmetry
CHECK_DEADLOCK FALSE
