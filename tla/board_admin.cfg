SPECIFICATION Spec
CONSTANTS
    u1 = u1
    u2 = u2
    p1 = p1
    p2 = p2
    Submissions = {1, 2}
    Rated = {1, 2}
    Users = {u1, u2}
    Problems = {p1, p2}
    UserOf <- OwnerOf
    ProblemOf <- OnProblem
    LiveTime <- LiveSeconds
    RowTime <- RowSeconds
    ClockDrift = 2
    Verdicts = {"AC"}
    Redelivered = {1, 2}
    Abandoned = {}
    TaskRuns = {"task"}
    Admin = {"user", "contest"}
    Faults = {"crash"}
    PenaltyOffset = 10000000
    Nil = Nil
INVARIANTS
    CountedOnce
