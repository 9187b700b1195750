SPECIFICATION Spec
CONSTANTS
    u1 = u1
    u2 = u2
    p1 = p1
    p2 = p2
    Submissions = {1, 2, 3, 4}
    Rated = {1, 2, 3}
    Users = {u1, u2}
    Problems = {p1, p2}
    UserOf <- OwnerOf
    ProblemOf <- OnProblem
    LiveTime <- LiveSeconds
    RowTime <- RowSeconds
    ClockDrift = 2
    Verdicts = {"AC", "WA"}
    Redelivered = {}
    Abandoned = {}
    TaskRuns = {"earlier", "later"}
    Admin = {}
    Faults = {"io", "crash"}
    PenaltyOffset = 10000000
    Nil = Nil
INVARIANTS
    TypeOK
    ScoreFollowsMetadata
    LiveMatchesRows
    FrozenIsComplete
PROPERTIES
    FreezeKeepsScores
