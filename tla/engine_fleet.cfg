SPECIFICATION Spec
CONSTANTS
    s1 = s1  s2 = s2  s3 = s3
    e1 = e1  e2 = e2
    w1 = w1  w2 = w2
    AC = AC  WA = WA
    Submissions = {s1, s2, s3}
    Rated = {s1}
    Malformed = {s3}
    Engines = {e1, e2}
    Workers = {w1}
    Verdicts = {AC, WA}
    Faults = {"connection", "kill"}
    ProblemOf <- OneProblem
    Nil = Nil
SYMMETRY Symmetry
INVARIANTS
    TypeOK
    JobQueueNeverBlocks
    ExclusiveJudging
    AckedIsPublished
PROPERTIES
    VerdictStable
    JudgesAsPromised
