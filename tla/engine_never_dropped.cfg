SPECIFICATION Spec
CONSTANTS
    s1 = s1  s2 = s2  s3 = s3
    e1 = e1  e2 = e2
    w1 = w1  w2 = w2
    AC = AC  WA = WA
    Submissions = {s1}
    Rated = {s1}
    Malformed = {}
    Engines = {e1}
    Workers = {w1}
    Verdicts = {AC}
    Faults = {"sigterm"}
    ProblemOf <- OneProblem
    Nil = Nil
INVARIANTS
    NeverDropped
