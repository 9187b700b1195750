------------------------- MODULE MCExecutionEngine -------------------------
(* Small instances of ExecutionEngine for TLC.                             *)
EXTENDS ExecutionEngineRefinement, TLC

CONSTANTS s1, s2, s3, e1, e2, w1, w2, AC, WA

\* All submissions are for one problem.
OneProblem == [s \in Submissions |-> "p"]

Symmetry == Permutations({e1, e2}) \cup Permutations({AC, WA})
============================================================================
