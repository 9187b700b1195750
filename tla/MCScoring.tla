----------------------------- MODULE MCScoring -----------------------------
(* Small instances of ScoringHistory for TLC.                              *)
EXTENDS ScoringHistory

CONSTANTS u1, u2, p1, p2

\* Two seconds of a contest.
ContestTimes == {60, 4000}

Symmetry == Permutations(Users) \cup Permutations(Problems)
============================================================================
