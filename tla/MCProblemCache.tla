-------------------------- MODULE MCProblemCache --------------------------
(* Small instances of ProblemCache for TLC.                                *)
EXTENDS ProblemCache

CONSTANTS w1, w2, w3, p1, p2

Addresses == 1..4
============================================================================
