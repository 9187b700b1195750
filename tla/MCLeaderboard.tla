--------------------------- MODULE MCLeaderboard ---------------------------
(* Small instances of Leaderboard for TLC: up to four                      *)
(* submissions of two users.                                               *)
EXTENDS Leaderboard

CONSTANTS u1, u2, p1, p2

\* The first, second and fourth belong to one user; a wrong attempt and an
\* accepted run on one problem need two of them.
Owner   == <<u1, u1, u2, u1>>
Problem == <<p1, p1, p1, p2>>

\* The seconds of the message, truncated before the INSERT, and those of the
\* row, rounded: the row is later and may come out one second more or two.
LiveSecond == <<60, 90, 120, 150>>
RowSecond  == <<61, 90, 122, 151>>

OwnerOf     == [s \in Submissions |-> Owner[s]]
OnProblem   == [s \in Submissions |-> Problem[s]]
LiveSeconds == [s \in Submissions |-> LiveSecond[s]]
RowSeconds  == [s \in Submissions |-> RowSecond[s]]
============================================================================
