------------------------- MODULE MCLeaderboardPages -------------------------
(* Small instances of LeaderboardPages for TLC.                             *)
EXTENDS LeaderboardPages, MCLeaderboard
=============================================================================
