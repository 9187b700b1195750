-------------------------- MODULE LeaderboardPages --------------------------
(* The reads of the leaderboard service, one request at a time, each in    *)
(* the several Redis commands and queries it makes while the writers of     *)
(* Leaderboard go on between them.                                          *)
(*   page   GET /leaderboard/:contestId  (getLeaderboardPage, one page      *)
(*          holds every user)                                               *)
(*   row    GET /leaderboard/:contestId/user/:userId (getUserLeaderboardRow)*)
EXTENDS Leaderboard

VARIABLES
    page,  \* the running page request
    row    \* the running row request

reads == <<page, row>>

NoPage == [pc |-> "idle", users |-> <<>>, answer |-> Nil]
NoRow  == [pc |-> "idle", user |-> Nil, rank |-> Nil, answer |-> Nil]

PagesInit == Init /\ page = NoPage /\ row = NoRow

----------------------------------------------------------------------------
\* Users of f from the highest value down; equal values in some fixed order.
Descending(f) ==
    InOrder({u \in Users : f[u] # Nil}, LAMBDA u, v : f[u] >= f[v])

\* zRangeWithScores of the sorted set, highest score first
PageRange ==
    /\ page.pc = "idle"
    /\ page' = [page EXCEPT !.pc = IF Descending(board) = <<>> THEN "db" ELSE "metadata",
                            !.users = Descending(board)]
    /\ UNCHANGED <<vars, row>>

\* hmGet of their metadata; computeUserScores throws on the '{}' that stands
\* for a missing one, and the request answers 500
PageMetadata ==
    /\ page.pc = "metadata"
    /\ page' = IF \E i \in DOMAIN page.users : metadata[page.users[i]] = Nil
               THEN [page EXCEPT !.pc = "failed"]
               ELSE [page EXCEPT !.pc = "answered",
                        !.answer = [i \in DOMAIN page.users |->
                                       [user  |-> page.users[i],
                                        score |-> Score(metadata[page.users[i]])]]]
    /\ UNCHANGED <<vars, row>>

\* contest_results in the order of rank
PageFromDB ==
    /\ page.pc = "db"
    /\ page' = [page EXCEPT !.pc = "answered",
                    !.answer = [i \in DOMAIN Descending(results) |->
                                  [user  |-> Descending(results)[i],
                                   score |-> results[Descending(results)[i]]]]]
    /\ UNCHANGED <<vars, row>>

PageEnd ==
    /\ page.pc \in {"answered", "failed"}
    /\ page' = NoPage
    /\ UNCHANGED <<vars, row>>

----------------------------------------------------------------------------
\* zRevRank, counted from 0; the code takes a rank of 0 for no rank
RowRank(u) ==
    /\ row.pc = "idle"
    /\ LET rank == IF board[u] = Nil THEN Nil
                   ELSE Cardinality({v \in Users : board[v] # Nil /\ board[v] > board[u]})
       IN  row' = [row EXCEPT !.pc = IF rank \in {Nil, 0} THEN "db" ELSE "metadata",
                              !.user = u, !.rank = rank]
    /\ UNCHANGED <<vars, page>>

\* hmGet of the user; without metadata the database is asked
RowMetadata ==
    /\ row.pc = "metadata"
    /\ row' = IF metadata[row.user] = Nil
              THEN [row EXCEPT !.pc = "db"]
              ELSE [row EXCEPT !.pc = "answered",
                        !.answer = [rank  |-> row.rank + 1,
                                    score |-> Score(metadata[row.user])]]
    /\ UNCHANGED <<vars, page>>

\* The row of contest_results, or 404
RowFromDB ==
    /\ row.pc = "db"
    /\ row' = IF results[row.user] = Nil
              THEN [row EXCEPT !.pc = "none"]
              ELSE [row EXCEPT !.pc = "answered",
                        !.answer = [rank  |-> 1 + Cardinality({v \in Users :
                                                  results[v] # Nil
                                                  /\ results[v] > results[row.user]}),
                                    score |-> results[row.user]]]
    /\ UNCHANGED <<vars, page>>

RowEnd ==
    /\ row.pc \in {"answered", "none"}
    /\ row' = NoRow
    /\ UNCHANGED <<vars, page>>

----------------------------------------------------------------------------
Page == PageRange \/ PageMetadata \/ PageFromDB \/ PageEnd
Row  == (\E u \in Users : RowRank(u)) \/ RowMetadata \/ RowFromDB \/ RowEnd

PagesNext == (Next /\ UNCHANGED reads) \/ Page \/ Row

\* The writers are fair as in Leaderboard; no request is owed.
PagesSpec == PagesInit /\ [][PagesNext]_<<vars, reads>> /\ Fairness

----------------------------------------------------------------------------
\* Only a deletion makes a page request fail: the script writes the metadata
\* before the zAdd puts the user on the board, so before a freeze, and without
\* forced recalculations, whoever is on the page has metadata.
PageFailsOnlyOnceFrozen == "user" \notin Admin /\ page.pc = "failed" => frozen

\* A user below the first always gets a row, also when the freeze empties Redis
\* between the two reads: the results are in the database before the unlink. This
\* takes the row of every submission on the board to exist; SubmissionIntake has
\* the deleted row of a submission that is judged all the same.
RowSurvivesFreeze ==
    "user" \notin Admin /\ row.pc = "none" => row.rank \in {Nil, 0}
============================================================================
