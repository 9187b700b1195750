--------------------------- MODULE ScoringHistory ---------------------------
(* Every bounded contest history of some users, one verdict at a time, to   *)
(* compare computeUserScores with the rules of ICPC scoring.                *)
EXTENDS Scoring

CONSTANTS
    Users,
    Problems,
    Times,       \* seconds since the start of the contest
    RunStatuses, \* the verdicts that occur
    MaxRuns      \* bound: runs of all users together

ASSUME HistoryAssumption ==
    /\ IsFiniteSet(Problems)
    /\ Times \subseteq Nat
    /\ RunStatuses \subseteq Statuses
    /\ MaxRuns \in Nat

VARIABLE runs  \* [Users -> [Problems -> Seq([time, status])]]

Total == MapThenSumSet(LAMBDA x : Len(runs[x[1]][x[2]]), Users \X Problems)

Init == runs = [u \in Users |-> [p \in Problems |-> <<>>]]

\* The verdict of a run arrives, in any order of the times of the runs.
Arrive(u, p) ==
    /\ Total < MaxRuns
    /\ \E t \in Times, st \in RunStatuses :
          runs' = [runs EXCEPT ![u][p] = Append(@, [time |-> t, status |-> st])]

Next == \E u \in Users, p \in Problems : Arrive(u, p)

Spec == Init /\ [][Next]_runs

----------------------------------------------------------------------------
(* Properties.                                                             *)

\* The loop over the sorted runs finds the first AC by contest time and counts
\* the penalised runs before it and no others, whatever order the verdicts of
\* the workers arrived in (scoring.service.ts:25-40).
CountsRunsBeforeAC ==
    \A u \in Users, p \in Problems : Detail(runs[u][p]) = RuleDetail(runs[u][p])

\* Runs at different seconds score the same in whatever order their verdicts
\* arrived: the sort of scoring.service.ts:25 makes the order of the list irrelevant.
ArrivalOrderIsIrrelevant ==
    \A u \in Users, p \in Problems :
        LET h == runs[u][p] IN
        (\A i, j \in DOMAIN h : h[i].time = h[j].time => i = j) =>
            \A order \in SetToSeqs(DOMAIN h) :
                Detail([k \in DOMAIN h |-> h[order[k]]]) = Detail(h)

Scores(u) == computeUserScores(runs[u])

\* While no user's penalty reaches the offset, sorting by the composite number
\* is sorting by problems solved and then by penalty.
CompositeIsICPC ==
    \A u, v \in Users :
        Scores(u).penalty < PenaltyOffset /\ Scores(v).penalty < PenaltyOffset
        => (Scores(u).score > Scores(v).score <=> RanksAbove(Scores(u), Scores(v)))

\* scoring.service.ts:44 says that every incorrect run before the accepted one
\* costs 20 minutes.
EveryIncorrectRunCosts ==
    \A u \in Users, p \in Problems :
        LET h == runs[u][p] IN
        Accepted(h) # {} =>
            ProblemPenalty(Detail(h)) =
                RuleDetail(h).time
                + 20 * 60 * Cardinality({i \in BeforeAC(h) : h[i].status \in IncorrectRuns})
============================================================================
