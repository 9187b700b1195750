------------------------------ MODULE Scoring ------------------------------
(***************************************************************************)
(* computeUserScores of the leaderboard service                            *)
(* (leaderboard-service/src/services/scoring.service.ts): one user's runs  *)
(* of a contest become the composite number Redis sorts by.                *)
(*                                                                         *)
(* A run is [time, status].  problems[p] is the sequence of the user's     *)
(* runs on problem p in the order their verdicts arrived.                  *)
(***************************************************************************)
EXTENDS Integers, SequencesExt

CONSTANT PenaltyOffset  \* env.penaltyOffset, 10000000

ASSUME PenaltyOffsetAssumption == PenaltyOffset \in Nat \ {0}

\* The statuses that cost a penalty.
Penalised == {"WA", "TLE", "MLE", "RE"}

\* Every status the execution engine reports (worker/formatter.go,
\* worker/compile.go), and the ones among them that say the user's program ran
\* and was not accepted.
Statuses == {"AC", "CE", "WA", "TLE", "SIGSEGV", "SIGXFSZ", "SIGFPE", "SIGABRT",
             "RE", "NZEC", "FAIL", "INT"}

IncorrectRuns == Statuses \ {"AC", "CE", "FAIL", "INT"}

\* The members of a finite set in an order that Before allows.
InOrder(S, Before(_, _)) ==
    CHOOSE seq \in SetToSeqs(S) :
        \A i, j \in DOMAIN seq : i < j => Before(seq[i], seq[j])

\* Mutant: the runs are scored in the order their verdicts arrived.
AsArrived(runs) == runs

\* Array.prototype.sort is stable: runs of one second keep their order.
Sorted(runs) ==
    LET Earlier(i, j) == \/ runs[i].time < runs[j].time
                         \/ runs[i].time = runs[j].time /\ i < j
        order == InOrder(DOMAIN runs, Earlier)
    IN  [k \in DOMAIN runs |-> runs[order[k]]]

Unsolved == [wrong |-> 0, solved |-> FALSE, time |-> 0]

\* Mutant: the loop does not stop at the accepted run.
CountEveryRun(detail, run) ==
    IF run.status = "AC"
    THEN [detail EXCEPT !.solved = TRUE, !.time = run.time]
    ELSE IF run.status \in Penalised
    THEN [detail EXCEPT !.wrong = @ + 1]
    ELSE detail

\* One iteration of the loop over a problem's runs; it breaks at the first AC.
Count(detail, run) ==
    IF detail.solved
    THEN detail
    ELSE IF run.status = "AC"
    THEN [detail EXCEPT !.solved = TRUE, !.time = run.time]
    ELSE IF run.status \in Penalised
    THEN [detail EXCEPT !.wrong = @ + 1]
    ELSE detail

Detail(runs) == FoldLeft(Count, Unsolved, Sorted(runs))

ProblemPenalty(detail) ==
    IF detail.solved THEN detail.time + detail.wrong * 20 * 60 ELSE 0

\* Mutant: the penalty is added to the score.
CompositePlus(solved, penalty) == solved * PenaltyOffset + penalty

Composite(solved, penalty) == solved * PenaltyOffset - penalty

TotalPenalty(details) ==
    MapThenSumSet(LAMBDA p : ProblemPenalty(details[p]), DOMAIN details)

computeUserScores(problems) ==
    LET details == [p \in DOMAIN problems |-> Detail(problems[p])]
        solved  == Cardinality({p \in DOMAIN problems : details[p].solved})
        penalty == TotalPenalty(details)
    IN  [score |-> Composite(solved, penalty), solved |-> solved, penalty |-> penalty]

----------------------------------------------------------------------------
(* What the scoring is meant to compute, without the code's loop or sort.    *)

Accepted(h) == {i \in DOMAIN h : h[i].status = "AC"}

\* The runs before the first accepted one; of two in one second the one that
\* arrived first.
Precedes(h, i, j) == h[i].time < h[j].time \/ (h[i].time = h[j].time /\ i < j)

BeforeAC(h) == {i \in DOMAIN h : \A j \in Accepted(h) : Precedes(h, i, j)}

RuleDetail(h) ==
    [solved |-> Accepted(h) # {},
     wrong  |-> Cardinality({i \in BeforeAC(h) : h[i].status \in Penalised}),
     time   |-> IF Accepted(h) = {} THEN 0 ELSE Min({h[i].time : i \in Accepted(h)})]

\* ICPC order: more problems first, then less penalty.
RanksAbove(a, b) ==
    a.solved > b.solved \/ (a.solved = b.solved /\ a.penalty < b.penalty)

\* The composite number sorts a and b the way ICPC does.
SortsAsICPC(a, b) ==
    Composite(a.solved, a.penalty) > Composite(b.solved, b.penalty) <=> RanksAbove(a, b)
============================================================================
