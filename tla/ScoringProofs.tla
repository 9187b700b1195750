--------------------------- MODULE ScoringProofs ---------------------------
(* computeUserScores for every sequence of runs: the sort and the loop of  *)
(* the code compute the rules of ICPC scoring, the score is a number, and  *)
(* the composite number sorts as ICPC does.                                *)
EXTENDS Scoring, InductionLemmas

\* Sets of runs: a run has a time.
Timed(R) == \A r \in R : r.time \in Nat

Details == [wrong : Nat, solved : BOOLEAN, time : Nat]

-----------------------------------------------------------------------------
(* Sorting.                                                                *)

\* An order of the runs of h by their times, and by their arrival if the times
\* are equal.
SortsRuns(o, h) ==
    /\ o \in SetToSeqs(DOMAIN h)
    /\ \A i, j \in DOMAIN o : i < j => Precedes(h, o[i], o[j])

LEMMA SortedRuns ==
    ASSUME NEW R, Timed(R), NEW h \in Seq(R)
    PROVE  \E o : SortsRuns(o, h) /\ Sorted(h) = [k \in DOMAIN h |-> h[o[k]]]
  <1> DEFINE S == DOMAIN h
             Order == {ij \in S \X S : ij[1] = ij[2] \/ Precedes(h, ij[1], ij[2])}
  <1>1. Len(h) \in Nat /\ S = 1..Len(h)
    OBVIOUS
  <1>2. IsFiniteSet(S)
    BY <1>1, FS_Interval
  <1>3. \A i \in S : i \in Nat /\ h[i].time \in Nat
    <2>1. \A i \in S : h[i] \in R
      OBVIOUS
    <2> QED
      BY <1>1, <2>1 DEF Timed
  <1>4. \A i, j \in S : <<i, j>> \in Order <=> i = j \/ Precedes(h, i, j)
    OBVIOUS
  <1> HIDE DEF Order, S
  <1>5. IsTotal(Order, S)
    <2>1. ASSUME NEW i \in S, NEW j \in S
          PROVE  <<i, j>> \in Order \/ <<j, i>> \in Order
      <3>1. i = j \/ Precedes(h, i, j) \/ Precedes(h, j, i)
        BY <1>3 DEF Precedes
      <3> QED
        BY <1>4, <3>1
    <2>2. ASSUME NEW i \in S, NEW j \in S, NEW k \in S,
                 <<i, j>> \in Order, <<j, k>> \in Order
          PROVE  <<i, k>> \in Order
      <3>1. i = j \/ Precedes(h, i, j)
        BY <1>4, <2>2
      <3>2. j = k \/ Precedes(h, j, k)
        BY <1>4, <2>2
      <3>3. i = k \/ Precedes(h, i, k)
        BY <1>3, <3>1, <3>2 DEF Precedes
      <3> QED
        BY <1>4, <3>3
    <2> QED
      BY <2>1, <2>2 DEF IsTotal
  <1>6. PICK seq \in SetToSeqs(S) :
            \A i, j \in DOMAIN seq : i < j => <<seq[i], seq[j]>> \in Order
    BY <1>2, <1>5, OrderExists
  <1>7. \A i, j \in DOMAIN seq : i < j => Precedes(h, seq[i], seq[j])
    <2> SUFFICES ASSUME NEW i \in DOMAIN seq, NEW j \in DOMAIN seq, i < j
                 PROVE  Precedes(h, seq[i], seq[j])
      OBVIOUS
    <2>1. /\ seq \in Seq(S)
          /\ seq[i] = seq[j] => i = j
          /\ DOMAIN seq = 1..Cardinality(S)
      BY <1>2, SeqOfSet
    <2>2. Cardinality(S) \in Nat
      BY <1>2, FS_CardinalityType
    <2>3. seq[i] \in S /\ seq[j] \in S /\ seq[i] # seq[j]
      BY <2>1, <2>2
    <2> QED
      BY <1>4, <1>6, <2>3
  <1> DEFINE o == CHOOSE s \in SetToSeqs(S) :
                     \A i, j \in DOMAIN s : i < j => Precedes(h, s[i], s[j])
  <1>8. Sorted(h) = [k \in DOMAIN h |-> h[o[k]]]
    BY DEF Sorted, InOrder, Precedes, S
  <1>9. o \in SetToSeqs(S) /\ \A i, j \in DOMAIN o : i < j => Precedes(h, o[i], o[j])
    BY <1>7
  <1> HIDE DEF o
  <1> QED
    BY <1>8, <1>9 DEF S, SortsRuns

-----------------------------------------------------------------------------
(* The loop.                                                               *)

\* d[k] is the detail of a problem after the first k runs of s.
Counts(d, s) ==
    /\ d[0] = Unsolved
    /\ \A k \in 1..Len(s) : d[k] = Count(d[k - 1], s[k])

LEMMA CountTyped ==
    ASSUME NEW detail \in Details, NEW run, run.time \in Nat
    PROVE  Count(detail, run) \in Details
  <1>1. /\ detail.wrong \in Nat /\ detail.solved \in BOOLEAN /\ detail.time \in Nat
        /\ detail = [wrong |-> detail.wrong, solved |-> detail.solved,
                     time |-> detail.time]
    BY DEF Details
  <1>2. detail.wrong + 1 \in Nat
    BY <1>1
  <1>3. [detail EXCEPT !.wrong = @ + 1] \in Details
    BY <1>1, <1>2 DEF Details
  <1>4. [detail EXCEPT !.solved = TRUE, !.time = run.time] \in Details
    BY <1>1 DEF Details
  <1> QED
    BY <1>3, <1>4 DEF Count

\* The fold of the loop is the last of the details.
LEMMA FoldCounts ==
    ASSUME NEW R, Timed(R), NEW s \in Seq(R)
    PROVE  \E d \in [0..Len(s) -> Details] :
              Counts(d, s) /\ FoldLeft(Count, Unsolved, s) = d[Len(s)]
  <1> DEFINE S == DOMAIN s
             n == Len(s)
             step == [iv \in S \X Details |-> Count(iv[2], s[iv[1]])]
             choose == [T \in SUBSET S |-> Max(T)]
             fold == CHOOSE iter : iter = [T \in SUBSET S |->
                        IF T = {} THEN Unsolved
                        ELSE Count(iter[T \ {Max(T)}], s[Max(T)])]
  <1>1. n \in Nat /\ S = 1..n /\ \A i \in S : s[i] \in R /\ s[i].time \in Nat
    BY DEF Timed
  <1>2. IsFiniteSet(S)
    BY <1>1, FS_Interval
  <1>3. FoldLeft(Count, Unsolved, s) = fold[S]
    BY DEF FoldLeft, MapThenFoldSet
  <1>4. Unsolved \in Details
    BY DEF Unsolved, Details
  <1>5. step \in [S \X Details -> Details]
    BY <1>1, CountTyped
  <1>6. \A T \in SUBSET S : T # {} =>
           Max(T) \in T /\ \A y \in T : Max(T) >= y
    <2> SUFFICES ASSUME NEW T \in SUBSET S, T # {}
                 PROVE  \E x \in T : \A y \in T : x >= y
      BY DEF Max
    <2> DEFINE G == {xy \in T \X T : xy[1] <= xy[2]}
    <2>1. T \subseteq Nat /\ IsFiniteSet(T)
      BY <1>1, <1>2, FS_Subset
    <2>2. \A x, y \in T : <<x, y>> \in G <=> x <= y
      OBVIOUS
    <2> HIDE DEF G
    <2>3. IsTotal(G, T)
      BY <2>1, <2>2 DEF IsTotal
    <2>4. PICK m \in T : \A x \in T : <<x, m>> \in G
      BY <2>1, <2>3, GreatestExists
    <2> QED
      BY <2>1, <2>2, <2>4
  <1>7. Chooses(choose, S)
    BY <1>6 DEF Chooses
  <1> HIDE DEF choose, step
  <1>8. PICK g \in [SUBSET S -> Details] : Folds(g, S, choose, Unsolved, step)
    BY <1>2, <1>4, <1>5, <1>7, FoldExists
  <1>9. \A T \in SUBSET S :
           g[T] = IF T = {} THEN Unsolved ELSE Count(g[T \ {Max(T)}], s[Max(T)])
    BY <1>6, <1>8 DEF Folds, choose, step
  <1>10. g = [T \in SUBSET S |->
                IF T = {} THEN Unsolved
                ELSE Count(g[T \ {Max(T)}], s[Max(T)])]
    BY <1>9
  <1>11. fold = [T \in SUBSET S |->
                IF T = {} THEN Unsolved
                ELSE Count(fold[T \ {Max(T)}], s[Max(T)])]
    BY ONLY <1>10, ZenonT(30)
  <1> HIDE DEF fold
  <1>12. fold[S] = g[S]
    <2>1. fold[{}] = g[{}]
      BY <1>9, <1>11
    <2>2. \A T \in SUBSET S :
             T # {} /\ fold[T \ {choose[T]}] = g[T \ {choose[T]}] => fold[T] = g[T]
      BY <1>9, <1>11 DEF choose
    <2>3. AgreeAsFolds(fold, g, S, choose)
      BY <2>1, <2>2 DEF AgreeAsFolds
    <2> QED
      BY <1>2, <1>7, <2>3, FoldsAgree
  <1> DEFINE d == [k \in 0..n |-> g[1..k]]
  <1>13. d \in [0..n -> Details]
    BY <1>1
  <1>14. Counts(d, s)
    <2>1. d[0] = Unsolved
      <3>1. 1..0 = {} /\ 0 \in 0..n
        BY <1>1
      <3> QED
        BY <1>9, <3>1
    <2>2. ASSUME NEW k \in 1..n PROVE d[k] = Count(d[k - 1], s[k])
      <3>1. 1..k \in SUBSET S /\ 1..k # {} /\ k \in 1..k /\ k \in 0..n
            /\ k - 1 \in 0..n
        BY <1>1
      <3>2. Max(1..k) = k
        <4>1. Max(1..k) \in 1..k /\ Max(1..k) >= k
          BY <1>6, <3>1
        <4> QED
          BY <1>1, <4>1
      <3>3. (1..k) \ {k} = 1..(k - 1)
        BY <1>1
      <3>4. g[1..k] = Count(g[1..(k - 1)], s[k])
        BY <1>9, <3>1, <3>2, <3>3
      <3> QED
        BY <3>1, <3>4
    <2> QED
      BY <2>1, <2>2 DEF Counts
  <1>15. d[n] = g[S]
    BY <1>1
  <1> HIDE DEF d
  <1> QED
    BY <1>3, <1>12, <1>13, <1>14, <1>15

LEMMA SortedTyped ==
    ASSUME NEW R, Timed(R), NEW h \in Seq(R), NEW o \in SetToSeqs(DOMAIN h)
    PROVE  /\ [k \in DOMAIN h |-> h[o[k]]] \in Seq(R)
           /\ Len([k \in DOMAIN h |-> h[o[k]]]) = Len(h)
           /\ DOMAIN h = 1..Len(h) /\ Len(h) \in Nat
           /\ DOMAIN o = DOMAIN h
           /\ o \in Bijection(DOMAIN h, DOMAIN h)
  <1>1. DOMAIN h = 1..Len(h) /\ Len(h) \in Nat
    OBVIOUS
  <1>2. IsFiniteSet(DOMAIN h) /\ Cardinality(DOMAIN h) = Len(h)
    BY <1>1, FS_Interval
  <1>3. /\ DOMAIN o = DOMAIN h
        /\ o \in [DOMAIN h -> DOMAIN h]
        /\ \A i, j \in DOMAIN o : o[i] = o[j] => i = j
        /\ \A x \in DOMAIN h : \E i \in DOMAIN o : o[i] = x
    <2>1. o \in [1..Len(h) -> DOMAIN h]
      BY <1>2 DEF SetToSeqs
    <2> QED
      BY <1>1, <1>2, <2>1, SeqOfSet
  <1>4. o \in Bijection(DOMAIN h, DOMAIN h)
    BY <1>3 DEF Bijection, Injection, Surjection, IsInjective
  <1>5. \A k \in DOMAIN h : h[o[k]] \in R
    BY <1>1, <1>3
  <1> QED
    BY <1>1, <1>3, <1>4, <1>5

\* The detail of a problem is one.
LEMMA DetailTyped ==
    ASSUME NEW R, Timed(R), NEW h \in Seq(R)
    PROVE  Detail(h) \in Details
  <1>1. PICK o : SortsRuns(o, h) /\ Sorted(h) = [k \in DOMAIN h |-> h[o[k]]]
    BY SortedRuns
  <1>2. Sorted(h) \in Seq(R)
    BY <1>1, SortedTyped DEF SortsRuns
  <1> DEFINE s == Sorted(h)
  <1>3. Len(s) \in Nat
    BY <1>2
  <1> HIDE DEF s
  <1>4. PICK d \in [0..Len(s) -> Details] : FoldLeft(Count, Unsolved, s) = d[Len(s)]
    BY <1>2, FoldCounts DEF s
  <1> QED
    BY <1>3, <1>4 DEF Detail, s

-----------------------------------------------------------------------------
(* The score.                                                              *)

\* The penalty of a problem is a number.
LEMMA ProblemPenaltyTyped ==
    ASSUME NEW detail \in Details PROVE ProblemPenalty(detail) \in Nat
  <1>1. detail.time \in Nat /\ detail.wrong \in Nat
    BY DEF Details
  <1> QED
    BY <1>1 DEF ProblemPenalty

\* A member of each set of problems that has one, always the same.
Picks(S) == [T \in SUBSET S |-> CHOOSE p \in T : TRUE]

LEMMA PicksChoose == ASSUME NEW S PROVE Chooses(Picks(S), S)
  <1>1. \A T \in SUBSET S : T # {} => (CHOOSE p \in T : TRUE) \in T
    OBVIOUS
  <1> QED
    BY <1>1 DEF Chooses, Picks

\* sum[T] adds up the penalties of the problems of T.
SumsPenalties(sum, S, details) ==
    /\ sum \in [SUBSET S -> Nat]
    /\ sum[{}] = 0
    /\ \A T \in SUBSET S : T # {} =>
          sum[T] = ProblemPenalty(details[Picks(S)[T]]) + sum[T \ {Picks(S)[T]}]

\* The penalties of finitely many problems have such sums.
LEMMA PenaltySums ==
    ASSUME NEW S, IsFiniteSet(S), NEW details, DOMAIN details = S,
           \A p \in S : details[p] \in Details
    PROVE  \E sum : SumsPenalties(sum, S, details) /\ TotalPenalty(details) = sum[S]
  <1> DEFINE penalty == [p \in S |-> ProblemPenalty(details[p])]
             step == [pv \in S \X Nat |-> penalty[pv[1]] + pv[2]]
             choose == Picks(S)
             fold == CHOOSE iter : iter = [T \in SUBSET S |->
                        IF T = {} THEN 0
                        ELSE ProblemPenalty(details[CHOOSE p \in T : TRUE])
                             + iter[T \ {CHOOSE p \in T : TRUE}]]
  <1>1. TotalPenalty(details) = fold[S]
    BY DEF TotalPenalty, MapThenSumSet, MapThenFoldSet
  <1>2. penalty \in [S -> Nat]
    BY ProblemPenaltyTyped
  <1>3. \A T \in SUBSET S : choose[T] = CHOOSE p \in T : TRUE
    BY DEF Picks
  <1>4. Chooses(choose, S)
    BY PicksChoose
  <1>5. \A T \in SUBSET S : T # {} =>
           /\ choose[T] \in S
           /\ ProblemPenalty(details[choose[T]]) = penalty[choose[T]]
    BY <1>4 DEF Chooses
  <1>6. step \in [S \X Nat -> Nat]
    BY <1>2
  <1> HIDE DEF penalty, step, choose
  <1>7. PICK g \in [SUBSET S -> Nat] : Folds(g, S, choose, 0, step)
    BY <1>4, <1>6, FoldExists
  <1>8. ASSUME NEW T \in SUBSET S, T # {}
        PROVE  g[T] = ProblemPenalty(details[choose[T]]) + g[T \ {choose[T]}]
    <2>1. g[T] = step[<<choose[T], g[T \ {choose[T]}]>>]
      BY <1>7, <1>8 DEF Folds
    <2>2. choose[T] \in S /\ g[T \ {choose[T]}] \in Nat
      BY <1>5, <1>8
    <2>3. g[T] = penalty[choose[T]] + g[T \ {choose[T]}]
      BY <2>1, <2>2 DEF step
    <2> QED
      BY <1>5, <1>8, <2>3
  <1>9. g[{}] = 0
    BY <1>7 DEF Folds
  <1>10. \A T \in SUBSET S : T # {} =>
            g[T] = ProblemPenalty(details[CHOOSE p \in T : TRUE])
                   + g[T \ {CHOOSE p \in T : TRUE}]
    <2> SUFFICES ASSUME NEW T \in SUBSET S, T # {}
                 PROVE  g[T] = ProblemPenalty(details[CHOOSE p \in T : TRUE])
                               + g[T \ {CHOOSE p \in T : TRUE}]
      OBVIOUS
    <2>1. choose[T] = CHOOSE p \in T : TRUE
      BY <1>3
    <2> QED
      BY <1>8, <2>1
  <1>11. g = [T \in SUBSET S |->
                IF T = {} THEN 0
                ELSE ProblemPenalty(details[CHOOSE p \in T : TRUE])
                     + g[T \ {CHOOSE p \in T : TRUE}]]
    BY <1>10, <1>9
  <1>12. fold = [T \in SUBSET S |->
                IF T = {} THEN 0
                ELSE ProblemPenalty(details[CHOOSE p \in T : TRUE])
                     + fold[T \ {CHOOSE p \in T : TRUE}]]
    BY ONLY <1>11, ZenonT(30)
  <1> HIDE DEF fold
  <1>13. AgreeAsFolds(fold, g, S, choose)
    <2>1. fold[{}] = g[{}]
      BY <1>9, <1>12
    <2>2. ASSUME NEW T \in SUBSET S, T # {},
                 fold[T \ {choose[T]}] = g[T \ {choose[T]}]
          PROVE  fold[T] = g[T]
      <3>1. choose[T] = CHOOSE p \in T : TRUE
        BY <1>3
      <3>2. fold[T] = ProblemPenalty(details[CHOOSE p \in T : TRUE])
                      + fold[T \ {CHOOSE p \in T : TRUE}]
        BY <1>12, <2>2
      <3>3. fold[T] = ProblemPenalty(details[choose[T]]) + fold[T \ {choose[T]}]
        BY <3>1, <3>2
      <3> QED
        BY <1>8, <2>2, <3>3
    <2> QED
      BY <2>1, <2>2 DEF AgreeAsFolds
  <1>14. fold[S] = g[S]
    BY <1>4, <1>13, FoldsAgree
  <1>15. SumsPenalties(g, S, details)
    BY <1>7, <1>8, <1>9 DEF SumsPenalties, choose
  <1> QED
    BY <1>1, <1>14, <1>15

LEMMA PenaltyTyped ==
    ASSUME NEW S, IsFiniteSet(S), NEW details, DOMAIN details = S,
           \A p \in S : details[p] \in Details
    PROVE  TotalPenalty(details) \in Nat
  <1>1. PICK sum : SumsPenalties(sum, S, details) /\ TotalPenalty(details) = sum[S]
    BY PenaltySums
  <1> QED
    BY <1>1 DEF SumsPenalties

\* The score of a user is a number.
LEMMA ScoreTyped ==
    ASSUME NEW R, Timed(R), NEW problems, IsFiniteSet(DOMAIN problems),
           \A p \in DOMAIN problems : problems[p] \in Seq(R)
    PROVE  /\ computeUserScores(problems).solved \in Nat
           /\ computeUserScores(problems).penalty \in Nat
           /\ computeUserScores(problems).score =
                 Composite(computeUserScores(problems).solved,
                           computeUserScores(problems).penalty)
           /\ computeUserScores(problems).score \in Int
  <1> DEFINE S == DOMAIN problems
             details == [p \in S |-> Detail(problems[p])]
             solved == Cardinality({p \in S : details[p].solved})
             penalty == TotalPenalty(details)
  <1>1. DOMAIN details = S /\ \A p \in S : details[p] \in Details
    BY DetailTyped
  <1>2. solved \in Nat
    <2>1. {p \in S : details[p].solved} \in SUBSET S
      OBVIOUS
    <2> QED
      BY <2>1, FS_Subset, FS_CardinalityType
  <1>3. computeUserScores(problems) =
           [score |-> Composite(solved, penalty), solved |-> solved,
            penalty |-> penalty]
    BY DEF computeUserScores
  <1>4. penalty \in Nat
    <2> HIDE DEF details
    <2> QED
      BY <1>1, PenaltyTyped
  <1> HIDE DEF solved, penalty
  <1>5. Composite(solved, penalty) \in Int
    BY <1>2, <1>4, PenaltyOffsetAssumption DEF Composite
  <1> QED
    BY <1>2, <1>3, <1>4, <1>5

-----------------------------------------------------------------------------
(* The loop against the rules.                                             *)

\* The accepted runs among the first k of s, and the penalised ones that come
\* before every accepted one.
AcceptedIn(s, k) == {i \in 1..k : s[i].status = "AC"}
WrongIn(s, k) ==
    {i \in 1..k : s[i].status \in Penalised /\ \A j \in AcceptedIn(s, k) : i < j}

\* What the loop knows after k runs.
Knows(detail, s, k) ==
    /\ detail.wrong = Cardinality(WrongIn(s, k))
    /\ detail.solved <=> AcceptedIn(s, k) # {}
    /\ AcceptedIn(s, k) = {} => detail.time = 0
    /\ AcceptedIn(s, k) # {} =>
          \E i \in AcceptedIn(s, k) :
             detail.time = s[i].time /\ \A j \in AcceptedIn(s, k) : i <= j

LEMMA NothingKnown ==
    ASSUME NEW s PROVE Knows(Unsolved, s, 0)
  <1>1. 1..0 = {}
    OBVIOUS
  <1>2. AcceptedIn(s, 0) = {} /\ WrongIn(s, 0) = {}
    BY <1>1 DEF AcceptedIn, WrongIn
  <1> QED
    BY <1>2, FS_EmptySet DEF Knows, Unsolved

\* One run more.
LEMMA KnowsMore ==
    ASSUME NEW s, NEW n \in Nat, NEW k \in 1..n, NEW detail \in Details,
           Knows(detail, s, k - 1)
    PROVE  Knows(Count(detail, s[k]), s, k)
  <1> DEFINE A == AcceptedIn(s, k - 1)
             B == AcceptedIn(s, k)
             after == Count(detail, s[k])
  <1>1. /\ k \in Nat /\ k - 1 \in Nat /\ k \notin 1..(k - 1)
        /\ 1..k = (1..(k - 1)) \cup {k}
        /\ \A i \in 1..(k - 1) : i \in Nat /\ i < k
    OBVIOUS
  <1>2. B = IF s[k].status = "AC" THEN A \cup {k} ELSE A
    BY <1>1 DEF AcceptedIn
  <1>3. A \subseteq 1..(k - 1)
    BY DEF AcceptedIn
  <1>4. /\ detail.wrong = Cardinality(WrongIn(s, k - 1))
        /\ detail.solved <=> A # {}
        /\ A = {} => detail.time = 0
        /\ A # {} => \E i \in A : detail.time = s[i].time /\ \A j \in A : i <= j
    BY DEF Knows
  <1>5. /\ detail.wrong \in Nat /\ detail.solved \in BOOLEAN
        /\ detail = [wrong |-> detail.wrong, solved |-> detail.solved,
                     time |-> detail.time]
    BY DEF Details
  <1>6. \A i : i \in WrongIn(s, k - 1) <=>
           i \in 1..(k - 1) /\ s[i].status \in Penalised /\ \A j \in A : i < j
    BY DEF WrongIn
  <1>7. \A i : i \in WrongIn(s, k) <=>
           i \in 1..k /\ s[i].status \in Penalised /\ \A j \in B : i < j
    BY DEF WrongIn
  <1>8. "AC" \notin Penalised
    BY DEF Penalised
  <1> HIDE DEF A, B
  <1>9. CASE detail.solved
    <2>1. after = detail
      BY <1>9 DEF Count
    <2>2. PICK i \in A : detail.time = s[i].time /\ \A j \in A : i <= j
      BY <1>4, <1>9
    <2>3. i \in B /\ i < k
      BY <1>1, <1>2, <1>3, <2>2
    <2>4. \A j \in B : i <= j
      BY <1>1, <1>2, <1>3, <2>2
    <2>5. ~ (k < i)
      BY <1>1, <1>3, <2>2
    <2>6. WrongIn(s, k) = WrongIn(s, k - 1)
      <3>1. ASSUME NEW m \in WrongIn(s, k) PROVE m \in WrongIn(s, k - 1)
        <4>1. m # k
          BY <1>7, <2>3, <2>5, <3>1
        <4>2. A \subseteq B
          BY <1>2
        <4> QED
          BY <1>1, <1>6, <1>7, <3>1, <4>1, <4>2
      <3>2. ASSUME NEW m \in WrongIn(s, k - 1) PROVE m \in WrongIn(s, k)
        <4>1. m \in 1..(k - 1) /\ m < k
          BY <1>1, <1>6, <3>2
        <4>2. B \subseteq A \cup {k}
          BY <1>2
        <4> QED
          BY <1>1, <1>6, <1>7, <3>2, <4>1, <4>2
      <3> QED
        BY <3>1, <3>2
    <2> QED
      BY <1>4, <1>9, <2>1, <2>2, <2>3, <2>4, <2>6 DEF Knows, B
  <1>10. CASE ~detail.solved /\ s[k].status = "AC"
    <2>1. after = [wrong |-> detail.wrong, solved |-> TRUE, time |-> s[k].time]
      BY <1>5, <1>10 DEF Count
    <2>2. A = {} /\ B = {k}
      BY <1>2, <1>4, <1>10
    <2>3. WrongIn(s, k) = WrongIn(s, k - 1)
      BY <1>1, <1>6, <1>7, <1>8, <1>10, <2>2
    <2>4. k <= k
      BY <1>1
    <2> QED
      BY <1>4, <2>1, <2>2, <2>3, <2>4 DEF Knows, B
  <1>11. CASE ~detail.solved /\ s[k].status \in Penalised
    <2>0. s[k].status # "AC"
      BY <1>8, <1>11
    <2>1. after = [wrong |-> detail.wrong + 1, solved |-> detail.solved,
                   time |-> detail.time]
      BY <1>5, <1>11, <2>0 DEF Count
    <2>2. A = {} /\ B = {}
      BY <1>2, <1>4, <1>11, <2>0
    <2>3. WrongIn(s, k) = WrongIn(s, k - 1) \cup {k}
      BY <1>1, <1>6, <1>7, <1>11, <2>2
    <2>4. k \notin WrongIn(s, k - 1)
      BY <1>1, <1>6
    <2>5. IsFiniteSet(WrongIn(s, k - 1))
      <3>1. WrongIn(s, k - 1) \in SUBSET (1..(k - 1))
        BY <1>6
      <3> QED
        BY <1>1, <3>1, FS_Interval, FS_Subset
    <2>6. Cardinality(WrongIn(s, k)) = Cardinality(WrongIn(s, k - 1)) + 1
      BY <2>3, <2>4, <2>5, FS_AddElement
    <2> QED
      BY <1>4, <1>11, <2>1, <2>2, <2>6 DEF Knows, B
  <1>12. CASE ~detail.solved /\ s[k].status # "AC" /\ s[k].status \notin Penalised
    <2>1. after = detail
      BY <1>12 DEF Count
    <2>2. A = {} /\ B = {}
      BY <1>2, <1>4, <1>12
    <2>3. WrongIn(s, k) = WrongIn(s, k - 1)
      BY <1>1, <1>6, <1>7, <1>12, <2>2
    <2> QED
      BY <1>4, <1>12, <2>1, <2>2, <2>3 DEF Knows, B
  <1> QED
    BY <1>9, <1>10, <1>11, <1>12

\* The loop over s ends with what it knows of all of s.
LEMMA LoopKnows ==
    ASSUME NEW R, Timed(R), NEW s \in Seq(R)
    PROVE  /\ FoldLeft(Count, Unsolved, s) \in Details
           /\ Knows(FoldLeft(Count, Unsolved, s), s, Len(s))
  <1> DEFINE n == Len(s)
  <1>1. n \in Nat
    OBVIOUS
  <1>2. PICK d \in [0..n -> Details] :
            Counts(d, s) /\ FoldLeft(Count, Unsolved, s) = d[n]
    BY FoldCounts
  <1> HIDE DEF n
  <1> DEFINE N == {k \in Nat : k <= n => Knows(d[k], s, k)}
  <1>3. 0 \in N
    BY <1>2, NothingKnown DEF Counts
  <1>4. ASSUME NEW k \in Nat, k \in N PROVE k + 1 \in N
    <2> SUFFICES ASSUME k + 1 <= n PROVE Knows(d[k + 1], s, k + 1)
      OBVIOUS
    <2>1. k + 1 \in 1..n /\ (k + 1) - 1 = k /\ k \in 0..n /\ k <= n
      BY <1>1
    <2>2. Knows(d[k], s, k) /\ d[k] \in Details
      BY <1>2, <1>4, <2>1
    <2>3. d[k + 1] = Count(d[k], s[k + 1])
      <3>1. \A i \in 1..n : d[i] = Count(d[i - 1], s[i])
        BY <1>2 DEF Counts, n
      <3> QED
        BY <2>1, <3>1
    <2> HIDE DEF N
    <2>4. \A i \in 1..n, detail \in Details :
             Knows(detail, s, i - 1) => Knows(Count(detail, s[i]), s, i)
      BY <1>1, KnowsMore
    <2> QED
      BY <2>1, <2>2, <2>3, <2>4
  <1>5. Nat \subseteq N
    <2> HIDE DEF N
    <2> QED
      BY <1>3, <1>4, NumberInduction
  <1>6. Knows(d[n], s, n) /\ d[n] \in Details
    BY <1>1, <1>2, <1>5
  <1> QED
    BY <1>2, <1>6 DEF n

\* Of runs that are in order, the loop finds what the rules say.
LEMMA LoopIsRule ==
    ASSUME NEW R, Timed(R), NEW s \in Seq(R),
           \A i, j \in DOMAIN s : i < j => Precedes(s, i, j)
    PROVE  FoldLeft(Count, Unsolved, s) = RuleDetail(s)
  <1> DEFINE n == Len(s)
             detail == FoldLeft(Count, Unsolved, s)
             A == Accepted(s)
  <1>1. n \in Nat /\ DOMAIN s = 1..n /\ \A i \in 1..n : i \in Nat /\ s[i] \in R
    OBVIOUS
  <1>2. \A i \in 1..n : s[i].time \in Nat
    BY <1>1 DEF Timed
  <1>3. detail \in Details /\ Knows(detail, s, n)
    BY LoopKnows
  <1>4. AcceptedIn(s, n) = A
    BY <1>1 DEF AcceptedIn, Accepted
  <1>5. A \subseteq 1..n
    BY <1>1 DEF Accepted
  <1> HIDE DEF n, detail
  <1>6. \A i, j \in 1..n : Precedes(s, i, j) <=> i < j
    BY <1>1, <1>2 DEF Precedes
  <1>7. WrongIn(s, n) = {i \in BeforeAC(s) : s[i].status \in Penalised}
    BY <1>1, <1>4, <1>5, <1>6 DEF WrongIn, BeforeAC, A
  <1> HIDE DEF A
  <1>8. A # {} => detail.time = Min({s[i].time : i \in A})
    <2> SUFFICES ASSUME A # {} PROVE detail.time = Min({s[i].time : i \in A})
      OBVIOUS
    <2>1. PICK i \in A : detail.time = s[i].time /\ \A j \in A : i <= j
      BY <1>3, <1>4 DEF Knows
    <2> DEFINE T == {s[j].time : j \in A}
    <2>2. \A j \in A : s[j].time \in Nat
      BY <1>2, <1>5
    <2>3. \A j \in A : s[i].time <= s[j].time
      <3> SUFFICES ASSUME NEW j \in A PROVE s[i].time <= s[j].time
        OBVIOUS
      <3>1. i \in 1..n /\ j \in 1..n /\ i <= j
        BY <1>5, <2>1
      <3>2. i = j \/ Precedes(s, i, j)
        BY <1>1, <1>6, <3>1
      <3> QED
        BY <2>2, <3>2 DEF Precedes
    <2>4. s[i].time \in T /\ (\A y \in T : s[i].time <= y) /\ T \subseteq Nat
      BY <2>1, <2>2, <2>3
    <2> HIDE DEF T
    <2>5. Min(T) \in T /\ \A y \in T : Min(T) <= y
      BY <2>4 DEF Min
    <2>6. Min(T) = s[i].time
      <3>1. Min(T) <= s[i].time /\ s[i].time <= Min(T)
        BY <2>4, <2>5
      <3>2. Min(T) \in Nat /\ s[i].time \in Nat
        BY <2>4, <2>5
      <3> HIDE DEF T
      <3> QED
        BY <3>1, <3>2
    <2> QED
      BY <2>1, <2>6 DEF T
  <1>9. detail = [wrong |-> detail.wrong, solved |-> detail.solved,
                  time |-> detail.time]
        /\ detail.solved \in BOOLEAN
    BY <1>3 DEF Details
  <1>10. detail.wrong = Cardinality({i \in BeforeAC(s) : s[i].status \in Penalised})
    BY <1>3, <1>7 DEF Knows
  <1>11. detail.solved = (A # {})
    BY <1>3, <1>4, <1>9 DEF Knows
  <1>12. detail.time = IF A = {} THEN 0 ELSE Min({s[i].time : i \in A})
    BY <1>3, <1>4, <1>8 DEF Knows
  <1>13. RuleDetail(s) =
            [solved |-> A # {},
             wrong  |-> Cardinality({i \in BeforeAC(s) : s[i].status \in Penalised}),
             time   |-> IF A = {} THEN 0 ELSE Min({s[i].time : i \in A})]
    BY DEF RuleDetail, A
  <1> QED
    BY <1>9, <1>10, <1>11, <1>12, <1>13 DEF detail

\* The rules do not see in which order the runs are numbered, only which run
\* precedes which.
LEMMA RulePermutes ==
    ASSUME NEW R, Timed(R), NEW h \in Seq(R), NEW o \in SetToSeqs(DOMAIN h),
           NEW s, s = [k \in DOMAIN h |-> h[o[k]]],
           \A i, j \in DOMAIN h : Precedes(s, i, j) <=> Precedes(h, o[i], o[j])
    PROVE  RuleDetail(s) = RuleDetail(h)
  <1> DEFINE D == DOMAIN h
             W == {i \in BeforeAC(s) : s[i].status \in Penalised}
             V == {i \in BeforeAC(h) : h[i].status \in Penalised}
  <1>1. /\ DOMAIN s = D
        /\ o \in Bijection(D, D)
        /\ IsFiniteSet(D)
    <2>1. o \in Bijection(D, D) /\ D = 1..Len(h) /\ Len(h) \in Nat
      BY SortedTyped
    <2> QED
      BY <2>1, FS_Interval
  <1>2. /\ o \in [D -> D]
        /\ \A i, j \in D : o[i] = o[j] => i = j
        /\ \A x \in D : \E i \in D : o[i] = x
    BY <1>1 DEF Bijection, Injection, Surjection, IsInjective
  <1>3. \A i \in D : s[i] = h[o[i]]
    OBVIOUS
  <1>4. Accepted(s) \subseteq D /\ Accepted(h) \subseteq D
    BY <1>1 DEF Accepted
  <1>5. \A i \in D : i \in Accepted(s) <=> o[i] \in Accepted(h)
    BY <1>1, <1>2, <1>3 DEF Accepted
  <1> HIDE DEF D
  <1>6. \A i \in D : i \in BeforeAC(s) <=> o[i] \in BeforeAC(h)
    <2> SUFFICES ASSUME NEW i \in D
                 PROVE  (\A j \in Accepted(s) : Precedes(s, i, j)) <=>
                        (\A j \in Accepted(h) : Precedes(h, o[i], j))
      BY <1>1, <1>2 DEF BeforeAC, D
    <2>1. ASSUME \A j \in Accepted(s) : Precedes(s, i, j), NEW j \in Accepted(h)
          PROVE  Precedes(h, o[i], j)
      <3>1. PICK k \in D : o[k] = j
        BY <1>2, <1>4
      <3>2. Precedes(s, i, k)
        BY <1>5, <2>1, <3>1
      <3> QED
        BY <3>1, <3>2 DEF D
    <2>2. ASSUME \A j \in Accepted(h) : Precedes(h, o[i], j), NEW j \in Accepted(s)
          PROVE  Precedes(s, i, j)
      <3>1. j \in D /\ o[j] \in Accepted(h)
        BY <1>4, <1>5
      <3> QED
        BY <2>2, <3>1 DEF D
    <2> QED
      BY <2>1, <2>2
  <1>7. \A i \in D : i \in W <=> o[i] \in V
    BY <1>3, <1>6
  <1>8. W \subseteq D /\ V \subseteq D
    BY <1>1 DEF BeforeAC, D
  <1> HIDE DEF W, V
  <1>9. Cardinality(W) = Cardinality(V)
    <2> DEFINE f == [i \in W |-> o[i]]
    <2>1. f \in [W -> V] /\ \A i \in W : f[i] = o[i]
      BY <1>7, <1>8
    <2>2. \A i, j \in W : f[i] = f[j] => i = j
      BY <1>2, <1>8, <2>1
    <2>3. \A x \in V : \E i \in W : f[i] = x
      BY <1>2, <1>7, <1>8, <2>1
    <2> HIDE DEF f
    <2>4. f \in Bijection(W, V)
      BY <2>1, <2>2, <2>3 DEF Bijection, Injection, Surjection, IsInjective
    <2>5. IsFiniteSet(W)
      BY <1>1, <1>8, FS_Subset
    <2> QED
      BY <2>4, <2>5, FS_Bijection DEF ExistsBijection
  <1>10. {s[i].time : i \in Accepted(s)} = {h[i].time : i \in Accepted(h)}
    <2> DEFINE times == {h[i].time : i \in Accepted(h)}
    <2>1. ASSUME NEW i \in Accepted(s) PROVE s[i].time \in times
      <3>1. o[i] \in Accepted(h) /\ s[i].time = h[o[i]].time
        BY <1>3, <1>4, <1>5
      <3> QED
        BY <3>1
    <2>2. ASSUME NEW j \in Accepted(h)
          PROVE  \E i \in Accepted(s) : s[i].time = h[j].time
      <3>1. PICK i \in D : o[i] = j
        BY <1>2, <1>4, <2>2
      <3> QED
        BY <1>3, <1>5, <2>2, <3>1
    <2>3. \A t \in times : \E i \in Accepted(s) : s[i].time = t
      BY <2>2
    <2> HIDE DEF times
    <2>4. {s[i].time : i \in Accepted(s)} = times
      BY <2>1, <2>3
    <2> QED
      BY <2>4 DEF times
  <1>11. Accepted(s) = {} <=> Accepted(h) = {}
    <2>1. ASSUME Accepted(s) = {}, NEW j \in Accepted(h) PROVE FALSE
      <3>1. PICK i \in D : o[i] = j
        BY <1>2, <1>4, <2>1
      <3> QED
        BY <1>5, <2>1, <3>1
    <2>2. ASSUME Accepted(h) = {}, NEW i \in Accepted(s) PROVE FALSE
      BY <1>4, <1>5, <2>2
    <2> QED
      BY <2>1, <2>2
  <1> QED
    BY <1>9, <1>10, <1>11 DEF RuleDetail, W, V

\* The sort and the loop that stops at the first accepted run find what the
\* rules say of any runs, in whatever order their verdicts arrived: the first
\* accepted run by contest time and the penalised runs before it
\* (scoring.service.ts:25-40).
THEOREM DetailIsRule ==
    ASSUME NEW R, Timed(R), NEW h \in Seq(R)
    PROVE  Detail(h) = RuleDetail(h)
  <1>1. PICK o : SortsRuns(o, h) /\ Sorted(h) = [k \in DOMAIN h |-> h[o[k]]]
    BY SortedRuns
  <1> DEFINE s == Sorted(h)
             D == DOMAIN h
  <1>2. /\ s \in Seq(R) /\ DOMAIN s = D
        /\ D = 1..Len(h) /\ Len(h) \in Nat
        /\ DOMAIN o = D /\ o \in [D -> D]
    BY <1>1, SortedTyped DEF SortsRuns, Bijection, Injection
  <1>3. \A i \in D : s[i] = h[o[i]] /\ h[o[i]] \in R /\ o[i] \in Nat /\ i \in Nat
    BY <1>1, <1>2
  <1>4. \A i \in D : h[o[i]].time \in Nat
    BY <1>3 DEF Timed
  <1>5. \A i, j \in D : i < j => Precedes(h, o[i], o[j])
    BY <1>1, <1>2 DEF SortsRuns
  <1> HIDE DEF s, D
  <1>6. \A i, j \in D : Precedes(h, o[i], o[j]) => ~Precedes(h, o[j], o[i])
    BY <1>3, <1>4 DEF Precedes
  <1>7. \A i, j \in D : Precedes(s, i, j) <=> i < j
    <2> SUFFICES ASSUME NEW i \in D, NEW j \in D PROVE Precedes(s, i, j) <=> i < j
      OBVIOUS
    <2>1. s[i].time = h[o[i]].time /\ s[j].time = h[o[j]].time
      BY <1>3
    <2>2. CASE i < j
      <3>1. h[o[i]].time <= h[o[j]].time
        BY <1>4, <1>5, <2>2 DEF Precedes
      <3> QED
        BY <1>4, <2>1, <2>2, <3>1 DEF Precedes
    <2>3. CASE j < i
      <3>1. h[o[j]].time <= h[o[i]].time
        BY <1>4, <1>5, <2>3 DEF Precedes
      <3> QED
        BY <1>3, <1>4, <2>1, <2>3, <3>1 DEF Precedes
    <2>4. CASE i = j
      BY <1>3, <1>4, <2>1, <2>4 DEF Precedes
    <2> QED
      BY <1>3, <2>2, <2>3, <2>4
  <1>8. \A i, j \in D : Precedes(h, o[i], o[j]) <=> i < j
    <2> SUFFICES ASSUME NEW i \in D, NEW j \in D
                 PROVE  Precedes(h, o[i], o[j]) <=> i < j
      OBVIOUS
    <2>1. CASE i = j
      BY <1>3, <1>6, <2>1
    <2>2. CASE i # j
      BY <1>3, <1>5, <1>6, <2>2
    <2> QED
      BY <2>1, <2>2
  <1>9. FoldLeft(Count, Unsolved, s) = RuleDetail(s)
    BY <1>2, <1>7, LoopIsRule
  <1>10. RuleDetail(s) = RuleDetail(h)
    <2>1. \A i, j \in DOMAIN h : Precedes(s, i, j) <=> Precedes(h, o[i], o[j])
      BY <1>7, <1>8 DEF D
    <2>2. o \in SetToSeqs(DOMAIN h) /\ s = [k \in DOMAIN h |-> h[o[k]]]
      BY <1>1 DEF SortsRuns, s
    <2> QED
      BY <2>1, <2>2, RulePermutes
  <1> QED
    BY <1>9, <1>10 DEF Detail, s

\* An interval from one counts up to its end.
LEMMA IntervalCounts ==
    ASSUME NEW n \in Nat, NEW S, S = 1..n
    PROVE  IsFiniteSet(S) /\ Cardinality(S) = n
  <1>1. IsFiniteSet(1..n) /\ Cardinality(1..n) = n
    BY FS_Interval
  <1> QED
    BY <1>1

\* The runs of one problem, no two of one second, give the same detail in
\* whatever order they are listed: the verdicts of the live board in the order
\* of arrival, the rows of the freeze in the order of creation.
THEOREM SameRunsSameDetail ==
    ASSUME NEW R, Timed(R), NEW a \in Seq(R), NEW b \in Seq(R),
           \A i, j \in DOMAIN a : a[i].time = a[j].time => i = j,
           \A i, j \in DOMAIN b : b[i].time = b[j].time => i = j,
           \A i \in DOMAIN a : \E j \in DOMAIN b : b[j] = a[i],
           \A j \in DOMAIN b : \E i \in DOMAIN a : a[i] = b[j]
    PROVE  Detail(a) = Detail(b)
  <1> DEFINE o == [i \in DOMAIN a |-> CHOOSE j \in DOMAIN b : b[j] = a[i]]
             A == DOMAIN a
             B == DOMAIN b
  <1>1. /\ A = 1..Len(a) /\ Len(a) \in Nat
        /\ B = 1..Len(b) /\ Len(b) \in Nat
        /\ \A i \in A : a[i] \in R
        /\ \A i \in B : b[i] \in R
    OBVIOUS
  <1>2. o \in [A -> B] /\ \A i \in A : b[o[i]] = a[i]
    OBVIOUS
  <1> HIDE DEF o, A, B
  <1>3. \A i, j \in A : o[i] = o[j] => i = j
    <2> SUFFICES ASSUME NEW i \in A, NEW j \in A, o[i] = o[j] PROVE i = j
      OBVIOUS
    <2>1. a[i] = b[o[i]] /\ a[j] = b[o[j]]
      BY <1>2
    <2>2. a[i] = a[j]
      BY <2>1
    <2>3. a[i].time = a[j].time
      BY <2>2
    <2> QED
      BY <2>3 DEF A
  <1>4. \A j \in B : \E i \in A : o[i] = j
    <2> SUFFICES ASSUME NEW j \in B PROVE \E i \in A : o[i] = j
      OBVIOUS
    <2>1. PICK i \in A : a[i] = b[j]
      BY DEF A, B
    <2>2. b[o[i]].time = b[j].time /\ o[i] \in B
      BY <1>2, <2>1
    <2> QED
      BY <2>2 DEF B
  <1>5. o \in Bijection(A, B)
    BY <1>2, <1>3, <1>4 DEF Bijection, Injection, Surjection, IsInjective
  <1>6. Len(a) = Len(b)
    <2>1. IsFiniteSet(A) /\ Cardinality(A) = Len(a)
      BY <1>1, IntervalCounts
    <2>2. IsFiniteSet(B) /\ Cardinality(B) = Len(b)
      BY <1>1, IntervalCounts
    <2> QED
      BY ONLY <1>5, <2>1, <2>2, FS_Bijection DEF ExistsBijection
  <1>7. A = B /\ Cardinality(B) = Len(b)
    <2>1. Cardinality(B) = Len(b)
      BY <1>1, IntervalCounts
    <2> QED
      BY <1>1, <1>6, <2>1
  <1>8. o \in SetToSeqs(B)
    BY <1>1, <1>2, <1>3, <1>7 DEF SetToSeqs
  <1>9. a = [k \in B |-> b[o[k]]]
    <2>1. a = [k \in A |-> a[k]]
      BY DEF A
    <2> QED
      BY <1>2, <1>7, <2>1
  <1>10. \A i \in A : a[i].time \in Nat /\ i \in Nat
    BY <1>1 DEF Timed
  <1>11. \A i, j \in B : Precedes(a, i, j) <=> Precedes(b, o[i], o[j])
    <2> SUFFICES ASSUME NEW i \in A, NEW j \in A
                 PROVE  Precedes(a, i, j) <=> Precedes(b, o[i], o[j])
      BY <1>7
    <2>1. a[i] = b[o[i]] /\ a[j] = b[o[j]]
      BY <1>2
    <2>2. o[i] \in B /\ o[j] \in B
      BY <1>2
    <2>5. o[i] \in Nat /\ o[j] \in Nat
      BY <1>1, <2>2
    <2>3. CASE i = j
      <3>1. ~Precedes(a, i, i)
        BY <1>10 DEF Precedes
      <3>2. b[o[i]].time \in Nat
        BY <1>10, <2>1
      <3>3. ~Precedes(b, o[i], o[i])
        BY ONLY <2>5, <3>2 DEF Precedes
      <3> QED
        BY ONLY <2>3, <3>1, <3>3
    <2>4. CASE i # j
      <3>1. a[i].time # a[j].time
        BY <2>4 DEF A
      <3>2. Precedes(a, i, j) <=> a[i].time < a[j].time
        BY ONLY <1>10, <3>1 DEF Precedes
      <3>3. b[o[i]].time # b[o[j]].time
        BY ONLY <2>1, <3>1
      <3>4. b[o[i]].time \in Nat /\ b[o[j]].time \in Nat
        BY <1>10, <2>1
      <3>5. Precedes(b, o[i], o[j]) <=> b[o[i]].time < b[o[j]].time
        BY ONLY <3>3, <3>4 DEF Precedes
      <3> QED
        BY ONLY <2>1, <3>2, <3>5
    <2> QED
      BY <2>3, <2>4
  <1>12. RuleDetail(a) = RuleDetail(b)
    <2>1. /\ o \in SetToSeqs(DOMAIN b)
          /\ a = [k \in DOMAIN b |-> b[o[k]]]
          /\ \A i, j \in DOMAIN b : Precedes(a, i, j) <=> Precedes(b, o[i], o[j])
      BY <1>8, <1>9, <1>11 DEF B
    <2>2. Timed(R) /\ b \in Seq(R)
      OBVIOUS
    <2> QED
      BY ONLY <2>1, <2>2, RulePermutes, Zenon
  <1> QED
    BY <1>12, DetailIsRule

-----------------------------------------------------------------------------
(* Two clocks.                                                             *)

\* y is the detail of a problem that x is, with a clock up to d seconds apart.
Shifted(x, y, d) ==
    /\ y.solved = x.solved
    /\ y.wrong = x.wrong
    /\ y.time - x.time \in -d..d

\* The earliest time of a set of runs moves by no more than the runs do.
LEMMA ShiftedMin ==
    ASSUME NEW A, A # {}, NEW d \in Nat,
           NEW f \in [A -> Nat], NEW g \in [A -> Nat],
           \A i \in A : g[i] - f[i] \in -d..d,
           NEW F, F = {f[i] : i \in A}, NEW G, G = {g[i] : i \in A}
    PROVE  Min(G) - Min(F) \in -d..d
  <1>1. F \subseteq Nat /\ F # {} /\ G \subseteq Nat /\ G # {}
    OBVIOUS
  <1>2. PICK m \in F : \A n \in F : m <= n
    BY <1>1, LeastNatural
  <1>3. PICK k \in G : \A n \in G : k <= n
    BY <1>1, LeastNatural
  <1>4. \A i \in A : f[i] \in F /\ g[i] \in G
    OBVIOUS
  <1>5. PICK i \in A : m = f[i]
    BY <1>2
  <1>6. PICK j \in A : k = g[j]
    BY <1>3
  <1>7. Min(F) \in F /\ \A n \in F : Min(F) <= n
    BY <1>2 DEF Min
  <1>8. Min(G) \in G /\ \A n \in G : Min(G) <= n
    BY <1>3 DEF Min
  <1>9. Min(F) = m /\ Min(G) = k
    <2>1. Min(F) <= m /\ m <= Min(F) /\ Min(F) \in Nat /\ m \in Nat
      BY <1>1, <1>2, <1>7
    <2>2. Min(G) <= k /\ k <= Min(G) /\ Min(G) \in Nat /\ k \in Nat
      BY <1>1, <1>3, <1>8
    <2> QED
      BY <2>1, <2>2
  <1>10. k <= g[i] /\ m <= f[j]
    BY <1>2, <1>3, <1>4
  <1>11. k - m \in -d..d
    <2>1. g[i] - f[i] \in -d..d /\ g[j] - f[j] \in -d..d
      OBVIOUS
    <2>2. f[i] \in Nat /\ g[i] \in Nat /\ f[j] \in Nat /\ g[j] \in Nat
      OBVIOUS
    <2> QED
      BY <1>5, <1>6, <1>10, <2>1, <2>2
  <1> QED
    BY <1>9, <1>11

\* A listing of runs whose times are taken from another clock, which is at most
\* d seconds off and sees the runs in the same order, is solved alike, with the
\* same wrong attempts, at a time at most d seconds off.
THEOREM ShiftedRunsShiftedDetail ==
    ASSUME NEW R, Timed(R), NEW a \in Seq(R), NEW b \in Seq(R), NEW d \in Nat,
           DOMAIN a = DOMAIN b,
           \A i \in DOMAIN a : b[i].status = a[i].status,
           \A i \in DOMAIN a : b[i].time - a[i].time \in -d..d,
           \A i, j \in DOMAIN a : Precedes(a, i, j) <=> Precedes(b, i, j)
    PROVE  Shifted(Detail(a), Detail(b), d)
  <1> DEFINE A == Accepted(a)
  <1>1. Detail(a) = RuleDetail(a) /\ Detail(b) = RuleDetail(b)
    BY DetailIsRule
  <1>2. Accepted(b) = A /\ A \subseteq DOMAIN a
    BY DEF Accepted
  <1>3. BeforeAC(b) = BeforeAC(a)
    BY <1>2 DEF BeforeAC
  <1>4. {i \in BeforeAC(b) : b[i].status \in Penalised}
            = {i \in BeforeAC(a) : a[i].status \in Penalised}
    BY <1>3 DEF BeforeAC
  <1>5. \A i \in DOMAIN a : a[i].time \in Nat /\ b[i].time \in Nat
    <2>1. \A i \in DOMAIN a : a[i] \in R /\ b[i] \in R
      OBVIOUS
    <2> QED
      BY <2>1 DEF Timed
  <1> HIDE DEF A
  <1> DEFINE F == {a[i].time : i \in A}
             G == {b[i].time : i \in A}
  <1>6. ASSUME A # {} PROVE Min(G) - Min(F) \in -d..d
    <2> DEFINE f == [i \in A |-> a[i].time]
               g == [i \in A |-> b[i].time]
    <2>1. f \in [A -> Nat] /\ g \in [A -> Nat]
      BY <1>2, <1>5
    <2>2. \A i \in A : g[i] - f[i] \in -d..d
      BY <1>2
    <2>3. F = {f[i] : i \in A} /\ G = {g[i] : i \in A}
      OBVIOUS
    <2> HIDE DEF f, g, F, G
    <2>4. d \in Nat
      OBVIOUS
    <2> QED
      BY ONLY <1>6, <2>1, <2>2, <2>3, <2>4, ShiftedMin, Zenon
  <1>7. /\ RuleDetail(a).time = IF A = {} THEN 0 ELSE Min(F)
        /\ RuleDetail(b).time = IF A = {} THEN 0 ELSE Min(G)
    BY <1>2 DEF RuleDetail, A
  <1> HIDE DEF F, G
  <1>8. RuleDetail(b).time - RuleDetail(a).time \in -d..d
    BY <1>6, <1>7
  <1>9. RuleDetail(b).wrong = RuleDetail(a).wrong
    BY <1>4 DEF RuleDetail
  <1>10. RuleDetail(b).solved = RuleDetail(a).solved
    BY <1>2 DEF RuleDetail, A
  <1> QED
    BY <1>1, <1>8, <1>9, <1>10 DEF Shifted

\* The penalties of a user's problems together move by at most d seconds for
\* each problem solved.
LEMMA ShiftedPenalties ==
    ASSUME NEW S, IsFiniteSet(S), NEW d \in Nat,
           NEW x, DOMAIN x = S, \A p \in S : x[p] \in Details,
           NEW y, DOMAIN y = S, \A p \in S : y[p] \in Details,
           \A p \in S : Shifted(x[p], y[p], d),
           NEW slack, slack = d * Cardinality({p \in S : x[p].solved})
    PROVE  TotalPenalty(y) - TotalPenalty(x) \in -slack..slack
  <1> DEFINE solved(T) == {p \in T : x[p].solved}
             bound(T) == d * Cardinality(solved(T))
  <1>1. PICK f : SumsPenalties(f, S, x) /\ TotalPenalty(x) = f[S]
    BY PenaltySums
  <1>2. PICK g : SumsPenalties(g, S, y) /\ TotalPenalty(y) = g[S]
    BY PenaltySums
  <1> DEFINE close == [T \in SUBSET S |-> g[T] - f[T] \in -bound(T)..bound(T)]
             all == [T \in SUBSET S |-> TRUE]
             choose == Picks(S)
  <1>3. Chooses(choose, S)
    BY PicksChoose
  <1>4. \A T \in SUBSET S : /\ IsFiniteSet(solved(T))
                            /\ Cardinality(solved(T)) \in Nat
                            /\ bound(T) \in Nat
    <2> SUFFICES ASSUME NEW T \in SUBSET S
                 PROVE  /\ IsFiniteSet(solved(T))
                        /\ Cardinality(solved(T)) \in Nat
                        /\ bound(T) \in Nat
      OBVIOUS
    <2>1. solved(T) \subseteq S
      OBVIOUS
    <2> HIDE DEF solved
    <2>2. IsFiniteSet(solved(T)) /\ Cardinality(solved(T)) \in Nat
      BY <2>1, FS_Subset, FS_CardinalityType
    <2> QED
      BY <2>2
  <1>5. f \in [SUBSET S -> Nat] /\ g \in [SUBSET S -> Nat]
        /\ f[{}] = 0 /\ g[{}] = 0
    BY <1>1, <1>2 DEF SumsPenalties
  <1>6. close[{}] = all[{}]
    <2>1. bound({}) \in Nat
      BY <1>4
    <2>2. {} \in SUBSET S
      OBVIOUS
    <2> HIDE DEF bound
    <2>3. g[{}] - f[{}] \in -bound({})..bound({})
      BY <1>5, <2>1
    <2> QED
      BY <2>2, <2>3
  <1>7. ASSUME NEW T \in SUBSET S, T # {},
               close[T \ {choose[T]}] = all[T \ {choose[T]}]
        PROVE  close[T] = all[T]
    <2> DEFINE p == choose[T]
               U == T \ {p}
    <2>1. p \in T /\ p \in S /\ U \in SUBSET S
      BY <1>3, <1>7 DEF Chooses
    <2>2. f[T] = ProblemPenalty(x[p]) + f[U] /\ g[T] = ProblemPenalty(y[p]) + g[U]
      BY <1>1, <1>2, <1>7 DEF SumsPenalties
    <2>3. g[U] - f[U] \in -bound(U)..bound(U)
      BY <1>7, <2>1
    <2>4. /\ x[p].solved \in BOOLEAN /\ x[p].time \in Nat /\ x[p].wrong \in Nat
          /\ y[p].time \in Nat
          /\ y[p].solved = x[p].solved /\ y[p].wrong = x[p].wrong
          /\ y[p].time - x[p].time \in -d..d
      BY <2>1 DEF Shifted, Details
    <2>5. f[T] \in Nat /\ g[T] \in Nat /\ f[U] \in Nat /\ g[U] \in Nat
      BY <1>5, <2>1
    <2> HIDE DEF p
    <2>6. ASSUME x[p].solved PROVE g[T] - f[T] \in -bound(T)..bound(T)
      <3>1. solved(U) = solved(T) \ {p} /\ p \in solved(T)
        BY <2>1, <2>6
      <3>2. Cardinality(solved(U)) = Cardinality(solved(T)) - 1
        <4> HIDE DEF solved, U
        <4> QED
          BY <1>4, <3>1, FS_RemoveElement
      <3>3. ProblemPenalty(y[p]) - ProblemPenalty(x[p]) = y[p].time - x[p].time
            /\ ProblemPenalty(x[p]) \in Nat /\ ProblemPenalty(y[p]) \in Nat
        BY <2>4, <2>6 DEF ProblemPenalty
      <3>4. bound(T) = bound(U) + d /\ bound(U) \in Nat
        <4> DEFINE n == Cardinality(solved(U))
                   m == Cardinality(solved(T))
        <4>1. n \in Nat /\ m \in Nat
          BY <1>4, <2>1
        <4>2. m = n + 1
          BY <3>2, <4>1
        <4>3. bound(T) = d * m /\ bound(U) = d * n
          OBVIOUS
        <4> HIDE DEF m, n, bound
        <4> QED
          BY <4>1, <4>2, <4>3
      <3> HIDE DEF bound, U
      <3> QED
        BY <2>2, <2>3, <2>4, <2>5, <3>3, <3>4
    <2>7. ASSUME ~x[p].solved PROVE g[T] - f[T] \in -bound(T)..bound(T)
      <3>1. solved(U) = solved(T)
        BY <2>1, <2>7
      <3>2. bound(U) = bound(T)
        BY <3>1
      <3>3. ProblemPenalty(y[p]) = 0 /\ ProblemPenalty(x[p]) = 0
        BY <2>4, <2>7 DEF ProblemPenalty
      <3> HIDE DEF bound, U
      <3> QED
        BY <2>2, <2>3, <2>5, <3>2, <3>3
    <2>8. g[T] - f[T] \in -bound(T)..bound(T)
      BY <2>4, <2>6, <2>7
    <2> QED
      BY <2>8
  <1>8. AgreeAsFolds(close, all, S, choose)
    <2> HIDE DEF close, all, choose
    <2> QED
      BY <1>6, <1>7 DEF AgreeAsFolds
  <1>9. \A T \in SUBSET S : close[T] = all[T]
    <2> HIDE DEF close, all, choose
    <2> QED
      BY <1>3, <1>8, FoldsAgree
  <1>10. g[S] - f[S] \in -bound(S)..bound(S)
    <2>1. close[S] = all[S] /\ S \in SUBSET S
      BY <1>9
    <2> HIDE DEF bound
    <2> QED
      BY <2>1
  <1> QED
    BY <1>1, <1>2, <1>10

\* So does the score of computeUserScores (scoring.service.ts:42-51): with
\* details that differ only by a clock at most d seconds off, it moves by at most
\* d for each problem solved.
THEOREM ShiftedDetailsShiftScore ==
    ASSUME NEW R, Timed(R), NEW x, NEW y, DOMAIN x = DOMAIN y,
           IsFiniteSet(DOMAIN x), NEW d \in Nat,
           \A p \in DOMAIN x : x[p] \in Seq(R) /\ y[p] \in Seq(R),
           \A p \in DOMAIN x : Shifted(Detail(x[p]), Detail(y[p]), d),
           NEW slack, slack = d * computeUserScores(x).solved
    PROVE  computeUserScores(y).score - computeUserScores(x).score \in -slack..slack
  <1> DEFINE S == DOMAIN x
             dx == [p \in S |-> Detail(x[p])]
             dy == [p \in S |-> Detail(y[p])]
             n == Cardinality({p \in S : dx[p].solved})
             m == Cardinality({p \in S : dy[p].solved})
  <1>1. /\ DOMAIN dx = S /\ \A p \in S : dx[p] \in Details
        /\ DOMAIN dy = S /\ \A p \in S : dy[p] \in Details
        /\ \A p \in S : Shifted(dx[p], dy[p], d)
    BY DetailTyped
  <1>2. {p \in S : dx[p].solved} = {p \in S : dy[p].solved}
    BY <1>1 DEF Shifted
  <1>3. n = m
    BY <1>2
  <1>4. /\ computeUserScores(x).score = Composite(n, TotalPenalty(dx))
        /\ computeUserScores(x).solved = n
        /\ computeUserScores(y).score = Composite(m, TotalPenalty(dy))
    BY DEF computeUserScores
  <1>5. n \in Nat
    <2>1. {p \in S : dx[p].solved} \subseteq S
      OBVIOUS
    <2> QED
      BY <2>1, FS_Subset, FS_CardinalityType
  <1>6. slack = d * n
    BY <1>4
  <1>7. /\ TotalPenalty(dy) - TotalPenalty(dx) \in -slack..slack
        /\ TotalPenalty(dx) \in Nat /\ TotalPenalty(dy) \in Nat
    <2>1. slack = d * Cardinality({p \in S : dx[p].solved})
      BY <1>6
    <2> HIDE DEF dx, dy
    <2> QED
      BY <1>1, <2>1, ShiftedPenalties, PenaltyTyped
  <1> HIDE DEF dx, dy, n, m
  <1>8. n * PenaltyOffset \in Nat /\ slack \in Nat
    BY <1>5, <1>6, PenaltyOffsetAssumption
  <1> QED
    BY <1>3, <1>4, <1>7, <1>8 DEF Composite

-----------------------------------------------------------------------------
(* The composite number.                                                   *)

\* One more unit is worth at least one offset.
LEMMA OffsetSteps ==
    ASSUME NEW m \in Nat, NEW n \in Nat, m > n
    PROVE  m * PenaltyOffset >= n * PenaltyOffset + PenaltyOffset
  <1> DEFINE d == m - n - 1
  <1>1. d \in Nat /\ m = n + 1 + d
    OBVIOUS
  <1>2. (n + 1 + d) * PenaltyOffset = n * PenaltyOffset + PenaltyOffset + d * PenaltyOffset
    BY <1>1, PenaltyOffsetAssumption
  <1>3. d * PenaltyOffset >= 0
    BY <1>1, PenaltyOffsetAssumption
  <1>4. n * PenaltyOffset \in Nat /\ d * PenaltyOffset \in Int
    BY <1>1, PenaltyOffsetAssumption
  <1> HIDE DEF d
  <1> QED
    BY <1>1, <1>2, <1>3, <1>4, PenaltyOffsetAssumption

\* Two standings whose penalties stay below the offset are sorted by the
\* composite number (scoring.service.ts:51) as ICPC ranks them: more problems
\* solved first, then less penalty.
THEOREM CompositeSortsAsICPC ==
    ASSUME NEW a \in [solved: Nat, penalty: 0..(PenaltyOffset - 1)],
           NEW b \in [solved: Nat, penalty: 0..(PenaltyOffset - 1)]
    PROVE  SortsAsICPC(a, b)
  <1> DEFINE A == a.solved * PenaltyOffset
             B == b.solved * PenaltyOffset
  <1>0. /\ a.solved \in Nat /\ b.solved \in Nat
        /\ a.penalty \in 0..(PenaltyOffset - 1) /\ b.penalty \in 0..(PenaltyOffset - 1)
        /\ PenaltyOffset \in Nat \ {0}
    BY PenaltyOffsetAssumption
  <1>1. A \in Nat /\ B \in Nat
    BY <1>0
  <1>2. CASE a.solved > b.solved
    <2>1. A >= B + PenaltyOffset
      BY <1>0, <1>2, OffsetSteps
    <2> HIDE DEF A, B
    <2>2. A - a.penalty > B - b.penalty
      BY <1>0, <1>1, <2>1
    <2> QED
      BY <1>2, <2>2 DEF SortsAsICPC, Composite, RanksAbove, A, B
  <1>3. CASE b.solved > a.solved
    <2>1. B >= A + PenaltyOffset
      BY <1>0, <1>3, OffsetSteps
    <2> HIDE DEF A, B
    <2>2. ~(A - a.penalty > B - b.penalty)
      BY <1>0, <1>1, <2>1
    <2>3. ~RanksAbove(a, b)
      BY <1>0, <1>3 DEF RanksAbove
    <2> QED
      BY <2>2, <2>3 DEF SortsAsICPC, Composite, A, B
  <1>4. CASE a.solved = b.solved
    <2>1. A = B
      BY <1>4
    <2> HIDE DEF A, B
    <2>2. A - a.penalty > B - b.penalty <=> a.penalty < b.penalty
      BY <1>0, <1>1, <2>1
    <2>3. RanksAbove(a, b) <=> a.penalty < b.penalty
      BY <1>0, <1>4 DEF RanksAbove
    <2> QED
      BY <2>2, <2>3 DEF SortsAsICPC, Composite, A, B
  <1> QED
    BY <1>0, <1>2, <1>3, <1>4
=============================================================================
