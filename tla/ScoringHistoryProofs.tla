------------------------ MODULE ScoringHistoryProofs ------------------------
(* Proofs about ScoringHistory: what computeUserScores makes of every      *)
(* history of a contest, of any number of users, problems and runs.        *)
EXTENDS ScoringHistory, ScoringProofs

Runs == [time : Times, status : RunStatuses]

RunsOK == runs \in [Users -> [Problems -> Seq(Runs)]]

LEMMA RunsAreTimed == Timed(Runs)
  BY HistoryAssumption DEF Timed, Runs

LEMMA RunsAlways == Spec => []RunsOK
  <1> DEFINE History == Seq(Runs)
  <1>1. Init => RunsOK
    <2>1. <<>> \in History
      OBVIOUS
    <2> HIDE DEF History
    <2>2. Init => runs \in [Users -> [Problems -> History]]
      BY <2>1 DEF Init
    <2> QED
      BY <2>2 DEF RunsOK, History
  <1>2. ASSUME RunsOK, [Next]_runs PROVE RunsOK'
    <2>1. ASSUME NEW u \in Users, NEW p \in Problems, Arrive(u, p) PROVE RunsOK'
      <3>1. PICK t \in Times, st \in RunStatuses :
               runs' = [runs EXCEPT ![u][p] =
                           Append(runs[u][p], [time |-> t, status |-> st])]
        BY <2>1 DEF Arrive
      <3> DEFINE more == Append(runs[u][p], [time |-> t, status |-> st])
      <3>2. runs[u][p] \in History
        BY <1>2 DEF RunsOK
      <3>3. [time |-> t, status |-> st] \in Runs
        BY DEF Runs
      <3>4. more \in History
        BY <3>2, <3>3
      <3>5. runs \in [Users -> [Problems -> History]]
        BY <1>2 DEF RunsOK
      <3> HIDE DEF History, more
      <3>6. runs' \in [Users -> [Problems -> History]]
        BY <3>1, <3>4, <3>5 DEF more
      <3> QED
        BY <3>6 DEF RunsOK, History
    <2> QED
      BY <1>2, <2>1 DEF Next, RunsOK
  <1> QED
    BY <1>1, <1>2, PTL DEF Spec

LEMMA HistoryTyped ==
    ASSUME RunsOK, NEW u \in Users, NEW p \in Problems
    PROVE  runs[u][p] \in Seq(Runs)
  BY DEF RunsOK

-----------------------------------------------------------------------------

\* In every history the loop over the sorted runs finds the first accepted run
\* by contest time and counts the penalised runs before it and no others,
\* whatever order the verdicts arrived in (scoring.service.ts:25-40).
THEOREM RunsBeforeACCount == Spec => []CountsRunsBeforeAC
  <1>1. ASSUME RunsOK PROVE CountsRunsBeforeAC
    BY <1>1, RunsAreTimed, HistoryTyped, DetailIsRule DEF CountsRunsBeforeAC
  <1> QED
    BY <1>1, RunsAlways, PTL

\* Runs at different seconds score the same in every order of arrival: the sort
\* makes the order of the list irrelevant (scoring.service.ts:25).
THEOREM ArrivalIsIrrelevant == Spec => []ArrivalOrderIsIrrelevant
  <1>1. ASSUME RunsOK PROVE ArrivalOrderIsIrrelevant
    <2> SUFFICES ASSUME NEW u \in Users, NEW p \in Problems, NEW h, h = runs[u][p],
                        \A i, j \in DOMAIN h : h[i].time = h[j].time => i = j,
                        NEW order \in SetToSeqs(DOMAIN h)
                 PROVE  Detail([k \in DOMAIN h |-> h[order[k]]]) = Detail(h)
      BY DEF ArrivalOrderIsIrrelevant
    <2> DEFINE g == [k \in DOMAIN h |-> h[order[k]]]
    <2>1. h \in Seq(Runs)
      BY <1>1, HistoryTyped
    <2>2. /\ g \in Seq(Runs)
          /\ DOMAIN h = 1..Len(h) /\ Len(h) \in Nat
          /\ order \in Bijection(DOMAIN h, DOMAIN h)
      BY <2>1, RunsAreTimed, SortedTyped
    <2>3. \A i \in DOMAIN h : /\ order[i] \in DOMAIN h
                              /\ g[i] = h[order[i]]
                              /\ g[i].time \in Nat
      <3>1. \A i \in DOMAIN h : order[i] \in DOMAIN h /\ h[i] \in Runs
        BY <2>1, <2>2 DEF Bijection, Injection
      <3> QED
        BY <3>1, RunsAreTimed DEF Timed
    <2>4. \A i, j \in DOMAIN h : order[i] = order[j] => i = j
      BY <2>2 DEF Bijection, Injection, IsInjective
    <2>5. ASSUME NEW i \in DOMAIN h, NEW j \in DOMAIN h
          PROVE  Precedes(g, i, j) <=> Precedes(h, order[i], order[j])
      <3>1. g[i] = h[order[i]] /\ g[j] = h[order[j]]
        BY <2>3
      <3>2. CASE i = j
        BY <2>2, <2>3, <3>1, <3>2 DEF Precedes
      <3>3. CASE i # j
        <4>1. h[order[i]].time # h[order[j]].time
          BY <2>3, <2>4, <3>3
        <4> HIDE DEF g
        <4> QED
          BY <3>1, <4>1 DEF Precedes
      <3> QED
        BY <3>2, <3>3
    <2> HIDE DEF g
    <2>6. RuleDetail(g) = RuleDetail(h)
      BY <2>1, <2>5, RunsAreTimed, RulePermutes DEF g
    <2>7. Detail(g) = RuleDetail(g) /\ Detail(h) = RuleDetail(h)
      BY <2>1, <2>2, RunsAreTimed, DetailIsRule
    <2> QED
      BY <2>6, <2>7 DEF g
  <1> QED
    BY <1>1, RunsAlways, PTL

\* Users whose penalties stay below the offset are sorted by the composite
\* number as ICPC ranks them (scoring.service.ts:51).
THEOREM CompositeRanksAsICPC == Spec => []CompositeIsICPC
  <1>1. ASSUME RunsOK PROVE CompositeIsICPC
    <2> SUFFICES ASSUME NEW u \in Users, NEW v \in Users,
                        Scores(u).penalty < PenaltyOffset,
                        Scores(v).penalty < PenaltyOffset
                 PROVE  Scores(u).score > Scores(v).score
                        <=> RanksAbove(Scores(u), Scores(v))
      BY DEF CompositeIsICPC
    <2>1. ASSUME NEW w \in Users
          PROVE  /\ Scores(w).solved \in Nat
                 /\ Scores(w).penalty \in Nat
                 /\ Scores(w).score = Composite(Scores(w).solved, Scores(w).penalty)
      <3>1. DOMAIN runs[w] = Problems
        BY <1>1 DEF RunsOK
      <3>2. \A p \in DOMAIN runs[w] : runs[w][p] \in Seq(Runs)
        BY <1>1, <3>1, HistoryTyped
      <3>3. IsFiniteSet(DOMAIN runs[w])
        BY <3>1, HistoryAssumption
      <3> QED
        BY <3>2, <3>3, RunsAreTimed, ScoreTyped DEF Scores
    <2> DEFINE Rank(w) == [solved |-> Scores(w).solved,
                           penalty |-> Scores(w).penalty]
               Ranks == [solved: Nat, penalty: 0..(PenaltyOffset - 1)]
    <2>2. Rank(u) \in Ranks /\ Rank(v) \in Ranks
      <3>1. Scores(u).penalty \in 0..(PenaltyOffset - 1)
            /\ Scores(v).penalty \in 0..(PenaltyOffset - 1)
        BY <2>1, PenaltyOffsetAssumption
      <3> QED
        BY <2>1, <3>1
    <2>3. SortsAsICPC(Rank(u), Rank(v))
      BY <2>2, CompositeSortsAsICPC
    <2>4. RanksAbove(Rank(u), Rank(v)) <=> RanksAbove(Scores(u), Scores(v))
      BY DEF RanksAbove
    <2>5. Composite(Scores(u).solved, Scores(u).penalty)
             > Composite(Scores(v).solved, Scores(v).penalty)
          <=> RanksAbove(Scores(u), Scores(v))
      BY <2>3, <2>4 DEF SortsAsICPC
    <2> QED
      BY <2>1, <2>5
  <1> QED
    BY <1>1, RunsAlways, PTL
=============================================================================
