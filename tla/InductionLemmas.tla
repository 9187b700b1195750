-------------------------- MODULE InductionLemmas --------------------------
(* Induction over numbers and finite sets, the existence of a fold and the *)
(* existence of an order. The library states its induction theorems for    *)
(* predicates; here a property is the set of the values that have it, a    *)
(* step of a fold is a function, and an order is a set of pairs.           *)
EXTENDS SequencesExt, FiniteSetTheorems, TLAPS

-----------------------------------------------------------------------------
(* Induction.                                                              *)

LEMMA LeastNatural ==
    ASSUME NEW T \in SUBSET Nat, T # {}
    PROVE  \E m \in T : \A n \in T : m <= n
  <1> DEFINE R == OpToRel(<, Nat)
  <1>1. IsWellFoundedOn(R, Nat)
    BY NatLessThanWellFounded
  <1>2. \A m, n \in Nat : m < n => <<m, n>> \in R
    BY DEF OpToRel
  <1> HIDE DEF R
  <1>3. PICK m \in T : \A n \in T : ~ (<<n, m>> \in R)
    BY <1>1, WFMin
  <1>4. \A n \in T : ~ (n < m)
    BY <1>2, <1>3
  <1> QED
    BY <1>4

\* What holds of 0, and of n + 1 if it holds of n, holds of every number.
LEMMA NumberInduction ==
    ASSUME NEW T, 0 \in T, \A n \in Nat : n \in T => n + 1 \in T
    PROVE  Nat \subseteq T
  <1> SUFFICES ASSUME Nat \ T # {} PROVE FALSE
    OBVIOUS
  <1>1. PICK m \in Nat \ T : \A n \in Nat \ T : m <= n
    BY LeastNatural
  <1>2. m - 1 \in Nat
    BY <1>1
  <1>3. m - 1 \in T
    BY <1>1, <1>2
  <1>4. (m - 1) + 1 = m
    BY <1>1
  <1> QED
    BY <1>1, <1>2, <1>3, <1>4

\* What holds of the empty set, and of T and one member more if it holds of T,
\* holds of a finite set.
LEMMA SetInduction ==
    ASSUME NEW S, IsFiniteSet(S), NEW P,
           {} \in P,
           \A T \in SUBSET S, x \in S :
              T \in P /\ x \notin T => T \cup {x} \in P
    PROVE  S \in P
  <1> DEFINE N == {n \in Nat :
                      \A T \in SUBSET S : Cardinality(T) = n => T \in P}
  <1>1. 0 \in N
    BY FS_Subset, FS_EmptySet
  <1>2. ASSUME NEW n \in Nat, n \in N PROVE n + 1 \in N
    <2> SUFFICES ASSUME NEW T \in SUBSET S, Cardinality(T) = n + 1
                 PROVE  T \in P
      OBVIOUS
    <2>1. IsFiniteSet(T) /\ T # {}
      BY FS_Subset, FS_EmptySet
    <2>2. PICK x \in T : TRUE
      BY <2>1
    <2>6. Cardinality(T \ {x}) = Cardinality(T) - 1
      BY <2>1, <2>2, FS_RemoveElement
    <2>3. Cardinality(T \ {x}) = n
      BY <2>6
    <2>4. T \ {x} \in P
      BY <1>2, <2>3
    <2>5. T = (T \ {x}) \cup {x}
      BY <2>2
    <2> QED
      BY <2>2, <2>4, <2>5
  <1>3. Nat \subseteq N
    <2> HIDE DEF N
    <2> QED
      BY <1>1, <1>2, NumberInduction
  <1>4. Cardinality(S) \in Nat
    BY FS_CardinalityType
  <1> QED
    BY <1>3, <1>4

-----------------------------------------------------------------------------
(* Folds.                                                                  *)

\* A fold over the subsets of S that takes the members as choose says.
Folds(g, S, choose, base, step) ==
    \A T \in SUBSET S :
        g[T] = IF T = {} THEN base ELSE step[<<choose[T], g[T \ {choose[T]}]>>]

Chooses(choose, S) == \A T \in SUBSET S : T # {} => choose[T] \in T

\* It exists, with values of the type of its base and its step.
LEMMA FoldExists ==
    ASSUME NEW S, IsFiniteSet(S), NEW V, NEW base \in V,
           NEW step \in [S \X V -> V],
           NEW choose, Chooses(choose, S)
    PROVE  \E g \in [SUBSET S -> V] : Folds(g, S, choose, base, step)
  <1> DEFINE F(g, T) == IF T = {} THEN base
                         ELSE step[<<choose[T], g[T \ {choose[T]}]>>]
             N == {n \in Nat : \E g \in [SUBSET S -> V] :
                      \A T \in SUBSET S : Cardinality(T) <= n => g[T] = F(g, T)}
  <1>1. \A g \in [SUBSET S -> V], T \in SUBSET S : F(g, T) \in V
    BY DEF Chooses
  <1>2. \A T \in SUBSET S : IsFiniteSet(T) /\ Cardinality(T) \in Nat
    BY FS_Subset, FS_CardinalityType
  <1>3. 0 \in N
    <2> DEFINE g == [T \in SUBSET S |-> base]
    <2>1. ASSUME NEW T \in SUBSET S, Cardinality(T) <= 0 PROVE g[T] = F(g, T)
      <3>1. T = {}
        BY <1>2, <2>1, FS_EmptySet
      <3> QED
        BY <3>1
    <2>2. g \in [SUBSET S -> V]
      OBVIOUS
    <2> HIDE DEF g
    <2> QED
      BY <2>1, <2>2
  <1>4. ASSUME NEW n \in Nat, n \in N PROVE n + 1 \in N
    <2>1. PICK g \in [SUBSET S -> V] :
              \A T \in SUBSET S : Cardinality(T) <= n => g[T] = F(g, T)
      BY <1>4
    <2> DEFINE h == [T \in SUBSET S |-> F(g, T)]
    <2>2. h \in [SUBSET S -> V]
      BY <1>1
    <2>3. ASSUME NEW T \in SUBSET S, Cardinality(T) <= n + 1 PROVE h[T] = F(h, T)
      <3>1. CASE T = {}
        BY <3>1
      <3>2. CASE T # {}
        <4> DEFINE U == T \ {choose[T]}
        <4>1. U \in SUBSET S /\ Cardinality(U) = Cardinality(T) - 1
          BY <1>2, <3>2, FS_RemoveElement DEF Chooses
        <4>2. Cardinality(U) <= n
          BY <1>2, <2>3, <4>1
        <4>3. g[U] = F(g, U)
          BY <2>1, <4>1, <4>2
        <4>4. h[U] = g[U]
          BY <4>1, <4>3
        <4>5. h[T] = F(g, T)
          OBVIOUS
        <4> HIDE DEF h
        <4> QED
          BY <3>2, <4>4, <4>5
      <3> QED
        BY <3>1, <3>2
    <2> HIDE DEF h, F
    <2> QED
      BY <2>2, <2>3
  <1>5. Nat \subseteq N
    <2> HIDE DEF N
    <2> QED
      BY <1>3, <1>4, NumberInduction
  <1>6. Cardinality(S) \in N
    BY <1>5, FS_CardinalityType
  <1>7. PICK g \in [SUBSET S -> V] :
            \A T \in SUBSET S : Cardinality(T) <= Cardinality(S) => g[T] = F(g, T)
    BY <1>6
  <1>8. \A T \in SUBSET S : Cardinality(T) <= Cardinality(S)
    BY FS_Subset
  <1> QED
    BY <1>7, <1>8 DEF Folds

\* Two functions agree on the empty set, and on T if they agree on T without the
\* member chosen from it.
AgreeAsFolds(g, h, S, choose) ==
    /\ g[{}] = h[{}]
    /\ \A T \in SUBSET S :
          T # {} /\ g[T \ {choose[T]}] = h[T \ {choose[T]}] => g[T] = h[T]

\* Then they agree on every subset of a finite set.
LEMMA FoldsAgree ==
    ASSUME NEW S, IsFiniteSet(S), NEW g, NEW h, NEW choose,
           Chooses(choose, S), AgreeAsFolds(g, h, S, choose)
    PROVE  \A T \in SUBSET S : g[T] = h[T]
  <1> DEFINE N == {n \in Nat :
                      \A T \in SUBSET S : Cardinality(T) = n => g[T] = h[T]}
  <1>1. \A T \in SUBSET S : IsFiniteSet(T) /\ Cardinality(T) \in Nat
    BY FS_Subset, FS_CardinalityType
  <1>2. 0 \in N
    BY <1>1, FS_EmptySet DEF AgreeAsFolds
  <1>3. ASSUME NEW n \in Nat, n \in N PROVE n + 1 \in N
    <2> SUFFICES ASSUME NEW T \in SUBSET S, Cardinality(T) = n + 1
                 PROVE  g[T] = h[T]
      OBVIOUS
    <2>1. T # {}
      <3>1. Cardinality({}) = 0 /\ Cardinality(T) # 0
        BY FS_EmptySet
      <3> HIDE DEF N
      <3> QED
        BY <3>1
    <2>2. Cardinality(T \ {choose[T]}) = Cardinality(T) - 1
      BY <1>1, <2>1, FS_RemoveElement DEF Chooses
    <2>3. Cardinality(T \ {choose[T]}) = n
      BY <2>2
    <2>4. g[T \ {choose[T]}] = h[T \ {choose[T]}]
      BY <1>3, <2>3
    <2> QED
      BY <2>1, <2>4 DEF AgreeAsFolds
  <1>4. Nat \subseteq N
    <2> HIDE DEF N
    <2> QED
      BY <1>2, <1>3, NumberInduction
  <1> QED
    BY <1>1, <1>4

-----------------------------------------------------------------------------
(* Orders.                                                                 *)

IsTotal(R, S) ==
    /\ \A x, y \in S : <<x, y>> \in R \/ <<y, x>> \in R
    /\ \A x, y, z \in S : <<x, y>> \in R /\ <<y, z>> \in R => <<x, z>> \in R

LEMMA GreatestExists ==
    ASSUME NEW S, IsFiniteSet(S), S # {}, NEW R, IsTotal(R, S)
    PROVE  \E m \in S : \A x \in S : <<x, m>> \in R
  <1> DEFINE P == {T \in SUBSET S :
                      T # {} => \E m \in T : \A x \in T : <<x, m>> \in R}
  <1>1. {} \in P
    OBVIOUS
  <1>2. ASSUME NEW T \in SUBSET S, NEW y \in S, T \in P, y \notin T
        PROVE  T \cup {y} \in P
    <2>0. <<y, y>> \in R
      BY DEF IsTotal
    <2>1. CASE T = {}
      BY <2>0, <2>1
    <2>2. CASE T # {}
      <3>1. PICK m \in T : \A x \in T : <<x, m>> \in R
        BY <1>2, <2>2
      <3>2. CASE <<y, m>> \in R
        BY <3>1, <3>2
      <3>3. CASE <<m, y>> \in R
        <4>1. \A x \in T : <<x, y>> \in R
          BY <3>1, <3>3 DEF IsTotal
        <4> QED
          BY <2>0, <4>1
      <3> QED
        BY <3>1, <3>2, <3>3 DEF IsTotal
    <2> QED
      BY <2>1, <2>2
  <1>3. S \in P
    <2> HIDE DEF P
    <2> QED
      BY <1>1, <1>2, SetInduction
  <1> QED
    BY <1>3

\* The members of a finite set in an order: every one occurs once.
LEMMA SeqOfSet ==
    ASSUME NEW S, IsFiniteSet(S), NEW seq \in SetToSeqs(S)
    PROVE  /\ seq \in Seq(S)
           /\ Len(seq) = Cardinality(S)
           /\ DOMAIN seq = 1..Cardinality(S)
           /\ \A i, j \in DOMAIN seq : seq[i] = seq[j] => i = j
           /\ \A x \in S : \E i \in DOMAIN seq : seq[i] = x
  <1> DEFINE n == Cardinality(S)
  <1>1. n \in Nat
    BY FS_CardinalityType
  <1>2. seq \in [1..n -> S] /\ \A i, j \in 1..n : seq[i] = seq[j] => i = j
    BY DEF SetToSeqs
  <1>3. IsFiniteSet(1..n) /\ Cardinality(1..n) = n
    BY <1>1, FS_Interval
  <1>4. seq \in Injection(1..n, S)
    BY <1>2 DEF Injection, IsInjective
  <1>5. seq \in Surjection(1..n, S)
    BY <1>3, <1>4, FS_Injection
  <1>6. \A x \in S : \E i \in 1..n : seq[i] = x
    BY <1>5 DEF Surjection
  <1>7. seq \in Seq(S) /\ Len(seq) = n /\ DOMAIN seq = 1..n
    BY <1>1, <1>2
  <1> QED
    BY <1>2, <1>6, <1>7

\* A finite set can be put in any total order.
LEMMA OrderExists ==
    ASSUME NEW S, IsFiniteSet(S), NEW R, IsTotal(R, S)
    PROVE  \E seq \in SetToSeqs(S) :
              \A i, j \in DOMAIN seq : i < j => <<seq[i], seq[j]>> \in R
  <1> DEFINE Ordered(T) == \E seq \in SetToSeqs(T) :
                 \A i, j \in 1..Cardinality(T) : i < j => <<seq[i], seq[j]>> \in R
             N == {n \in Nat :
                      \A T \in SUBSET S : Cardinality(T) = n => Ordered(T)}
  <1>1. \A T \in SUBSET S : IsFiniteSet(T) /\ Cardinality(T) \in Nat
    BY FS_Subset, FS_CardinalityType
  <1>2. 0 \in N
    <2> SUFFICES ASSUME NEW T \in SUBSET S, Cardinality(T) = 0 PROVE Ordered(T)
      OBVIOUS
    <2> DEFINE seq == [i \in 1..Cardinality(T) |-> i]
    <2>1. 1..Cardinality(T) = {}
      OBVIOUS
    <2>2. seq \in SetToSeqs(T)
      BY <2>1 DEF SetToSeqs
    <2> QED
      BY <2>1, <2>2
  <1>3. ASSUME NEW n \in Nat, n \in N PROVE n + 1 \in N
    <2> SUFFICES ASSUME NEW T \in SUBSET S, Cardinality(T) = n + 1
                 PROVE  Ordered(T)
      OBVIOUS
    <2>1. IsFiniteSet(T) /\ T # {}
      BY <1>1, FS_EmptySet
    <2>2. PICK m \in T : \A x \in T : <<x, m>> \in R
      BY <2>1, GreatestExists DEF IsTotal
    <2> DEFINE U == T \ {m}
    <2>3. Cardinality(U) = Cardinality(T) - 1
      BY <2>1, <2>2, FS_RemoveElement
    <2>4. Cardinality(U) = n /\ U \in SUBSET S
      BY <2>3
    <2>5. PICK short \in SetToSeqs(U) :
              \A i, j \in 1..n : i < j => <<short[i], short[j]>> \in R
      BY <1>3, <2>4
    <2>6. /\ short \in [1..n -> U]
          /\ \A i, j \in 1..n : i # j => short[i] # short[j]
      BY <2>4, <2>5 DEF SetToSeqs
    <2> DEFINE seq == [i \in 1..(n + 1) |-> IF i = n + 1 THEN m ELSE short[i]]
    <2>7. /\ seq \in [1..(n + 1) -> T]
          /\ \A i \in 1..n : seq[i] = short[i] /\ seq[i] \in U
          /\ seq[n + 1] = m
          /\ \A i \in 1..(n + 1) : i \in 1..n \/ i = n + 1
      BY <2>2, <2>6
    <2> HIDE DEF seq
    <2>8. ASSUME NEW i \in 1..(n + 1), NEW j \in 1..(n + 1), i # j
          PROVE  seq[i] # seq[j]
      BY <2>6, <2>7, <2>8
    <2>9. ASSUME NEW i \in 1..(n + 1), NEW j \in 1..(n + 1), i < j
          PROVE  <<seq[i], seq[j]>> \in R
      <3>1. i \in 1..n
        BY <2>9
      <3>2. CASE j = n + 1
        BY <2>2, <2>7, <3>1, <3>2
      <3>3. CASE j \in 1..n
        BY <2>5, <2>7, <2>9, <3>1, <3>3
      <3> QED
        BY <2>7, <3>2, <3>3
    <2>10. seq \in SetToSeqs(T)
      BY <2>7, <2>8 DEF SetToSeqs
    <2> QED
      BY <2>9, <2>10
  <1>4. Nat \subseteq N
    <2> HIDE DEF N
    <2> QED
      BY <1>2, <1>3, NumberInduction
  <1>5. Ordered(S)
    BY <1>1, <1>4
  <1>6. PICK seq \in SetToSeqs(S) :
            \A i, j \in 1..Cardinality(S) : i < j => <<seq[i], seq[j]>> \in R
    BY <1>5
  <1>7. DOMAIN seq = 1..Cardinality(S)
    BY SeqOfSet
  <1> QED
    BY <1>6, <1>7
=============================================================================
