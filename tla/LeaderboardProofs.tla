------------------------- MODULE LeaderboardProofs -------------------------
(* Proofs about Leaderboard, for every number of users and submissions and *)
(* every interleaving of the consumer, the recalculations and the freezes, *)
(* and about the requests of LeaderboardPages that run beside them.        *)
EXTENDS LeaderboardPages, ScoringProofs

----------------------------------------------------------------------------
(* Types of what the service computes.                                     *)

\* A zAdd, the recalculation and a freeze as TypeOK has them.
AddCommands ==
    [user: Users, score: Int, message: (Rated \X Verdicts) \cup {Nil}]

RecalcStates == [pc: {"idle", "select", "apply", "adding"},
                 user: Users \cup {Nil}, rows: Seq(Entries)]

AllStandings == [Users -> Int \cup {Nil}]

FreezeStates == [pc: {"idle", "check", "select", "commit", "unlink"},
                 standings: AllStandings \cup {Nil}]

LEMMA EntryTyped ==
    ASSUME NEW s \in Submissions, NEW v \in Verdicts \cup {"QUEUE"}
    PROVE  /\ Entry(s, LiveTime[s], v) \in Entries
           /\ Entry(s, RowTime[s], v) \in Entries
  BY DEF Entries

LEMMA EntryFields ==
    ASSUME NEW e \in Entries
    PROVE  /\ e.sub \in Submissions
           /\ e.time \in Nat
           /\ e.status \in Verdicts \cup {"QUEUE"}
           /\ e = Entry(e.sub, e.time, e.status)
  BY LeaderboardAssumption DEF Entries, Entry

LEMMA EntriesTimed == Timed(Entries)
  BY EntryFields DEF Timed

\* A user's hash field, written out.
LEMMA MetadataFields ==
    ASSUME NEW user \in UserContestMetadata
    PROVE  /\ user = [problems |-> user.problems, processed |-> user.processed]
           /\ DOMAIN user.problems = Problems
           /\ \A p \in Problems : user.problems[p] \in Seq(Entries)
           /\ user.processed \subseteq Submissions
  BY DEF UserContestMetadata

LEMMA NilIsNoMetadata == Nil \notin UserContestMetadata
  BY NilAssumption

LEMMA KnownTyped ==
    ASSUME NEW field \in UserContestMetadata \cup {Nil}
    PROVE  /\ Known(field) \in UserContestMetadata
           /\ field # Nil => Known(field) = field
  <1>1. NoSubmissions \in UserContestMetadata
    BY DEF NoSubmissions, UserContestMetadata
  <1> QED
    BY <1>1 DEF Known

\* The script appends to the list of one problem.
LEMMA AppendTyped ==
    ASSUME NEW user \in UserContestMetadata, NEW e \in Entries,
           NEW after, after = AppendEntry(user, e)
    PROVE  /\ after \in UserContestMetadata
           /\ after.processed = user.processed \cup {e.sub}
           /\ after.problems[ProblemOf[e.sub]] =
                 Append(user.problems[ProblemOf[e.sub]], e)
           /\ \A p \in Problems \ {ProblemOf[e.sub]} :
                 after.problems[p] = user.problems[p]
  <1> DEFINE p == ProblemOf[e.sub]
             lists == [user.problems EXCEPT ![p] = Append(@, e)]
             L == Seq(Entries)
  <1>1. e.sub \in Submissions /\ p \in Problems
    BY EntryFields, LeaderboardAssumption
  <1>2. user.problems \in [Problems -> L] /\ user.processed \subseteq Submissions
    BY DEF UserContestMetadata
  <1>3. Append(user.problems[p], e) \in L
    BY <1>1, <1>2
  <1>4. after = [problems |-> lists, processed |-> user.processed \cup {e.sub}]
    BY DEF AppendEntry
  <1> HIDE DEF L, p
  <1>5. /\ lists \in [Problems -> L]
        /\ lists[p] = Append(user.problems[p], e)
        /\ \A q \in Problems \ {p} : lists[q] = user.problems[q]
    BY <1>1, <1>2, <1>3
  <1> HIDE DEF lists
  <1>6. after \in UserContestMetadata
    BY <1>1, <1>2, <1>4, <1>5 DEF UserContestMetadata, L
  <1> QED
    BY <1>4, <1>5, <1>6 DEF p

LEMMA UpdateTyped ==
    ASSUME NEW field \in UserContestMetadata \cup {Nil}, NEW e \in Entries
    PROVE  UpdateUserState(field, e) \in UserContestMetadata
  <1>1. Known(field) \in UserContestMetadata /\ (field # Nil => Known(field) = field)
    BY KnownTyped
  <1>2. AppendEntry(Known(field), e) \in UserContestMetadata
    BY <1>1, AppendTyped
  <1>3. field = Nil => Known(field).processed = {}
    BY DEF Known, NoSubmissions
  <1> QED
    BY <1>1, <1>2, <1>3 DEF UpdateUserState

LEMMA ScoreInt ==
    ASSUME NEW user \in UserContestMetadata
    PROVE  Score(user) \in Int
  <1>1. IsFiniteSet(DOMAIN user.problems)
        /\ \A p \in DOMAIN user.problems : user.problems[p] \in Seq(Entries)
    BY MetadataFields, LeaderboardAssumption
  <1> QED
    BY <1>1, EntriesTimed, ScoreTyped DEF Score

\* The rows of a set of submissions in the order of creation.
LEMMA RowsListed ==
    ASSUME NEW rows \in SUBSET Submissions, DOMAIN status = Submissions,
           \A s \in Submissions : status[s] \in Verdicts \cup {"QUEUE"},
           NEW list, list = AsCreated(rows)
    PROVE  /\ list \in Seq(Entries)
           /\ \A i \in DOMAIN list :
                 /\ list[i].sub \in rows
                 /\ list[i] = Entry(list[i].sub, RowTime[list[i].sub],
                                    status[list[i].sub])
           /\ \A i, j \in DOMAIN list : list[i].sub = list[j].sub => i = j
           /\ \A s \in rows : \E i \in DOMAIN list : list[i].sub = s
           /\ \A i, j \in DOMAIN list : i < j => list[i].sub < list[j].sub
  <1> DEFINE ids == CreationOrder(rows)
             Ordered(seq) == \A i, j \in DOMAIN seq : i < j => seq[i] < seq[j]
             Order == {ij \in rows \X rows : ij[1] = ij[2] \/ ij[1] < ij[2]}
  <1>1. IsFiniteSet(rows) /\ \A s \in rows : s \in Nat
    BY LeaderboardAssumption, FS_Subset
  <1>2. \A i, j \in rows : <<i, j>> \in Order <=> i = j \/ i < j
    OBVIOUS
  <1>3. IsTotal(Order, rows)
    <2> HIDE DEF Order
    <2> QED
      BY <1>1, <1>2 DEF IsTotal
  <1>4. PICK seq \in SetToSeqs(rows) :
            \A i, j \in DOMAIN seq : i < j => <<seq[i], seq[j]>> \in Order
    BY <1>1, <1>3, OrderExists
  <1>5. /\ seq \in Seq(rows)
        /\ \A i, j \in DOMAIN seq : seq[i] = seq[j] => i = j
    BY <1>1, SeqOfSet
  <1>6. Ordered(seq)
    <2> SUFFICES ASSUME NEW i \in DOMAIN seq, NEW j \in DOMAIN seq, i < j
                 PROVE  seq[i] < seq[j]
      OBVIOUS
    <2>1. <<seq[i], seq[j]>> \in Order /\ seq[i] \in rows /\ seq[j] \in rows
      BY <1>4, <1>5
    <2>2. i # j
      BY <1>5
    <2> HIDE DEF Order
    <2> QED
      BY <1>2, <1>5, <2>1, <2>2
  <1>7. ids \in SetToSeqs(rows) /\ Ordered(ids)
    BY <1>6 DEF CreationOrder, InOrder
  <1> HIDE DEF ids
  <1>8. /\ ids \in Seq(rows)
        /\ \A i, j \in DOMAIN ids : ids[i] = ids[j] => i = j
        /\ \A s \in rows : \E i \in DOMAIN ids : ids[i] = s
    BY <1>1, <1>7, SeqOfSet
  <1>9. /\ DOMAIN list = DOMAIN ids
        /\ \A i \in DOMAIN ids :
              list[i] = Entry(ids[i], RowTime[ids[i]], status[ids[i]])
        /\ list = [i \in DOMAIN list |-> list[i]]
    BY DEF AsCreated, ids
  <1>10. \A i \in DOMAIN ids : ids[i] \in rows /\ ids[i] \in Submissions
    BY <1>8
  <1>11. \A i \in DOMAIN ids : list[i].sub = ids[i] /\ list[i] \in Entries
    <2> SUFFICES ASSUME NEW i \in DOMAIN ids
                 PROVE  list[i].sub = ids[i] /\ list[i] \in Entries
      OBVIOUS
    <2>1. list[i] = Entry(ids[i], RowTime[ids[i]], status[ids[i]])
      BY <1>9
    <2>2. list[i] \in Entries
      BY <1>10, <2>1, EntryTyped
    <2> QED
      BY <2>1, <2>2 DEF Entry
  <1>12. Len(ids) \in Nat /\ DOMAIN ids = 1..Len(ids)
    BY <1>8
  <1>13. list \in Seq(Entries)
    BY <1>9, <1>11, <1>12
  <1>14. \A i, j \in DOMAIN list : i < j => list[i].sub < list[j].sub
    BY <1>7, <1>9, <1>11
  <1> QED
    BY <1>8, <1>9, <1>10, <1>11, <1>13, <1>14

LEMMA RowsTyped ==
    ASSUME NEW rows \in SUBSET Submissions, DOMAIN status = Submissions,
           \A s \in Submissions : status[s] \in Verdicts \cup {"QUEUE"}
    PROVE  AsCreated(rows) \in Seq(Entries)
  BY RowsListed


LEMMA StandingsTyped ==
    ASSUME DOMAIN status = Submissions,
           \A s \in Submissions : status[s] \in Verdicts \cup {"QUEUE"}
    PROVE  /\ Standings \in AllStandings
           /\ \A u \in Users : Standings[u] = Nil <=> RatedRows(u) = {}
  <1>1. ASSUME NEW u \in Users
        PROVE  computeUserScores(RowsByProblem(u)).score \in Int
    <2> DEFINE rows == RowsByProblem(u)
    <2>1. /\ DOMAIN rows = Problems
          /\ \A p \in Problems :
                rows[p] = AsCreated({s \in RatedRows(u) : ProblemOf[s] = p})
      BY DEF RowsByProblem
    <2>2. \A p \in Problems :
             {s \in RatedRows(u) : ProblemOf[s] = p} \in SUBSET Submissions
      BY LeaderboardAssumption DEF RatedRows
    <2>3. \A p \in DOMAIN rows : rows[p] \in Seq(Entries)
      BY <2>1, <2>2, RowsTyped
    <2>4. IsFiniteSet(DOMAIN rows)
      BY <2>1, LeaderboardAssumption
    <2> HIDE DEF rows
    <2> QED
      BY <2>3, <2>4, EntriesTimed, ScoreTyped DEF rows
  <1> DEFINE score(u) == computeUserScores(RowsByProblem(u)).score
  <1>2. \A u \in Users : score(u) \in Int
    BY <1>1
  <1>3. Standings = [u \in Users |-> IF RatedRows(u) = {} THEN Nil ELSE score(u)]
    BY DEF Standings
  <1> HIDE DEF score
  <1> QED
    BY <1>2, <1>3, LeaderboardAssumption DEF AllStandings

\* The standings are a function of the status column.
LEMMA StandingsOfStatus == status' = status => Standings' = Standings
  BY DEF Standings, RowsByProblem, RatedRows, AsCreated

----------------------------------------------------------------------------
(* Types and pending commands.                                             *)

\* A pending zAdd belongs to a delivered message, or to the recalculation.
AddOf(add) ==
    \/ /\ add.message # Nil
       /\ add.message \in unacked \ handled
       /\ add.user = UserOf[add.message[1]]
    \/ /\ add.message = Nil
       /\ recalc.pc = "adding"

AddsOK ==
    /\ adds \in Seq(AddCommands)
    /\ \A i \in DOMAIN adds : AddOf(adds[i])
    /\ \A i, j \in DOMAIN adds : adds[i].message = adds[j].message => i = j

PostgresOK ==
    /\ status \in [Submissions -> Verdicts \cup {"QUEUE"}]
    /\ ended \in BOOLEAN /\ frozen \in BOOLEAN
    /\ results \in AllStandings

RabbitOK ==
    /\ queue \subseteq Rated \X Verdicts
    /\ unacked \subseteq Rated \X Verdicts
    /\ handled \subseteq unacked

RedisOK ==
    /\ metadata \in [Users -> UserContestMetadata \cup {Nil}]
    /\ board \in [Users -> Int \cup {Nil}]

RecalcOK ==
    /\ recalc \in RecalcStates
    /\ "user" \notin Admin => recalc = NoRecalc

\* What a freeze is about to write are standings.
FreezeOK ==
    /\ freeze \in [Freezers -> FreezeStates]
    /\ \A f \in Freezers :
          freeze[f].pc = "commit" => freeze[f].standings \in AllStandings

TypeInv == PostgresOK /\ RabbitOK /\ RedisOK /\ AddsOK /\ RecalcOK /\ FreezeOK

LEMMA TypeInvImpliesTypeOK == TypeInv => TypeOK
  <1> SUFFICES ASSUME TypeInv PROVE TypeOK
    OBVIOUS
  <1> DEFINE Allowed == [user: Users, score: Int, message: unacked \cup {Nil}]
  <1>1. adds \in Seq(AddCommands) /\ \A i \in DOMAIN adds : AddOf(adds[i])
    BY DEF TypeInv, AddsOK
  <1>2. \A i \in DOMAIN adds : adds[i] \in AddCommands
    BY <1>1
  <1>3. \A i \in DOMAIN adds : adds[i].message \in unacked \cup {Nil}
    BY <1>1 DEF AddOf
  <1>4. \A i \in DOMAIN adds : adds[i] \in Allowed
    BY <1>2, <1>3 DEF AddCommands
  <1> HIDE DEF Allowed
  <1>5. Len(adds) \in Nat /\ DOMAIN adds = 1..Len(adds)
        /\ adds = [i \in 1..Len(adds) |-> adds[i]]
    BY <1>1
  <1>6. adds \in Seq(Allowed)
    BY <1>4, <1>5
  <1> QED
    BY <1>6 DEF TypeInv, PostgresOK, RabbitOK, RedisOK, RecalcOK, FreezeOK, Allowed,
       TypeOK, AllStandings, RecalcStates, FreezeStates

LEMMA TypeInit == Init => TypeInv
  <1> SUFFICES ASSUME Init PROVE TypeInv
    OBVIOUS
  <1>1. PostgresOK /\ RabbitOK /\ RedisOK
    BY DEF Init, PostgresOK, RabbitOK, RedisOK, AllStandings
  <1>2. adds \in Seq(AddCommands) /\ DOMAIN adds = {}
    BY DEF Init
  <1>3. AddsOK
    BY <1>2 DEF AddsOK
  <1>4. RecalcOK
    BY DEF Init, RecalcOK, NoRecalc, RecalcStates
  <1>5. FreezeOK
    BY DEF Init, FreezeOK, NoFreeze, FreezeStates
  <1> QED
    BY <1>1, <1>3, <1>4, <1>5 DEF TypeInv

\* A step of a freeze from pc to pc.
LEMMA SetFreezeSets ==
    ASSUME FreezeOK, NEW f \in Freezers,
           NEW pc \in {"idle", "check", "select", "unlink"}, SetFreeze(f, pc)
    PROVE  /\ FreezeOK'
           /\ freeze'[f].pc = pc
           /\ freeze'[f].standings = freeze[f].standings
           /\ \A g \in Freezers \ {f} : freeze'[g] = freeze[g]
  <1> DEFINE r == [freeze[f] EXCEPT !.pc = pc]
  <1>1. freeze[f] = [pc |-> freeze[f].pc, standings |-> freeze[f].standings]
        /\ freeze[f].standings \in AllStandings \cup {Nil}
    BY DEF FreezeOK, FreezeStates
  <1>2. r = [pc |-> pc, standings |-> freeze[f].standings]
    BY <1>1
  <1>3. r \in FreezeStates /\ r.pc = pc /\ r.standings = freeze[f].standings
    BY <1>1, <1>2 DEF FreezeStates
  <1>4. freeze' = [freeze EXCEPT ![f] = r]
    BY DEF SetFreeze
  <1> HIDE DEF r
  <1>5. /\ freeze' \in [Freezers -> FreezeStates]
        /\ freeze'[f] = r
        /\ \A g \in Freezers \ {f} : freeze'[g] = freeze[g]
    BY <1>3, <1>4 DEF FreezeOK
  <1> QED
    BY <1>3, <1>5 DEF FreezeOK

\* A freeze that selected, or that ended.
LEMMA FreezeBecomes ==
    ASSUME FreezeOK, NEW f \in Freezers, NEW r \in FreezeStates,
           r.pc = "commit" => r.standings \in AllStandings,
           freeze' = [freeze EXCEPT ![f] = r]
    PROVE  /\ FreezeOK'
           /\ freeze'[f] = r
           /\ \A g \in Freezers \ {f} : freeze'[g] = freeze[g]
  BY DEF FreezeOK

LEMMA NoFreezeTyped == NoFreeze \in FreezeStates /\ NoFreeze.pc = "idle"
  BY DEF NoFreeze, FreezeStates

\* Of the messages, AddsOK sees only which have a zAdd owed.
LEMMA AddsKept ==
    ASSUME AddsOK, adds' = adds, recalc.pc = "adding" => recalc'.pc = "adding",
           unacked \ handled \subseteq (unacked \ handled)'
    PROVE  AddsOK'
  BY DEF AddsOK, AddOf

\* The script runs for one submission, and its zAdd joins the pending ones.
VerdictDone(e, message, after, add) ==
    /\ after = UpdateUserState(metadata[UserOf[e.sub]], e)
    /\ add = [user |-> UserOf[e.sub], score |-> Score(after), message |-> message]
    /\ after \in UserContestMetadata
    /\ UserOf[e.sub] \in Users
    /\ add \in AddCommands
    /\ add.user = UserOf[e.sub] /\ add.score = Score(after) /\ add.message = message
    /\ adds' \in Seq(AddCommands)
    /\ Len(adds) \in Nat
    /\ DOMAIN adds = 1..Len(adds)
    /\ DOMAIN adds' = 1..(Len(adds) + 1)
    /\ adds'[Len(adds) + 1] = add
    /\ \A i \in DOMAIN adds : adds'[i] = adds[i]
    /\ metadata'[UserOf[e.sub]] = after
    /\ \A u \in Users \ {UserOf[e.sub]} : metadata'[u] = metadata[u]
    /\ board' = board
    /\ RedisOK'

LEMMA VerdictSteps ==
    ASSUME TypeInv, NEW e \in Entries, NEW message \in (Rated \X Verdicts) \cup {Nil},
           ProcessLiveVerdict(e, message)
    PROVE  \E after, add : VerdictDone(e, message, after, add)
  <1> DEFINE x == UserOf[e.sub]
             after == UpdateUserState(metadata[x], e)
             add == [user |-> x, score |-> Score(after), message |-> message]
  <1>1. /\ metadata' = [metadata EXCEPT ![x] = after]
        /\ adds' = Append(adds, add)
        /\ board' = board
    BY DEF ProcessLiveVerdict
  <1>2. x \in Users
    BY EntryFields, LeaderboardAssumption
  <1>3. after \in UserContestMetadata
    BY <1>2, UpdateTyped DEF TypeInv, RedisOK
  <1>4. add \in AddCommands
        /\ add.user = x /\ add.score = Score(after) /\ add.message = message
    <2>1. Score(after) \in Int
      BY <1>3, ScoreInt
    <2> HIDE DEF after, x
    <2> QED
      BY <1>2, <2>1 DEF AddCommands
  <1>5. adds \in Seq(AddCommands)
    BY DEF TypeInv, AddsOK
  <1> HIDE DEF after
  <1>6. \E r : add = r
    OBVIOUS
  <1>7. add = [user |-> x, score |-> Score(after), message |-> message]
    OBVIOUS
  <1> HIDE DEF add
  <1>8. /\ adds' \in Seq(AddCommands)
        /\ Len(adds) \in Nat
        /\ DOMAIN adds = 1..Len(adds)
        /\ DOMAIN adds' = 1..(Len(adds) + 1)
        /\ adds'[Len(adds) + 1] = add
        /\ \A i \in DOMAIN adds : adds'[i] = adds[i]
    BY <1>1, <1>4, <1>5
  <1>9. /\ metadata'[x] = after
        /\ \A u \in Users \ {x} : metadata'[u] = metadata[u]
        /\ metadata' \in [Users -> UserContestMetadata \cup {Nil}]
    BY <1>1, <1>2, <1>3 DEF TypeInv, RedisOK
  <1>10. RedisOK'
    BY <1>1, <1>9 DEF TypeInv, RedisOK
  <1>11. after = UpdateUserState(metadata[x], e)
    BY DEF after
  <1> HIDE DEF x
  <1>12. VerdictDone(e, message, after, add)
    BY <1>1, <1>2, <1>3, <1>4, <1>7, <1>8, <1>9, <1>10, <1>11 DEF VerdictDone, x
  <1> QED
    BY <1>12

\* The zAdd of a message or a recalculation that has none pending.
LEMMA NewAdd ==
    ASSUME TypeInv, NEW e \in Entries,
           NEW message \in (Rated \X Verdicts) \cup {Nil},
           ProcessLiveVerdict(e, message),
           \A i \in DOMAIN adds : adds[i].message # message,
           unacked \ handled \subseteq (unacked \ handled)',
           recalc.pc = "adding" => recalc'.pc = "adding",
           \/ message # Nil /\ message \in (unacked \ handled)'
              /\ UserOf[e.sub] = UserOf[message[1]]
           \/ message = Nil /\ recalc'.pc = "adding"
    PROVE  AddsOK' /\ RedisOK'
  <1>1. PICK after, add : VerdictDone(e, message, after, add)
    BY VerdictSteps
  <1>2. /\ add.user = UserOf[e.sub] /\ add.message = message
        /\ adds' \in Seq(AddCommands)
        /\ DOMAIN adds' = 1..(Len(adds) + 1)
        /\ adds'[Len(adds) + 1] = add
        /\ DOMAIN adds = 1..Len(adds)
        /\ Len(adds) \in Nat
        /\ \A i \in DOMAIN adds : adds'[i] = adds[i]
    BY <1>1 DEF VerdictDone
  <1>3. ASSUME NEW i \in DOMAIN adds PROVE AddOf(adds[i])'
    <2>1. AddOf(adds[i])
      BY DEF TypeInv, AddsOK
    <2> QED
      BY <1>2, <2>1 DEF AddOf
  <1>4. \A i \in DOMAIN adds' : i \in DOMAIN adds \/ i = Len(adds) + 1
    BY <1>2
  <1>5. ASSUME NEW i \in DOMAIN adds', i = Len(adds) + 1 PROVE AddOf(adds[i])'
    <2>1. adds'[i].message = message /\ adds'[i].user = UserOf[e.sub]
      BY <1>2, <1>5
    <2>2. CASE message # Nil
      BY <2>1, <2>2 DEF AddOf
    <2>3. CASE message = Nil
      BY <2>1, <2>3 DEF AddOf
    <2> QED
      BY <2>2, <2>3
  <1>6. ASSUME NEW i \in DOMAIN adds', NEW j \in DOMAIN adds',
               adds'[i].message = adds'[j].message
        PROVE  i = j
    <2>1. \A k, l \in DOMAIN adds : adds[k].message = adds[l].message => k = l
      BY DEF TypeInv, AddsOK
    <2> QED
      BY <1>2, <1>4, <1>6, <2>1
  <1>7. RedisOK'
    BY <1>1 DEF VerdictDone
  <1> QED
    BY <1>2, <1>3, <1>4, <1>5, <1>6, <1>7 DEF AddsOK

LEMMA ConsumeTyped ==
    ASSUME TypeInv, NEW m, ConsumeVerdict(m)
    PROVE  TypeInv'
  <1> DEFINE e == Entry(m[1], LiveTime[m[1]], m[2])
  <1>1. /\ ProcessLiveVerdict(e, m)
        /\ queue' = queue \ {m} /\ unacked' = unacked \cup {m}
        /\ m \in queue /\ m \notin unacked
        /\ UNCHANGED <<handled, recalc, freeze, postgres>>
    BY DEF ConsumeVerdict
  <1>2. m \in Rated \X Verdicts
    BY <1>1 DEF TypeInv, RabbitOK
  <1>3. e.sub = m[1] /\ e \in Entries
    BY <1>2, EntryTyped, LeaderboardAssumption DEF Entry
  <1> HIDE DEF e
  <1>4. m # Nil
    BY <1>2, LeaderboardAssumption
  <1>5. m \notin handled
    BY <1>1 DEF TypeInv, RabbitOK
  <1>6. \A i \in DOMAIN adds : adds[i].message # m
    BY <1>1, <1>4 DEF TypeInv, AddsOK, AddOf
  <1>7. AddsOK' /\ RedisOK'
    BY <1>1, <1>2, <1>3, <1>4, <1>5, <1>6, NewAdd
  <1>8. RabbitOK'
    BY <1>1, <1>2 DEF TypeInv, RabbitOK
  <1>9. PostgresOK' /\ RecalcOK' /\ FreezeOK'
    BY <1>1 DEF TypeInv, PostgresOK, RecalcOK, FreezeOK, postgres
  <1> QED
    BY <1>7, <1>8, <1>9 DEF TypeInv

\* The oldest pending zAdd.
LEMMA AddTyped ==
    ASSUME TypeInv, AddScore
    PROVE  /\ Len(adds) \in Nat \ {0} /\ DOMAIN adds = 1..Len(adds)
           /\ adds' \in Seq(AddCommands) /\ DOMAIN adds' = 1..(Len(adds) - 1)
           /\ \A i \in 1..(Len(adds) - 1) : adds'[i] = adds[i + 1]
           /\ adds[1] \in AddCommands /\ AddOf(adds[1])
           /\ board' = [board EXCEPT ![adds[1].user] = adds[1].score]
           /\ IF adds[1].message # Nil
              THEN handled' = handled \cup {adds[1].message} /\ UNCHANGED recalc
              ELSE recalc' = [recalc EXCEPT !.pc = "apply"] /\ UNCHANGED handled
           /\ UNCHANGED <<queue, unacked, metadata, freeze, postgres>>
  <1>1. adds \in Seq(AddCommands) /\ \A i \in DOMAIN adds : AddOf(adds[i])
    BY DEF TypeInv, AddsOK
  <1>2. /\ Len(adds) \in Nat \ {0} /\ DOMAIN adds = 1..Len(adds)
        /\ adds' \in Seq(AddCommands) /\ DOMAIN adds' = 1..(Len(adds) - 1)
        /\ \A i \in 1..(Len(adds) - 1) : adds'[i] = adds[i + 1]
        /\ Head(adds) = adds[1]
    BY <1>1 DEF AddScore
  <1>3. adds[1] \in AddCommands /\ AddOf(adds[1])
    BY <1>1, <1>2
  <1>4. /\ board' = [board EXCEPT ![adds[1].user] = adds[1].score]
        /\ IF adds[1].message # Nil
           THEN handled' = handled \cup {adds[1].message} /\ UNCHANGED recalc
           ELSE recalc' = [recalc EXCEPT !.pc = "apply"] /\ UNCHANGED handled
        /\ UNCHANGED <<queue, unacked, metadata, freeze, postgres>>
    BY <1>2 DEF AddScore, rabbit
  <1> QED
    BY <1>2, <1>3, <1>4

LEMMA AddKeepsTypes ==
    ASSUME TypeInv, AddScore
    PROVE  TypeInv'
  <1> DEFINE add == adds[1]
             n == Len(adds)
  <1>1. /\ n \in Nat \ {0} /\ DOMAIN adds = 1..n
        /\ adds' \in Seq(AddCommands) /\ DOMAIN adds' = 1..(n - 1)
        /\ \A i \in 1..(n - 1) : adds'[i] = adds[i + 1]
        /\ add \in AddCommands /\ AddOf(add)
        /\ board' = [board EXCEPT ![add.user] = add.score]
        /\ IF add.message # Nil
           THEN handled' = handled \cup {add.message} /\ UNCHANGED recalc
           ELSE recalc' = [recalc EXCEPT !.pc = "apply"] /\ UNCHANGED handled
        /\ UNCHANGED <<queue, unacked, metadata, freeze, postgres>>
    BY AddTyped
  <1>2. 1 \in DOMAIN adds /\ \A i \in DOMAIN adds' : i + 1 \in DOMAIN adds /\ i + 1 # 1
    BY <1>1
  <1>3. \A k, l \in DOMAIN adds : adds[k].message = adds[l].message => k = l
    BY DEF TypeInv, AddsOK
  <1>4. \A i \in DOMAIN adds' : adds'[i].message # add.message /\ AddOf(adds'[i])
    <2>1. \A i \in DOMAIN adds : AddOf(adds[i])
      BY DEF TypeInv, AddsOK
    <2> QED
      BY <1>1, <1>2, <1>3, <2>1
  <1>5. ASSUME NEW i \in DOMAIN adds', NEW j \in DOMAIN adds',
               adds'[i].message = adds'[j].message
        PROVE  i = j
    <2>1. i + 1 = j + 1
      BY <1>1, <1>2, <1>3, <1>5
    <2> QED
      BY <1>1, <2>1
  <1> HIDE DEF n, add
  <1>6. ASSUME NEW i \in DOMAIN adds' PROVE AddOf(adds[i])'
    <2>1. CASE add.message # Nil
      BY <1>1, <1>4, <2>1 DEF AddOf
    <2>2. CASE add.message = Nil
      BY <1>1, <1>4, <2>2 DEF AddOf
    <2> QED
      BY <2>1, <2>2
  <1>7. AddsOK'
    BY <1>1, <1>5, <1>6 DEF AddsOK
  <1>8. RabbitOK'
    BY <1>1 DEF TypeInv, RabbitOK, AddOf
  <1>9. RedisOK'
    BY <1>1 DEF TypeInv, RedisOK, AddCommands
  <1>10. RecalcOK'
    <2>1. CASE add.message # Nil
      BY <1>1, <2>1 DEF TypeInv, RecalcOK
    <2>2. CASE add.message = Nil
      <3>1. recalc.pc = "adding"
        BY <1>1, <2>2 DEF AddOf
      <3>2. "user" \in Admin
        BY <3>1 DEF TypeInv, RecalcOK, NoRecalc
      <3>3. recalc' = [recalc EXCEPT !.pc = "apply"] /\ recalc \in RecalcStates
        BY <1>1, <2>2 DEF TypeInv, RecalcOK
      <3>4. recalc' \in RecalcStates
        BY <3>3 DEF RecalcStates
      <3> QED
        BY <3>2, <3>4 DEF RecalcOK
    <2> QED
      BY <2>1, <2>2
  <1>11. PostgresOK' /\ FreezeOK'
    BY <1>1 DEF TypeInv, PostgresOK, FreezeOK, postgres
  <1> QED
    BY <1>7, <1>8, <1>9, <1>10, <1>11 DEF TypeInv

\* What does not touch a delivered message or a pending zAdd.
LEMMA OthersKeepTypes ==
    ASSUME TypeInv, UNCHANGED <<unacked, handled, adds, recalc>>,
           PostgresOK', queue' \subseteq Rated \X Verdicts, RedisOK', FreezeOK'
    PROVE  TypeInv'
  <1>1. AddsOK'
    BY AddsKept DEF TypeInv
  <1> QED
    BY <1>1 DEF TypeInv, RabbitOK, RecalcOK

LEMMA ReportTyped ==
    ASSUME TypeInv, NEW s \in Submissions, Judge(s) \/ Rejudge(s)
    PROVE  TypeInv'
  <1>1. PICK v \in Verdicts : Report(s, v)
    BY DEF Judge, Rejudge
  <1>2. /\ status' = [status EXCEPT ![s] = v]
        /\ queue' \subseteq Rated \X Verdicts
        /\ UNCHANGED <<ended, frozen, results, unacked, metadata, board, adds,
                       handled, recalc, freeze>>
    BY <1>1 DEF Report, redis, process, TypeInv, RabbitOK
  <1>3. PostgresOK'
    BY <1>2 DEF TypeInv, PostgresOK
  <1>4. RedisOK' /\ FreezeOK'
    BY <1>2 DEF TypeInv, RedisOK, FreezeOK
  <1> QED
    BY <1>2, <1>3, <1>4, OthersKeepTypes

LEMMA AckTyped ==
    ASSUME TypeInv, NEW m, AckVerdict(m)
    PROVE  TypeInv'
  <1>1. /\ handled' = handled \ {m} /\ unacked' = unacked \ {m} /\ m \in handled
        /\ UNCHANGED <<postgres, queue, metadata, board, adds, recalc, freeze>>
    BY DEF AckVerdict, redis
  <1>2. AddsOK'
    BY <1>1, AddsKept DEF TypeInv
  <1> QED
    BY <1>1, <1>2
       DEF TypeInv, PostgresOK, postgres, RabbitOK, RedisOK, RecalcOK, FreezeOK

LEMMA RecalcTyped ==
    ASSUME TypeInv, Recalculate
    PROVE  TypeInv'
  <1>1. ASSUME NEW u \in Users, RecalcStart(u) PROVE TypeInv'
    <2>1. /\ metadata' = [metadata EXCEPT ![u] = Nil]
          /\ recalc' = [pc |-> "select", user |-> u, rows |-> <<>>]
          /\ "user" \in Admin /\ recalc.pc = "idle"
          /\ UNCHANGED <<postgres, queue, unacked, board, adds, handled, freeze>>
      BY <1>1 DEF RecalcStart, rabbit
    <2>2. AddsOK'
      BY <2>1, AddsKept DEF TypeInv
    <2>3. RecalcOK'
      BY <2>1 DEF RecalcOK, RecalcStates
    <2>4. RedisOK'
      BY <2>1 DEF TypeInv, RedisOK
    <2> QED
      BY <2>1, <2>2, <2>3, <2>4
         DEF TypeInv, PostgresOK, postgres, RabbitOK, FreezeOK
  <1>2. CASE RecalcSelect
    <2> DEFINE rows == AsCreated(RatedRows(recalc.user))
    <2>1. /\ recalc' = [recalc EXCEPT !.pc = "apply", !.rows = rows]
          /\ recalc.pc = "select"
          /\ UNCHANGED <<postgres, queue, unacked, metadata, board, adds, handled,
                         freeze>>
      BY <1>2 DEF RecalcSelect, rabbit, redis
    <2>2. rows \in Seq(Entries)
      <3>1. RatedRows(recalc.user) \in SUBSET Submissions
        BY LeaderboardAssumption DEF RatedRows
      <3> QED
        BY <3>1, RowsTyped DEF TypeInv, PostgresOK
    <2> HIDE DEF rows
    <2>3. "user" \in Admin /\ recalc \in RecalcStates
      BY <2>1 DEF TypeInv, RecalcOK, NoRecalc
    <2>4. recalc' \in RecalcStates
      BY <2>1, <2>2, <2>3 DEF RecalcStates
    <2>5. AddsOK'
      BY <2>1, AddsKept DEF TypeInv
    <2> QED
      BY <2>1, <2>3, <2>4, <2>5
         DEF TypeInv, PostgresOK, postgres, RabbitOK, RedisOK, FreezeOK, RecalcOK
  <1>3. CASE RecalcApply
    <2> DEFINE e == Head(recalc.rows)
    <2>1. /\ recalc' = [recalc EXCEPT !.pc = "adding", !.rows = Tail(@)]
          /\ recalc.pc = "apply" /\ recalc.rows # <<>>
          /\ ProcessLiveVerdict(e, Nil)
          /\ UNCHANGED <<postgres, queue, unacked, handled, freeze>>
      BY <1>3 DEF RecalcApply, rabbit
    <2>2. "user" \in Admin /\ recalc \in RecalcStates
      BY <2>1 DEF TypeInv, RecalcOK, NoRecalc
    <2>3. recalc.rows \in Seq(Entries)
      BY <2>2 DEF RecalcStates
    <2>4. e \in Entries /\ Tail(recalc.rows) \in Seq(Entries)
      BY <2>1, <2>3
    <2>5. recalc' \in RecalcStates /\ recalc'.pc = "adding"
      BY <2>1, <2>2, <2>4 DEF RecalcStates
    <2> HIDE DEF e
    <2>6. \A i \in DOMAIN adds : adds[i].message # Nil
      BY <2>1 DEF TypeInv, AddsOK, AddOf
    <2>7. AddsOK' /\ RedisOK'
      BY <2>1, <2>4, <2>5, <2>6, NewAdd
    <2> QED
      BY <2>1, <2>2, <2>5, <2>7
         DEF TypeInv, PostgresOK, postgres, RabbitOK, FreezeOK, RecalcOK
  <1>4. CASE RecalcDone
    <2>1. /\ recalc' = NoRecalc /\ recalc.pc = "apply"
          /\ UNCHANGED <<postgres, queue, unacked, metadata, board, adds, handled,
                         freeze>>
      BY <1>4 DEF RecalcDone, rabbit, redis
    <2>2. AddsOK'
      BY <2>1, AddsKept DEF TypeInv
    <2>3. RecalcOK'
      BY <2>1 DEF RecalcOK, NoRecalc, RecalcStates
    <2> QED
      BY <2>1, <2>2, <2>3 DEF TypeInv, PostgresOK, postgres, RabbitOK, RedisOK, FreezeOK
  <1> QED
    BY <1>1, <1>2, <1>3, <1>4 DEF Recalculate

LEMMA FreezeTyped ==
    ASSUME TypeInv,
           \/ \E f \in TaskRuns : TaskFind(f) \/ TaskCheckPending(f)
           \/ ForceRecalculateContest
           \/ \E f \in Freezers : Freeze(f)
    PROVE  TypeInv'
  <1>1. FreezeOK /\ TaskRuns \subseteq Freezers /\ "route" \in Freezers
    BY DEF TypeInv, Freezers
  <1>2. CASE \/ \E f \in TaskRuns : TaskFind(f) \/ TaskCheckPending(f)
             \/ ForceRecalculateContest
    <2>1. \E f \in Freezers, pc \in {"idle", "check", "select", "unlink"} :
             SetFreeze(f, pc)
      BY <1>1, <1>2 DEF TaskFind, TaskCheckPending, ForceRecalculateContest
    <2>2. FreezeOK'
      BY <1>1, <2>1, SetFreezeSets
    <2>3. UNCHANGED <<postgres, queue, unacked, handled, adds, recalc, metadata, board>>
      BY <1>2 DEF TaskFind, TaskCheckPending, ForceRecalculateContest, rabbit, redis
    <2> QED
      BY <2>2, <2>3, OthersKeepTypes
         DEF TypeInv, PostgresOK, postgres, RabbitOK, RedisOK
  <1>3. ASSUME NEW f \in Freezers, FreezeSelect(f) PROVE TypeInv'
    <2> DEFINE r == [pc |-> "commit", standings |-> Standings]
    <2>1. /\ freeze' = [freeze EXCEPT ![f] = r]
          /\ UNCHANGED <<postgres, queue, unacked, handled, adds, recalc, metadata,
                         board>>
      BY <1>3 DEF FreezeSelect, rabbit, redis
    <2>2. Standings \in AllStandings
      BY StandingsTyped DEF TypeInv, PostgresOK
    <2>3. r \in FreezeStates /\ r.standings \in AllStandings
      BY <2>2 DEF FreezeStates
    <2> HIDE DEF r
    <2>4. FreezeOK'
      BY <1>1, <2>1, <2>3, FreezeBecomes
    <2> QED
      BY <2>1, <2>4, OthersKeepTypes
         DEF TypeInv, PostgresOK, postgres, RabbitOK, RedisOK
  <1>4. ASSUME NEW f \in Freezers, FreezeCommit(f) PROVE TypeInv'
    <2>1. /\ results' = freeze[f].standings /\ freeze[f].pc = "commit"
          /\ frozen' = TRUE
          /\ SetFreeze(f, "unlink")
          /\ UNCHANGED <<status, ended, queue, unacked, handled, adds, recalc,
                         metadata, board>>
      BY <1>4 DEF FreezeCommit, rabbit, redis
    <2>2. FreezeOK'
      BY <1>1, <2>1, SetFreezeSets
    <2>3. PostgresOK'
      BY <1>1, <2>1 DEF TypeInv, PostgresOK, FreezeOK
    <2> QED
      BY <2>1, <2>2, <2>3, OthersKeepTypes DEF TypeInv, RabbitOK, RedisOK
  <1>5. ASSUME NEW f \in Freezers, FreezeUnlink(f) \/ FreezeFails(f) PROVE TypeInv'
    <2>1. /\ freeze' = [freeze EXCEPT ![f] = NoFreeze]
          /\ RedisOK'
          /\ UNCHANGED <<postgres, queue, unacked, handled, adds, recalc>>
      BY <1>5 DEF FreezeUnlink, FreezeFails, rabbit, redis, TypeInv, RedisOK
    <2>2. FreezeOK'
      BY <1>1, <2>1, NoFreezeTyped, FreezeBecomes
    <2> QED
      BY <2>1, <2>2, OthersKeepTypes DEF TypeInv, PostgresOK, postgres, RabbitOK
  <1> QED
    BY <1>2, <1>3, <1>4, <1>5 DEF Freeze

LEMMA CrashTyped ==
    ASSUME TypeInv, Crash
    PROVE  TypeInv'
  <1>1. /\ queue' = queue \cup unacked /\ unacked' = {} /\ handled' = {}
        /\ adds' = <<>> /\ recalc' = NoRecalc
        /\ freeze' = [f \in Freezers |-> NoFreeze]
        /\ UNCHANGED <<postgres, metadata, board>>
    BY DEF Crash, redis
  <1>2. adds' \in Seq(AddCommands) /\ DOMAIN adds' = {}
    BY <1>1
  <1>3. AddsOK'
    BY <1>2 DEF AddsOK
  <1>4. RecalcOK'
    BY <1>1 DEF RecalcOK, NoRecalc, RecalcStates
  <1>5. FreezeOK'
    BY <1>1, NoFreezeTyped DEF FreezeOK
  <1> QED
    BY <1>1, <1>3, <1>4, <1>5 DEF TypeInv, PostgresOK, postgres, RabbitOK, RedisOK

LEMMA TypeStep ==
    ASSUME TypeInv, [Next]_vars PROVE TypeInv'
  <1>1. ASSUME NEW s \in Submissions, Judge(s) \/ Rejudge(s) PROVE TypeInv'
    BY <1>1, ReportTyped
  <1>2. ASSUME NEW m, ConsumeVerdict(m) PROVE TypeInv'
    BY <1>2, ConsumeTyped
  <1>3. ASSUME NEW m, AckVerdict(m) PROVE TypeInv'
    BY <1>3, AckTyped
  <1>4. CASE EndContest
    <2>1. PostgresOK' /\ UNCHANGED <<rabbit, redis, process>>
      BY <1>4 DEF EndContest, TypeInv, PostgresOK
    <2>2. UNCHANGED <<queue, unacked, handled, metadata, board, adds, recalc, freeze>>
      BY <2>1 DEF rabbit, redis, process
    <2> QED
      BY <2>1, <2>2, OthersKeepTypes DEF TypeInv, RabbitOK, RedisOK, FreezeOK
  <1>5. CASE (\E f \in TaskRuns : TaskFindsNothing(f)) \/ UNCHANGED vars
    <2>1. UNCHANGED <<postgres, queue, unacked, handled, metadata, board, adds,
                      recalc, freeze>>
      BY <1>5 DEF TaskFindsNothing, vars, rabbit, redis, process
    <2> QED
      BY <2>1, OthersKeepTypes
         DEF TypeInv, PostgresOK, postgres, RabbitOK, RedisOK, FreezeOK
  <1> QED
    BY <1>1, <1>2, <1>3, <1>4, <1>5, AddKeepsTypes, RecalcTyped, FreezeTyped,
       CrashTyped DEF Next

LEMMA TypeAlways == Spec => []TypeInv
  BY TypeInit, TypeStep, PTL DEF Spec

\* Every state is of the declared types: scores are numbers for every history
\* of runs, and a zAdd that answers a message finds it not yet acknowledged.
THEOREM TypeCorrect == Spec => []TypeOK
  BY TypeAlways, TypeInvImpliesTypeOK, PTL

----------------------------------------------------------------------------
(* A submission counts once.                                               *)

\* The lists of a user hold exactly the processed submissions, each once and
\* under its own problem.
Tracked(user) ==
    /\ \A p \in Problems : \A i \in DOMAIN user.problems[p] :
          /\ user.problems[p][i].sub \in user.processed
          /\ ProblemOf[user.problems[p][i].sub] = p
    /\ \A p \in Problems : \A i, j \in DOMAIN user.problems[p] :
          user.problems[p][i].sub = user.problems[p][j].sub => i = j
    /\ \A s \in user.processed :
          \E i \in DOMAIN user.problems[ProblemOf[s]] :
             user.problems[ProblemOf[s]][i].sub = s

\* after has what user has, and entry e.
Adds(after, user, e) ==
    /\ e.sub \in after.processed
    /\ user.processed \subseteq after.processed
    /\ \A p \in Problems : \A i \in DOMAIN after.problems[p] :
          \/ after.problems[p][i] = e
          \/ /\ i \in DOMAIN user.problems[p]
             /\ after.problems[p][i] = user.problems[p][i]

LEMMA NothingTracked == Tracked(NoSubmissions)
  <1>1. NoSubmissions.processed = {}
        /\ \A p \in Problems : NoSubmissions.problems[p] = <<>>
    BY DEF NoSubmissions
  <1>2. DOMAIN <<>> = {}
    OBVIOUS
  <1> QED
    BY <1>1, <1>2 DEF Tracked

LEMMA AppendTracked ==
    ASSUME NEW user \in UserContestMetadata, Tracked(user), NEW e \in Entries,
           e.sub \notin user.processed,
           NEW after, after = AppendEntry(user, e)
    PROVE  Tracked(after) /\ Adds(after, user, e)
  <1> DEFINE p == ProblemOf[e.sub]
             before == user.problems[p]
             list == after.problems[p]
             n == Len(before) + 1
  <1>1. /\ after \in UserContestMetadata
        /\ after.processed = user.processed \cup {e.sub}
        /\ list = Append(before, e)
        /\ \A q \in Problems \ {p} : after.problems[q] = user.problems[q]
    BY AppendTyped
  <1>2. /\ p \in Problems /\ before \in Seq(Entries)
        /\ user.processed \subseteq Submissions
    BY EntryFields, MetadataFields, LeaderboardAssumption
  <1>3. /\ n \in Nat \ {0} /\ DOMAIN before = 1..(n - 1)
        /\ DOMAIN list = 1..n
        /\ list[n] = e
        /\ \A i \in DOMAIN before : list[i] = before[i]
    BY <1>1, <1>2
  <1>4. \A i \in DOMAIN list : i \in DOMAIN before \/ i = n
    BY <1>3
  <1> HIDE DEF n
  <1>5. \A q \in Problems : \A i \in DOMAIN after.problems[q] :
           \/ q = p /\ i = n /\ after.problems[q][i] = e
           \/ /\ i \in DOMAIN user.problems[q]
              /\ after.problems[q][i] = user.problems[q][i]
    <2> SUFFICES ASSUME NEW q \in Problems, NEW i \in DOMAIN after.problems[q]
                 PROVE  \/ q = p /\ i = n /\ after.problems[q][i] = e
                        \/ /\ i \in DOMAIN user.problems[q]
                           /\ after.problems[q][i] = user.problems[q][i]
      OBVIOUS
    <2>1. CASE q = p
      BY <1>3, <1>4, <2>1
    <2>2. CASE q # p
      BY <1>1, <2>2
    <2> QED
      BY <2>1, <2>2
  <1>6. Adds(after, user, e)
    BY <1>1, <1>5 DEF Adds
  <1>7. \A q \in Problems : \A i \in DOMAIN after.problems[q] :
           /\ after.problems[q][i].sub \in after.processed
           /\ ProblemOf[after.problems[q][i].sub] = q
    BY <1>1, <1>5 DEF Tracked
  <1>8. ASSUME NEW q \in Problems, NEW i \in DOMAIN after.problems[q],
               NEW j \in DOMAIN after.problems[q],
               after.problems[q][i].sub = after.problems[q][j].sub
        PROVE  i = j
    <2>1. \A k \in DOMAIN user.problems[q] : user.problems[q][k].sub # e.sub
      BY DEF Tracked
    <2>2. CASE q = p /\ (i = n \/ j = n)
      BY <1>3, <1>4, <1>8, <2>1, <2>2
    <2>3. CASE q # p \/ (i # n /\ j # n)
      <3>1. /\ i \in DOMAIN user.problems[q]
            /\ after.problems[q][i] = user.problems[q][i]
            /\ j \in DOMAIN user.problems[q]
            /\ after.problems[q][j] = user.problems[q][j]
        BY <1>5, <2>3
      <3> QED
        BY <1>8, <3>1 DEF Tracked
    <2> QED
      BY <2>2, <2>3
  <1>9. ASSUME NEW s \in after.processed
        PROVE  \E i \in DOMAIN after.problems[ProblemOf[s]] :
                  after.problems[ProblemOf[s]][i].sub = s
    <2>1. CASE s = e.sub
      <3>1. n \in DOMAIN list
        BY <1>3
      <3> QED
        BY <1>3, <2>1, <3>1
    <2>2. CASE s \in user.processed
      <3>1. PICK i \in DOMAIN user.problems[ProblemOf[s]] :
                user.problems[ProblemOf[s]][i].sub = s
        BY <2>2 DEF Tracked
      <3>2. ProblemOf[s] \in Problems
        BY <1>2, <2>2, LeaderboardAssumption
      <3>3. CASE ProblemOf[s] = p
        <4>1. i \in DOMAIN list /\ list[i] = before[i]
          BY <1>3, <3>1, <3>3
        <4> QED
          BY <3>1, <3>3, <4>1
      <3>4. CASE ProblemOf[s] # p
        BY <1>1, <3>1, <3>2, <3>4
      <3> QED
        BY <3>3, <3>4
    <2> QED
      BY <1>1, <2>1, <2>2
  <1> QED
    BY <1>6, <1>7, <1>8, <1>9 DEF Tracked

\* The script keeps the lists of a user tracked, and adds the entry at most once.
LEMMA UpdateTracked ==
    ASSUME NEW field \in UserContestMetadata \cup {Nil}, NEW e \in Entries,
           field # Nil => Tracked(field)
    PROVE  /\ Tracked(UpdateUserState(field, e))
           /\ Adds(UpdateUserState(field, e), Known(field), e)
  <1>1. Known(field) \in UserContestMetadata /\ (field # Nil => Known(field) = field)
    BY KnownTyped
  <1>2. Tracked(Known(field))
    BY <1>1, NothingTracked DEF Known
  <1>3. CASE e.sub \notin Known(field).processed
    <2>1. UpdateUserState(field, e) = AppendEntry(Known(field), e)
      BY <1>3 DEF UpdateUserState
    <2> QED
      BY <1>1, <1>2, <1>3, <2>1, AppendTracked
  <1>4. CASE e.sub \in Known(field).processed
    <2>1. field # Nil
      BY <1>4 DEF Known, NoSubmissions
    <2>2. UpdateUserState(field, e) = Known(field)
      BY <1>1, <1>4, <2>1 DEF UpdateUserState
    <2>3. Adds(Known(field), Known(field), e)
      BY <1>4 DEF Adds
    <2> QED
      BY <1>2, <2>2, <2>3
  <1> QED
    BY <1>3, <1>4

OnceInv == \A u \in Users : metadata[u] # Nil => Tracked(metadata[u])

\* What the steps do to the metadata: the script runs for one entry, or fields
\* are deleted, or nothing.
LEMMA MetadataSteps ==
    ASSUME TypeInv, [Next]_vars
    PROVE  \/ \E e \in Entries, message \in (Rated \X Verdicts) \cup {Nil} :
                 ProcessLiveVerdict(e, message)
           \/ \A u \in Users : metadata'[u] \in {metadata[u], Nil}
  <1>1. ASSUME NEW m, ConsumeVerdict(m)
        PROVE  \E e \in Entries, message \in (Rated \X Verdicts) \cup {Nil} :
                  ProcessLiveVerdict(e, message)
    <2>1. m \in Rated \X Verdicts
          /\ ProcessLiveVerdict(Entry(m[1], LiveTime[m[1]], m[2]), m)
      BY <1>1 DEF ConsumeVerdict, TypeInv, RabbitOK
    <2> QED
      BY <2>1, EntryTyped, LeaderboardAssumption
  <1>2. ASSUME RecalcApply
        PROVE  \E e \in Entries, message \in (Rated \X Verdicts) \cup {Nil} :
                  ProcessLiveVerdict(e, message)
    <2>1. recalc.rows \in Seq(Entries) /\ recalc.rows # <<>>
          /\ ProcessLiveVerdict(Head(recalc.rows), Nil)
      BY <1>2 DEF RecalcApply, TypeInv, RecalcOK, RecalcStates
    <2>2. Head(recalc.rows) \in Entries
      BY <2>1
    <2> QED
      BY <2>1, <2>2
  <1>3. ASSUME NEW v \in Users, RecalcStart(v)
        PROVE  \A u \in Users : metadata'[u] \in {metadata[u], Nil}
    BY <1>3 DEF RecalcStart, TypeInv, RedisOK
  <1>4. ASSUME NEW f \in Freezers, FreezeUnlink(f)
        PROVE  \A u \in Users : metadata'[u] \in {metadata[u], Nil}
    BY <1>4 DEF FreezeUnlink
  <1>5. ASSUME ~(\E m \in queue : ConsumeVerdict(m)), ~RecalcApply,
               ~(\E u \in Users : RecalcStart(u)),
               ~(\E f \in Freezers : FreezeUnlink(f))
        PROVE  UNCHANGED metadata
    BY <1>5 DEF Next, vars, redis, Judge, Rejudge, Report, EndContest,
       AddScore, AckVerdict, Recalculate, RecalcSelect, RecalcDone, TaskFind,
       TaskFindsNothing, TaskCheckPending, ForceRecalculateContest, Freeze,
       FreezeSelect, FreezeCommit, FreezeFails, Crash
  <1> QED
    BY <1>1, <1>2, <1>3, <1>4, <1>5

LEMMA OnceStep ==
    ASSUME TypeInv, OnceInv, [Next]_vars PROVE OnceInv'
  <1>1. ASSUME NEW e \in Entries, NEW message \in (Rated \X Verdicts) \cup {Nil},
               ProcessLiveVerdict(e, message)
        PROVE  OnceInv'
    <2>1. PICK after, add : VerdictDone(e, message, after, add)
      BY <1>1, VerdictSteps
    <2>2. /\ after = UpdateUserState(metadata[UserOf[e.sub]], e)
          /\ UserOf[e.sub] \in Users
          /\ metadata'[UserOf[e.sub]] = after
          /\ \A u \in Users \ {UserOf[e.sub]} : metadata'[u] = metadata[u]
      BY <2>1 DEF VerdictDone
    <2>3. metadata[UserOf[e.sub]] \in UserContestMetadata \cup {Nil}
      BY <2>2 DEF TypeInv, RedisOK
    <2>4. Tracked(after)
      BY <2>2, <2>3, UpdateTracked DEF OnceInv
    <2>5. ASSUME NEW u \in Users, metadata'[u] # Nil PROVE Tracked(metadata'[u])
      BY <2>2, <2>4, <2>5 DEF OnceInv
    <2> QED
      BY <2>5 DEF OnceInv, Tracked
  <1>2. ASSUME \A u \in Users : metadata'[u] \in {metadata[u], Nil} PROVE OnceInv'
    BY <1>2 DEF OnceInv, Tracked
  <1> QED
    BY <1>1, <1>2, MetadataSteps

LEMMA OnceAlways == Spec => []OnceInv
  <1>1. Init => OnceInv
    BY DEF Init, OnceInv
  <1> QED
    BY <1>1, TypeAlways, OnceStep, PTL DEF Spec

\* A submission never counts twice on the live board, however often its verdict
\* is delivered and whatever recalculation runs at the same time (_lua.ts:18-23).
THEOREM EntriesCountOnce == Spec => []CountedOnce
  <1>1. OnceInv => CountedOnce
    <2> SUFFICES ASSUME OnceInv, NEW u \in Users, metadata[u] # Nil,
                        NEW p \in Problems, NEW q \in Problems,
                        NEW i \in DOMAIN metadata[u].problems[p],
                        NEW j \in DOMAIN metadata[u].problems[q],
                        metadata[u].problems[p][i].sub = metadata[u].problems[q][j].sub
                 PROVE  p = q /\ i = j
      BY DEF CountedOnce
    <2>1. Tracked(metadata[u])
      BY DEF OnceInv
    <2>2. p = q
      BY <2>1 DEF Tracked
    <2> QED
      BY <2>1, <2>2 DEF Tracked
  <1> QED
    BY <1>1, OnceAlways, PTL

----------------------------------------------------------------------------
(* The frozen standings are complete.                                      *)

\* Only the task freezes, and no submission is judged twice.
OnlyTheTask == Redelivered = {} /\ "contest" \notin Admin

AllJudged == \A s \in Submissions : status[s] # "QUEUE"

\* A run that is past its check for pending submissions found none, so none will
\* come; what it is about to write is what every other run writes.
FreezesRows(f) ==
    /\ freeze[f].pc \in {"select", "commit", "unlink"} => AllJudged
    /\ freeze[f].pc = "commit" => freeze[f].standings = Standings

FrozenInv ==
    /\ freeze["route"].pc = "idle"
    /\ \A f \in TaskRuns : FreezesRows(f)
    /\ frozen => AllJudged /\ results = Standings

\* A verdict that arrives finds no freeze under way.
LEMMA JudgeKeepsFrozen ==
    ASSUME OnlyTheTask, FrozenInv, NEW s \in Submissions, Judge(s) \/ Rejudge(s)
    PROVE  FrozenInv'
  <1>1. Judge(s)
    BY DEF OnlyTheTask, Rejudge
  <1>2. ~AllJudged
    BY <1>1 DEF Judge, AllJudged
  <1>3. UNCHANGED <<freeze, frozen, results>>
    BY <1>1 DEF Judge, Report, process
  <1> QED
    BY <1>2, <1>3 DEF FrozenInv, FreezesRows

\* A step that leaves the rows, the results and the freezes alone.
LEMMA OthersKeepFrozen ==
    ASSUME FrozenInv, UNCHANGED <<status, frozen, results, freeze>>
    PROVE  FrozenInv'
  BY StandingsOfStatus DEF FrozenInv, FreezesRows, AllJudged

\* A step of one run, which leaves the others and the rows alone.
LEMMA RunKeepsFrozen ==
    ASSUME FrozenInv, NEW f \in TaskRuns, UNCHANGED status,
           \A g \in Freezers \ {f} : freeze'[g] = freeze[g],
           freeze'[f].pc \in {"select", "commit", "unlink"} => AllJudged,
           freeze'[f].pc = "commit" => freeze'[f].standings = Standings,
           frozen' => AllJudged /\ results' = Standings
    PROVE  FrozenInv'
  <1>1. Standings' = Standings /\ AllJudged' = AllJudged
    BY StandingsOfStatus DEF AllJudged
  <1>2. freeze'["route"] = freeze["route"]
    BY LeaderboardAssumption DEF Freezers
  <1>3. ASSUME NEW g \in TaskRuns PROVE FreezesRows(g)'
    <2>1. CASE g = f
      BY <1>1, <2>1 DEF FreezesRows
    <2>2. CASE g # f
      <3>1. freeze'[g] = freeze[g]
        BY <2>2 DEF Freezers
      <3> QED
        BY <1>1, <3>1 DEF FreezesRows, FrozenInv
    <2> QED
      BY <2>1, <2>2
  <1> QED
    BY <1>1, <1>2, <1>3 DEF FrozenInv

LEMMA FreezeKeepsFrozen ==
    ASSUME TypeInv, FrozenInv, NEW f \in Freezers, Freeze(f)
    PROVE  FrozenInv'
  <1>1. f \in TaskRuns
    BY DEF FrozenInv, Freeze, FreezeSelect, FreezeCommit, FreezeUnlink,
           FreezeFails, Freezers
  <1>2. FreezeOK /\ FreezesRows(f) /\ status' = status
    BY <1>1 DEF TypeInv, FrozenInv, Freeze, FreezeSelect, FreezeCommit,
       FreezeUnlink, FreezeFails, postgres
  <1>3. ASSUME FreezeSelect(f) PROVE FrozenInv'
    <2> DEFINE r == [pc |-> "commit", standings |-> Standings]
    <2>1. /\ freeze' = [freeze EXCEPT ![f] = r]
          /\ freeze[f].pc = "select"
          /\ UNCHANGED <<frozen, results>>
      BY <1>3 DEF FreezeSelect, postgres
    <2>2. freeze'[f] = r /\ \A g \in Freezers \ {f} : freeze'[g] = freeze[g]
      BY <1>2, <2>1 DEF FreezeOK
    <2>3. freeze'[f].standings = Standings
      BY <2>2
    <2> HIDE DEF r
    <2> QED
      BY <1>1, <1>2, <2>1, <2>2, <2>3, RunKeepsFrozen DEF FreezesRows, FrozenInv
  <1>4. ASSUME FreezeCommit(f) PROVE FrozenInv'
    <2>1. /\ SetFreeze(f, "unlink")
          /\ results' = freeze[f].standings
          /\ freeze[f].pc = "commit"
      BY <1>4 DEF FreezeCommit
    <2>2. /\ freeze'[f].pc = "unlink"
          /\ \A g \in Freezers \ {f} : freeze'[g] = freeze[g]
      BY <1>2, <2>1, SetFreezeSets
    <2>3. AllJudged /\ results' = Standings
      BY <1>2, <2>1 DEF FreezesRows
    <2> QED
      BY <1>1, <1>2, <2>2, <2>3, RunKeepsFrozen
  <1>5. ASSUME FreezeUnlink(f) \/ FreezeFails(f) PROVE FrozenInv'
    <2>1. /\ freeze' = [freeze EXCEPT ![f] = NoFreeze]
          /\ UNCHANGED <<frozen, results>>
      BY <1>5 DEF FreezeUnlink, FreezeFails, postgres
    <2>2. /\ freeze'[f].pc = "idle"
          /\ \A g \in Freezers \ {f} : freeze'[g] = freeze[g]
      BY <1>2, <2>1, NoFreezeTyped, FreezeBecomes
    <2> QED
      BY <1>1, <1>2, <2>1, <2>2, RunKeepsFrozen DEF FrozenInv
  <1> QED
    BY <1>3, <1>4, <1>5 DEF Freeze

LEMMA TaskKeepsFrozen ==
    ASSUME TypeInv, FrozenInv, NEW f \in TaskRuns, TaskFind(f) \/ TaskCheckPending(f)
    PROVE  FrozenInv'
  <1>1. FreezeOK /\ f \in Freezers
    BY DEF Freezers, TypeInv
  <1>2. UNCHANGED <<status, frozen, results>>
    BY DEF TaskFind, TaskCheckPending, postgres
  <1>3. PICK pc \in {"idle", "check", "select"} :
          SetFreeze(f, pc) /\ (pc = "select" => AllJudged)
    BY DEF TaskFind, TaskCheckPending, AllJudged
  <1>4. freeze'[f].pc = pc /\ \A g \in Freezers \ {f} : freeze'[g] = freeze[g]
    BY <1>1, <1>3, SetFreezeSets
  <1> QED
    BY <1>2, <1>3, <1>4, RunKeepsFrozen DEF FrozenInv

LEMMA FrozenAlways == ASSUME OnlyTheTask PROVE Spec => []FrozenInv
  <1>1. Init => FrozenInv
    BY DEF Init, FrozenInv, FreezesRows, NoFreeze, Freezers
  <1>2. ASSUME TypeInv, FrozenInv, [Next]_vars PROVE FrozenInv'
    <2>1. ASSUME NEW s \in Submissions, Judge(s) \/ Rejudge(s) PROVE FrozenInv'
      BY <1>2, <2>1, JudgeKeepsFrozen
    <2>2. ASSUME NEW f \in Freezers, Freeze(f) PROVE FrozenInv'
      BY <1>2, <2>2, FreezeKeepsFrozen
    <2>3. ASSUME NEW f \in TaskRuns, TaskFind(f) \/ TaskCheckPending(f)
          PROVE  FrozenInv'
      BY <1>2, <2>3, TaskKeepsFrozen
    <2>4. CASE Crash
      <3>1. freeze' = [f \in Freezers |-> NoFreeze] /\ UNCHANGED postgres
        BY <2>4 DEF Crash
      <3>2. Standings' = Standings /\ AllJudged' = AllJudged
        BY <3>1, StandingsOfStatus DEF postgres, AllJudged
      <3>3. \A f \in Freezers : freeze'[f].pc = "idle"
        BY <3>1, NoFreezeTyped
      <3> QED
        BY <1>2, <3>1, <3>2, <3>3 DEF FrozenInv, FreezesRows, Freezers, postgres
    <2>5. ASSUME ~(\E s \in Submissions : Judge(s) \/ Rejudge(s)),
                 ~(\E f \in Freezers : Freeze(f)),
                 ~(\E f \in TaskRuns : TaskFind(f) \/ TaskCheckPending(f)),
                 ~Crash
          PROVE  UNCHANGED <<status, frozen, results, freeze>>
      BY <1>2, <2>5 DEF Next, vars, postgres, process, EndContest, ConsumeVerdict,
         AddScore, AckVerdict, Recalculate, RecalcStart, RecalcSelect, RecalcApply,
         RecalcDone, TaskFindsNothing, ForceRecalculateContest, OnlyTheTask
    <2> QED
      BY <1>2, <2>1, <2>2, <2>3, <2>4, <2>5, OthersKeepFrozen
  <1> QED
    BY <1>1, <1>2, TypeAlways, PTL DEF Spec

\* When only the task freezes and no submission is judged twice, a frozen
\* contest has exactly the standings of its rows: no verdict can arrive between
\* the check for pending submissions and the commit (freeze.task.ts:24-27), and
\* runs of the task that overlap (freeze.task.ts:8) all write the same.
THEOREM FrozenStandingsAreComplete ==
    ASSUME OnlyTheTask PROVE Spec => []FrozenIsComplete
  <1>1. FrozenInv => FrozenIsComplete
    BY DEF FrozenInv, FrozenIsComplete
  <1> QED
    BY <1>1, FrozenAlways, PTL


----------------------------------------------------------------------------
(* The sorted set follows the metadata.                                    *)

\* A crash finds no recalculation of a user under way.
CrashSpares == "user" \in Admin => "crash" \notin Faults

\* The pending zAdd i is the last one of its user.
LastAdd(i) == \A j \in DOMAIN adds : j > i => adds[j].user # adds[i].user

\* The last score sent for u, the one in Redis if none is pending, is the score
\* of the metadata of u.
LastScore(u) ==
    /\ (\A i \in DOMAIN adds : adds[i].user # u) => board[u] = Score(metadata[u])
    /\ \A i \in DOMAIN adds :
          adds[i].user = u /\ LastAdd(i) => adds[i].score = Score(metadata[u])

BoardFollows(u) ==
    metadata[u] # Nil /\ (\A m \in queue : UserOf[m[1]] # u) => LastScore(u)

FollowInv == \A u \in Users : BoardFollows(u)

\* More messages in the queue.
LEMMA FollowsKept ==
    ASSUME FollowInv, UNCHANGED <<adds, metadata, board>>, queue \subseteq queue'
    PROVE  FollowInv'
  BY DEF FollowInv, BoardFollows, LastScore, LastAdd

\* The script runs and its zAdd joins the pending ones.
LEMMA VerdictFollows ==
    ASSUME TypeInv, FollowInv, NEW e \in Entries,
           NEW message \in (Rated \X Verdicts) \cup {Nil},
           ProcessLiveVerdict(e, message),
           \A m \in queue \ queue' : UserOf[m[1]] = UserOf[e.sub]
    PROVE  FollowInv'
  <1> DEFINE x == UserOf[e.sub]
             n == Len(adds) + 1
  <1>1. PICK after, add : VerdictDone(e, message, after, add)
    BY VerdictSteps
  <1>2. /\ add.user = x /\ add.score = Score(after)
        /\ n \in Nat \ {0}
        /\ DOMAIN adds = 1..(n - 1)
        /\ DOMAIN adds' = 1..n
        /\ adds'[n] = add
        /\ \A i \in DOMAIN adds : adds'[i] = adds[i]
        /\ metadata'[x] = after
        /\ \A u \in Users \ {x} : metadata'[u] = metadata[u]
        /\ board' = board
    BY <1>1 DEF VerdictDone
  <1> HIDE DEF n
  <1>3. ASSUME NEW u \in Users, metadata'[u] # Nil,
               \A m \in queue' : UserOf[m[1]] # u
        PROVE  LastScore(u)'
    <2>1. CASE u = x
      <3>1. n \in DOMAIN adds' /\ adds'[n].user = u
        <4>1. n \in 1..n
          BY <1>2
        <4> QED
          BY <1>2, <2>1, <4>1
      <3>2. ASSUME NEW i \in DOMAIN adds', LastAdd(i)', adds'[i].user = u
            PROVE  i = n
        <4>1. ~ (n > i)
          BY <3>1, <3>2 DEF LastAdd
        <4> QED
          BY <1>2, <4>1
      <3>3. adds'[n].score = Score(metadata'[u])
        BY <1>2, <2>1
      <3> QED
        BY <3>1, <3>2, <3>3 DEF LastScore, Score
    <2>2. CASE u # x
      <3>1. metadata'[u] = metadata[u]
        BY <1>2, <2>2
      <3>2. \A m \in queue : UserOf[m[1]] # u
        BY <1>3, <2>2
      <3>3. LastScore(u)
        BY <1>3, <3>1, <3>2 DEF FollowInv, BoardFollows
      <3>4. CASE \A i \in DOMAIN adds' : adds'[i].user # u
        <4>1. \A i \in DOMAIN adds : adds[i].user # u
          BY <1>2, <3>4
        <4>2. board'[u] = Score(metadata'[u])
          BY <1>2, <3>1, <3>3, <4>1 DEF LastScore
        <4> QED
          BY <3>4, <4>2 DEF LastScore, Score
      <3>5. ASSUME NEW i \in DOMAIN adds', LastAdd(i)', adds'[i].user = u
            PROVE  adds'[i].score = Score(metadata'[u])
        <4>1. i \in DOMAIN adds
          BY <1>2, <2>2, <3>5
        <4>2. LastAdd(i) /\ adds[i].user = u
          BY <1>2, <3>5, <4>1 DEF LastAdd
        <4> QED
          BY <1>2, <3>1, <3>3, <4>1, <4>2 DEF LastScore
      <3>6. CASE \E i \in DOMAIN adds' : adds'[i].user = u
        BY <3>5, <3>6 DEF LastScore, Score
      <3> QED
        BY <3>4, <3>6
    <2> QED
      BY <2>1, <2>2
  <1> QED
    BY <1>3 DEF FollowInv, BoardFollows

\* The oldest zAdd runs.
LEMMA AddFollows ==
    ASSUME TypeInv, FollowInv, AddScore
    PROVE  FollowInv'
  <1> DEFINE add == adds[1]
             n == Len(adds)
  <1>1. /\ n \in Nat \ {0} /\ DOMAIN adds = 1..n
        /\ DOMAIN adds' = 1..(n - 1)
        /\ \A i \in 1..(n - 1) : adds'[i] = adds[i + 1]
        /\ board' = [board EXCEPT ![add.user] = add.score]
        /\ UNCHANGED <<queue, metadata>>
    BY AddTyped
  <1> HIDE DEF n, add
  <1>2. \A i \in DOMAIN adds' : i + 1 \in DOMAIN adds
    BY <1>1
  <1>3. ASSUME NEW u \in Users, metadata'[u] # Nil,
               \A m \in queue' : UserOf[m[1]] # u
        PROVE  LastScore(u)'
    <2>1. LastScore(u)
      BY <1>1, <1>3 DEF FollowInv, BoardFollows
    <2>2. ASSUME NEW i \in DOMAIN adds', adds'[i].user = u, LastAdd(i)'
          PROVE  adds'[i].score = Score(metadata'[u])
      <3>1. adds[i + 1].user = u /\ i + 1 \in DOMAIN adds
        BY <1>1, <1>2, <2>2
      <3>2. LastAdd(i + 1)
        <4> SUFFICES ASSUME NEW j \in DOMAIN adds, j > i + 1
                     PROVE  adds[j].user # u
          BY <3>1 DEF LastAdd
        <4>1. j - 1 \in DOMAIN adds' /\ j - 1 > i
          BY <1>1
        <4>2. adds'[j - 1] = adds[j]
          BY <1>1, <4>1
        <4> QED
          BY <2>2, <4>1, <4>2 DEF LastAdd
      <3> QED
        BY <1>1, <2>1, <3>1, <3>2 DEF LastScore
    <2>3. ASSUME \A i \in DOMAIN adds' : adds'[i].user # u
          PROVE  board'[u] = Score(metadata'[u])
      <3>1. \A j \in DOMAIN adds : j > 1 => adds[j].user # u
        <4> SUFFICES ASSUME NEW j \in DOMAIN adds, j > 1
                     PROVE  adds[j].user # u
          OBVIOUS
        <4>1. j - 1 \in DOMAIN adds' /\ adds'[j - 1] = adds[j]
          BY <1>1
        <4> QED
          BY <2>3, <4>1
      <3>2. CASE add.user = u
        <4>1. 1 \in DOMAIN adds /\ LastAdd(1) /\ adds[1].user = u
          BY <1>1, <3>1, <3>2 DEF LastAdd, add
        <4>2. add.score = Score(metadata[u])
          BY <2>1, <4>1 DEF LastScore, add
        <4>3. board'[u] = add.score
          BY <1>1, <3>2 DEF TypeInv, RedisOK
        <4> QED
          BY <1>1, <4>2, <4>3
      <3>3. CASE add.user # u
        <4>1. \A j \in DOMAIN adds : adds[j].user # u
          <5>1. \A j \in DOMAIN adds : j = 1 \/ j > 1
            BY <1>1
          <5> QED
            BY <3>1, <3>3, <5>1 DEF add
        <4>2. board'[u] = board[u]
          BY <1>1, <3>3 DEF TypeInv, RedisOK
        <4> QED
          BY <1>1, <2>1, <4>1, <4>2 DEF LastScore
      <3> QED
        BY <3>2, <3>3
    <2> QED
      BY <2>2, <2>3 DEF LastScore, Score
  <1> QED
    BY <1>3 DEF FollowInv, BoardFollows

LEMMA RecalcFollows ==
    ASSUME TypeInv, FollowInv, Recalculate
    PROVE  FollowInv'
  <1>1. ASSUME NEW u \in Users, RecalcStart(u) PROVE FollowInv'
    <2>1. /\ metadata' = [metadata EXCEPT ![u] = Nil]
          /\ UNCHANGED <<queue, board, adds>>
      BY <1>1 DEF RecalcStart, rabbit
    <2> QED
      BY <2>1 DEF TypeInv, RedisOK, FollowInv, BoardFollows, LastScore, LastAdd
  <1>2. CASE RecalcApply
    <2>1. /\ recalc.rows \in Seq(Entries) /\ recalc.rows # <<>>
          /\ ProcessLiveVerdict(Head(recalc.rows), Nil)
          /\ queue' = queue
      BY <1>2 DEF RecalcApply, rabbit, TypeInv, RecalcOK, RecalcStates
    <2>2. Head(recalc.rows) \in Entries
      BY <2>1
    <2> QED
      BY <2>1, <2>2, VerdictFollows
  <1>3. CASE RecalcSelect \/ RecalcDone
    BY <1>3, FollowsKept DEF RecalcSelect, RecalcDone, rabbit, redis
  <1> QED
    BY <1>1, <1>2, <1>3 DEF Recalculate

\* The process loses its pending zAdds; the messages they belonged to are
\* in the queue again.
LEMMA CrashFollows ==
    ASSUME CrashSpares, TypeInv, FollowInv, Crash
    PROVE  FollowInv'
  <1>1. /\ queue' = queue \cup unacked /\ adds' = <<>>
        /\ UNCHANGED <<metadata, board>>
    BY DEF Crash, redis
  <1>2. recalc.pc = "idle"
    BY DEF CrashSpares, Crash, TypeInv, RecalcOK, NoRecalc
  <1>3. DOMAIN adds' = {}
    BY <1>1
  <1>4. ASSUME NEW u \in Users, metadata'[u] # Nil,
               \A m \in queue' : UserOf[m[1]] # u
        PROVE  LastScore(u)'
    <2>1. LastScore(u)
      BY <1>1, <1>4 DEF FollowInv, BoardFollows
    <2>2. \A i \in DOMAIN adds : adds[i].user # u
      <3> SUFFICES ASSUME NEW i \in DOMAIN adds PROVE adds[i].user # u
        OBVIOUS
      <3>1. AddOf(adds[i])
        BY DEF TypeInv, AddsOK
      <3>2. adds[i].message \in unacked /\ adds[i].user = UserOf[adds[i].message[1]]
        BY <1>2, <3>1 DEF AddOf
      <3> QED
        BY <1>1, <1>4, <3>2
    <2> QED
      BY <1>1, <1>3, <2>1, <2>2 DEF LastScore, Score
  <1> QED
    BY <1>4 DEF FollowInv, BoardFollows

LEMMA FollowStep ==
    ASSUME CrashSpares, TypeInv, FollowInv, [Next]_vars
    PROVE  FollowInv'
  <1>1. ASSUME NEW s \in Submissions, Judge(s) \/ Rejudge(s) PROVE FollowInv'
    <2>1. UNCHANGED <<metadata, board, adds>> /\ queue \subseteq queue'
      BY <1>1 DEF Judge, Rejudge, Report, redis, process
    <2> QED
      BY <2>1, FollowsKept
  <1>2. ASSUME NEW m \in queue, ConsumeVerdict(m) PROVE FollowInv'
    <2> DEFINE e == Entry(m[1], LiveTime[m[1]], m[2])
    <2>1. m \in Rated \X Verdicts
      BY <1>2 DEF TypeInv, RabbitOK
    <2>2. e \in Entries /\ e.sub = m[1]
      BY <2>1, EntryTyped, LeaderboardAssumption DEF Entry
    <2>3. ProcessLiveVerdict(e, m) /\ queue' = queue \ {m}
      BY <1>2 DEF ConsumeVerdict
    <2> HIDE DEF e
    <2> QED
      BY <2>1, <2>2, <2>3, VerdictFollows
  <1>3. ASSUME NEW f \in Freezers, FreezeUnlink(f) PROVE FollowInv'
    BY <1>3 DEF FreezeUnlink, FollowInv, BoardFollows
  <1>4. ASSUME UNCHANGED <<queue, metadata, board, adds>> PROVE FollowInv'
    BY <1>4, FollowsKept
  <1>5. CASE \/ EndContest
             \/ \E f \in TaskRuns : \/ TaskFind(f) \/ TaskFindsNothing(f)
                                   \/ TaskCheckPending(f)
             \/ ForceRecalculateContest \/ UNCHANGED vars
             \/ \E m \in handled : AckVerdict(m)
             \/ \E f \in Freezers : FreezeSelect(f) \/ FreezeCommit(f) \/ FreezeFails(f)
    BY <1>4, <1>5 DEF EndContest, TaskFind, TaskFindsNothing, TaskCheckPending,
       ForceRecalculateContest, FreezeSelect, FreezeCommit, FreezeFails, vars,
       AckVerdict, postgres, rabbit, redis, process
  <1> QED
    BY <1>1, <1>2, <1>3, <1>5, AddFollows, RecalcFollows, CrashFollows DEF Next, Freeze

LEMMA FollowAlways == ASSUME CrashSpares PROVE Spec => []FollowInv
  <1>1. Init => FollowInv
    BY DEF Init, FollowInv, BoardFollows
  <1> QED
    BY <1>1, FollowStep, TypeAlways, PTL DEF Spec

LEMMA FollowsInQuiet == FollowInv => ScoreFollowsMetadata
  BY DEF FollowInv, BoardFollows, LastScore, ScoreFollowsMetadata, Quiet

\* When a user's verdicts and recalculations are through, the sorted set holds
\* the score of the user's metadata, whatever the order in which the handlers'
\* scripts and zAdds ran, and whatever died between them: a redelivered verdict
\* sends the score again although the script has nothing to add
\* (redis.service.ts:18-42). Only a crash in the middle of a forced
\* recalculation, which no message repeats, is excluded.
THEOREM BoardFollowsMetadata ==
    ASSUME CrashSpares PROVE Spec => []ScoreFollowsMetadata
  BY FollowAlways, FollowsInQuiet, PTL

----------------------------------------------------------------------------
(* The live board until the freeze.                                        *)

\* No user's metadata is deleted by hand.
NoRecalculation == "user" \notin Admin

\* Redis is freed only after a commit.
FreedAfterCommit == \A f \in Freezers : freeze[f].pc = "unlink" => frozen

\* A verdict on its way is the one the row has.
MessagesMatch ==
    \A m \in queue \cup unacked : m[1] \notin Redelivered => status[m[1]] = m[2]

\* An entry has the time of its message and the verdict of its row.
EntryMatches(e) ==
    /\ e.time = LiveTime[e.sub]
    /\ e.status \in Verdicts
    /\ e.sub \notin Redelivered => e.status = status[e.sub]

EntriesMatch ==
    \A u \in Users : metadata[u] # Nil =>
        /\ metadata[u].processed \subseteq RatedRows(u)
        /\ \A p \in Problems : \A i \in DOMAIN metadata[u].problems[p] :
              EntryMatches(metadata[u].problems[p][i])

\* The script ran for submission s.
Counted(s) ==
    metadata[UserOf[s]] # Nil /\ s \in metadata[UserOf[s]].processed

\* A stored verdict waits in the queue or was counted.
StoredOK ==
    ~frozen /\ "lost" \notin Faults =>
        \A s \in Rated \ Redelivered :
            status[s] # "QUEUE" => <<s, status[s]>> \in queue \/ Counted(s)

\* u is on the board, or about to be.
OnBoard(u) == board[u] # Nil \/ \E i \in DOMAIN adds : adds[i].user = u

PresentOK ==
    /\ ~frozen => \A u \in Users : OnBoard(u) => metadata[u] # Nil
    /\ \A u \in Users : OnBoard(u) \/ metadata[u] # Nil => RatedRows(u) # {}

LiveInv == FreedAfterCommit /\ MessagesMatch /\ EntriesMatch /\ StoredOK /\ PresentOK

\* No verdict is called QUEUE.
LEMMA VerdictIsFinal == "QUEUE" \notin Verdicts
  BY LeaderboardAssumption DEF Statuses

LEMMA LiveInit == Init => LiveInv
  <1> SUFFICES ASSUME Init PROVE LiveInv
    OBVIOUS
  <1>1. /\ \A f \in Freezers : freeze[f].pc = "idle"
        /\ frozen = FALSE /\ queue = {} /\ unacked = {} /\ adds = <<>>
        /\ \A u \in Users : metadata[u] = Nil /\ board[u] = Nil
        /\ \A s \in Submissions : status[s] = "QUEUE"
    BY DEF Init, NoFreeze
  <1>2. FreedAfterCommit
    BY <1>1 DEF FreedAfterCommit, Freezers
  <1>3. MessagesMatch /\ EntriesMatch
    BY <1>1 DEF MessagesMatch, EntriesMatch
  <1>4. StoredOK
    BY <1>1, LeaderboardAssumption DEF StoredOK
  <1>5. DOMAIN adds = {}
    BY <1>1
  <1>6. PresentOK
    BY <1>1, <1>5 DEF PresentOK, OnBoard
  <1> QED
    BY <1>2, <1>3, <1>4, <1>6 DEF LiveInv

\* The steps as the live board sees them, when no user is recalculated.
NothingNew ==
    /\ UNCHANGED <<status, metadata, board>>
    /\ queue \subseteq queue'
    /\ (queue \cup unacked)' \subseteq queue \cup unacked
    /\ adds' = adds \/ adds' = <<>>

LEMMA LiveSteps ==
    ASSUME NoRecalculation, TypeInv, [Next]_vars
    PROVE  \/ \E s \in Submissions, v \in Verdicts :
                 Report(s, v) /\ (s \notin Redelivered => status[s] = "QUEUE")
           \/ \E m : ConsumeVerdict(m)
           \/ AddScore
           \/ \E f \in Freezers : FreezeUnlink(f)
           \/ NothingNew
  <1>1. ~Recalculate
    BY DEF NoRecalculation, TypeInv, RecalcOK, NoRecalc, Recalculate, RecalcStart,
       RecalcSelect, RecalcApply, RecalcDone
  <1>2. CASE \E m \in handled : AckVerdict(m)
    BY <1>2 DEF AckVerdict, NothingNew, postgres, redis
  <1>3. CASE Crash
    BY <1>3 DEF Crash, NothingNew, postgres, redis
  <1>4. CASE \/ EndContest
             \/ \E f \in TaskRuns : \/ TaskFind(f) \/ TaskFindsNothing(f)
                                   \/ TaskCheckPending(f)
             \/ ForceRecalculateContest \/ UNCHANGED vars
             \/ \E f \in Freezers : FreezeSelect(f) \/ FreezeCommit(f) \/ FreezeFails(f)
    BY <1>4 DEF NothingNew, EndContest, TaskFind, TaskFindsNothing, TaskCheckPending,
       ForceRecalculateContest, FreezeSelect, FreezeCommit, FreezeFails, vars,
       postgres, rabbit, redis, process
  <1>5. CASE \E s \in Submissions : Judge(s) \/ Rejudge(s)
    BY <1>5 DEF Judge, Rejudge
  <1> QED
    BY <1>1, <1>2, <1>3, <1>4, <1>5 DEF Next, Freeze

\* The frozen flag is never taken back.
LEMMA FrozenStays == ASSUME [Next]_vars PROVE frozen => frozen'
  BY DEF Next, vars, postgres, Judge, Rejudge, Report, EndContest, ConsumeVerdict,
     AddScore, AckVerdict, Recalculate, RecalcStart, RecalcSelect, RecalcApply,
     RecalcDone, TaskFind, TaskFindsNothing, TaskCheckPending,
     ForceRecalculateContest, Freeze, FreezeSelect, FreezeCommit, FreezeUnlink,
     FreezeFails, Crash

LEMMA FreedStep ==
    ASSUME TypeInv, FreedAfterCommit, [Next]_vars
    PROVE  FreedAfterCommit'
  <1>1. FreezeOK /\ TaskRuns \subseteq Freezers /\ "route" \in Freezers
    BY DEF TypeInv, Freezers
  <1>2. frozen => frozen'
    BY FrozenStays
  <1>3. ASSUME UNCHANGED freeze PROVE FreedAfterCommit'
    BY <1>2, <1>3 DEF FreedAfterCommit
  <1>4. ASSUME NEW f \in Freezers, freeze'[f].pc = "unlink" => frozen',
               \A g \in Freezers \ {f} : freeze'[g] = freeze[g]
        PROVE  FreedAfterCommit'
    BY <1>2, <1>4 DEF FreedAfterCommit
  <1>5. ASSUME \/ \E f \in TaskRuns : TaskFind(f) \/ TaskCheckPending(f)
               \/ ForceRecalculateContest
        PROVE  FreedAfterCommit'
    <2>1. PICK f \in Freezers, pc \in {"idle", "check", "select"} : SetFreeze(f, pc)
      BY <1>1, <1>5 DEF TaskFind, TaskCheckPending, ForceRecalculateContest
    <2>2. freeze'[f].pc = pc /\ \A g \in Freezers \ {f} : freeze'[g] = freeze[g]
      BY <1>1, <2>1, SetFreezeSets
    <2> QED
      BY <1>4, <2>2
  <1>6. ASSUME NEW f \in Freezers, FreezeCommit(f) PROVE FreedAfterCommit'
    <2>1. SetFreeze(f, "unlink") /\ frozen'
      BY <1>6 DEF FreezeCommit
    <2>2. \A g \in Freezers \ {f} : freeze'[g] = freeze[g]
      BY <1>1, <2>1, SetFreezeSets
    <2> QED
      BY <1>4, <2>1, <2>2
  <1>7. ASSUME NEW f \in Freezers, NEW r, freeze' = [freeze EXCEPT ![f] = r],
               r.pc # "unlink"
        PROVE  FreedAfterCommit'
    <2>1. freeze'[f] = r /\ \A g \in Freezers \ {f} : freeze'[g] = freeze[g]
      BY <1>1, <1>7 DEF FreezeOK
    <2> QED
      BY <1>4, <1>7, <2>1
  <1>8. ASSUME NEW f \in Freezers, FreezeSelect(f) PROVE FreedAfterCommit'
    <2> DEFINE r == [pc |-> "commit", standings |-> Standings]
    <2>1. freeze' = [freeze EXCEPT ![f] = r]
      BY <1>8 DEF FreezeSelect
    <2>2. r.pc # "unlink"
      OBVIOUS
    <2> HIDE DEF r
    <2> QED
      BY <1>7, <2>1, <2>2
  <1>9. ASSUME NEW f \in Freezers, FreezeUnlink(f) \/ FreezeFails(f)
        PROVE  FreedAfterCommit'
    <2>1. freeze' = [freeze EXCEPT ![f] = NoFreeze]
      BY <1>9 DEF FreezeUnlink, FreezeFails
    <2> QED
      BY <1>7, <2>1, NoFreezeTyped
  <1>10. ASSUME Crash PROVE FreedAfterCommit'
    <2>1. freeze' = [f \in Freezers |-> NoFreeze]
      BY <1>10 DEF Crash
    <2> QED
      BY <2>1, NoFreezeTyped DEF FreedAfterCommit
  <1>11. ASSUME \E s \in Submissions : Judge(s) \/ Rejudge(s) PROVE FreedAfterCommit'
    BY <1>3, <1>11 DEF Judge, Rejudge, Report, process
  <1>12. ASSUME \/ EndContest \/ UNCHANGED vars \/ AddScore
                \/ \E f \in TaskRuns : TaskFindsNothing(f)
                \/ \E m \in queue : ConsumeVerdict(m)
                \/ \E m \in handled : AckVerdict(m)
        PROVE  FreedAfterCommit'
    BY <1>3, <1>12 DEF EndContest, TaskFindsNothing, vars, ConsumeVerdict, AddScore,
       AckVerdict, process
  <1>13. ASSUME Recalculate PROVE FreedAfterCommit'
    BY <1>3, <1>13 DEF Recalculate, RecalcStart, RecalcSelect, RecalcApply, RecalcDone
  <1> QED
    BY <1>5, <1>6, <1>8, <1>9, <1>10, <1>11, <1>12, <1>13 DEF Next, Freeze

\* What one consumed verdict does to the metadata of its user.
Consumed(m, e, after) ==
    /\ m \in queue /\ m \in Rated \X Verdicts
    /\ m[1] \in Rated /\ m[1] \in Submissions /\ m[2] \in Verdicts
    /\ UserOf[m[1]] \in Users
    /\ queue' = queue \ {m} /\ unacked' = unacked \cup {m}
    /\ e.sub = m[1] /\ e.time = LiveTime[m[1]] /\ e.status = m[2]
    /\ after \in UserContestMetadata
    /\ after.processed \subseteq Known(metadata[UserOf[m[1]]]).processed \cup {m[1]}
    /\ Adds(after, Known(metadata[UserOf[m[1]]]), e)
    /\ metadata'[UserOf[m[1]]] = after
    /\ \A u \in Users \ {UserOf[m[1]]} : metadata'[u] = metadata[u]
    /\ UNCHANGED <<status, board, frozen, freeze>>
    /\ adds' \in Seq(AddCommands)
    /\ \A i \in DOMAIN adds' :
          adds'[i].user = UserOf[m[1]] \/ (i \in DOMAIN adds /\ adds'[i] = adds[i])

LEMMA ConsumeSteps ==
    ASSUME TypeInv, OnceInv, NEW m, ConsumeVerdict(m)
    PROVE  \E e, after : Consumed(m, e, after)
  <1> DEFINE e == Entry(m[1], LiveTime[m[1]], m[2])
             x == UserOf[m[1]]
  <1>1. /\ m \in queue /\ m \in Rated \X Verdicts
        /\ queue' = queue \ {m} /\ unacked' = unacked \cup {m}
        /\ ProcessLiveVerdict(e, m)
        /\ UNCHANGED <<status, frozen, freeze>>
    BY DEF ConsumeVerdict, TypeInv, RabbitOK, postgres
  <1>2. m[1] \in Rated /\ m[1] \in Submissions /\ m[2] \in Verdicts /\ x \in Users
    BY <1>1, LeaderboardAssumption
  <1>3. e \in Entries /\ e.sub = m[1] /\ e.time = LiveTime[m[1]] /\ e.status = m[2]
    BY <1>2, EntryTyped DEF Entry
  <1> HIDE DEF e
  <1>4. PICK after, add : VerdictDone(e, m, after, add)
    BY <1>1, <1>3, VerdictSteps
  <1>5. /\ after = UpdateUserState(metadata[x], e)
        /\ after \in UserContestMetadata
        /\ add.user = x
        /\ adds' \in Seq(AddCommands)
        /\ Len(adds) \in Nat
        /\ DOMAIN adds = 1..Len(adds)
        /\ DOMAIN adds' = 1..(Len(adds) + 1)
        /\ adds'[Len(adds) + 1] = add
        /\ \A i \in DOMAIN adds : adds'[i] = adds[i]
        /\ metadata'[x] = after
        /\ \A u \in Users \ {x} : metadata'[u] = metadata[u]
        /\ board' = board
    BY <1>3, <1>4 DEF VerdictDone
  <1>6. \A i \in DOMAIN adds' : i \in DOMAIN adds \/ i = Len(adds) + 1
    BY <1>5
  <1>7. \A i \in DOMAIN adds' :
           adds'[i].user = x \/ (i \in DOMAIN adds /\ adds'[i] = adds[i])
    BY <1>5, <1>6
  <1>8. metadata[x] \in UserContestMetadata \cup {Nil}
    BY <1>2 DEF TypeInv, RedisOK
  <1>9. Adds(after, Known(metadata[x]), e)
    BY <1>2, <1>3, <1>5, <1>8, UpdateTracked DEF OnceInv
  <1>10. after.processed \subseteq Known(metadata[x]).processed \cup {m[1]}
    <2>1. Known(metadata[x]) \in UserContestMetadata
          /\ (metadata[x] # Nil => Known(metadata[x]) = metadata[x])
      BY <1>8, KnownTyped
    <2>2. metadata[x] = Nil => Known(metadata[x]).processed = {}
      BY DEF Known, NoSubmissions
    <2>3. AppendEntry(Known(metadata[x]), e).processed =
             Known(metadata[x]).processed \cup {m[1]}
      BY <1>3, <2>1, AppendTyped
    <2> QED
      BY <1>5, <2>1, <2>2, <2>3 DEF UpdateUserState
  <1> HIDE DEF x
  <1>11. Consumed(m, e, after)
    BY <1>1, <1>2, <1>3, <1>5, <1>7, <1>9, <1>10 DEF Consumed, x
  <1> QED
    BY <1>11

\* A verdict is stored and perhaps published.
LEMMA ReportKeepsLive ==
    ASSUME TypeInv, LiveInv, NEW s \in Submissions, NEW v \in Verdicts, Report(s, v),
           s \notin Redelivered => status[s] = "QUEUE", FreedAfterCommit',
           frozen => frozen'
    PROVE  LiveInv'
  <1>1. /\ status' = [status EXCEPT ![s] = v]
        /\ \/ s \in Rated /\ queue' = queue \cup {<<s, v>>}
           \/ (s \notin Rated \/ "lost" \in Faults) /\ queue' = queue
        /\ UNCHANGED <<unacked, metadata, board, adds>>
    BY DEF Report, redis, process
  <1>2. /\ status'[s] = v
        /\ \A t \in Submissions \ {s} : status'[t] = status[t]
    BY <1>1 DEF TypeInv, PostgresOK
  <1>3. MessagesMatch'
    <2> SUFFICES ASSUME NEW m \in (queue \cup unacked)', m[1] \notin Redelivered
                 PROVE  status'[m[1]] = m[2]
      BY DEF MessagesMatch
    <2>1. CASE m \in queue \cup unacked
      <3>1. m[1] \in Submissions /\ m[2] \in Verdicts /\ status[m[1]] = m[2]
        BY <2>1, LeaderboardAssumption DEF LiveInv, MessagesMatch, TypeInv, RabbitOK
      <3>2. m[1] # s
        BY <3>1, VerdictIsFinal
      <3> QED
        BY <1>2, <3>1, <3>2
    <2>2. CASE m = <<s, v>>
      BY <1>2, <2>2
    <2> QED
      BY <1>1, <2>1, <2>2
  <1>4. EntriesMatch'
    <2> SUFFICES ASSUME NEW u \in Users, metadata[u] # Nil
                 PROVE  /\ metadata[u].processed \subseteq RatedRows(u)
                        /\ \A p \in Problems : \A i \in DOMAIN metadata[u].problems[p] :
                              EntryMatches(metadata[u].problems[p][i])'
      BY <1>1 DEF EntriesMatch
    <2>1. metadata[u] \in UserContestMetadata
      BY DEF TypeInv, RedisOK
    <2>2. ASSUME NEW p \in Problems, NEW i \in DOMAIN metadata[u].problems[p]
          PROVE  EntryMatches(metadata[u].problems[p][i])'
      <3> DEFINE e == metadata[u].problems[p][i]
      <3>1. EntryMatches(e)
        BY DEF LiveInv, EntriesMatch
      <3>2. e.sub \in Submissions
        <4>1. e \in Entries
          BY <2>1, MetadataFields
        <4> HIDE DEF e
        <4> QED
          BY <4>1, EntryFields
      <3>3. e.sub \notin Redelivered => e.sub # s
        BY <3>1, VerdictIsFinal DEF EntryMatches
      <3>4. metadata'[u].problems[p][i] = e
        BY <1>1
      <3> HIDE DEF e
      <3> QED
        BY <1>2, <3>1, <3>2, <3>3, <3>4 DEF EntryMatches
    <2> QED
      BY <2>2 DEF LiveInv, EntriesMatch
  <1>5. StoredOK'
    <2> SUFFICES ASSUME ~frozen', "lost" \notin Faults,
                        NEW t \in Rated \ Redelivered, status'[t] # "QUEUE"
                 PROVE  <<t, status'[t]>> \in queue' \/ Counted(t)'
      BY DEF StoredOK
    <2>1. CASE t = s
      BY <1>1, <1>2, <2>1
    <2>2. CASE t # s
      <3>1. status'[t] = status[t]
        BY <1>2, <2>2, LeaderboardAssumption
      <3>2. <<t, status[t]>> \in queue \/ Counted(t)
        BY <3>1 DEF LiveInv, StoredOK
      <3> QED
        BY <1>1, <3>1, <3>2 DEF Counted
    <2> QED
      BY <2>1, <2>2
  <1>6. PresentOK'
    BY <1>1 DEF LiveInv, PresentOK, OnBoard, RatedRows
  <1> QED
    BY <1>3, <1>4, <1>5, <1>6 DEF LiveInv

\* A verdict is taken from the queue and counted.
LEMMA ConsumeKeepsLive ==
    ASSUME TypeInv, OnceInv, LiveInv, NEW m, ConsumeVerdict(m), FreedAfterCommit',
           frozen => frozen'
    PROVE  LiveInv'
  <1> DEFINE x == UserOf[m[1]]
  <1>1. PICK e, after : Consumed(m, e, after)
    BY ConsumeSteps
  <1>2. /\ m \in queue /\ m[1] \in Rated /\ m[1] \in Submissions /\ m[2] \in Verdicts
        /\ x \in Users
        /\ queue' = queue \ {m} /\ unacked' = unacked \cup {m}
        /\ e.sub = m[1] /\ e.time = LiveTime[m[1]] /\ e.status = m[2]
        /\ after \in UserContestMetadata
        /\ after.processed \subseteq Known(metadata[x]).processed \cup {m[1]}
        /\ Adds(after, Known(metadata[x]), e)
        /\ metadata'[x] = after
        /\ \A u \in Users \ {x} : metadata'[u] = metadata[u]
        /\ status' = status /\ board' = board
        /\ \A i \in DOMAIN adds' :
              adds'[i].user = x \/ (i \in DOMAIN adds /\ adds'[i] = adds[i])
    BY <1>1 DEF Consumed
  <1> HIDE DEF x
  <1>3. after # Nil
    BY <1>2, NilIsNoMetadata
  <1>4. /\ metadata[x] # Nil => Known(metadata[x]) = metadata[x]
        /\ metadata[x] = Nil => Known(metadata[x]) = NoSubmissions
    BY DEF Known
  <1>5. /\ NoSubmissions.processed = {}
        /\ \A p \in Problems : DOMAIN NoSubmissions.problems[p] = {}
    BY DEF NoSubmissions
  <1>6. m[1] \in RatedRows(x)
    BY <1>2 DEF RatedRows, x
  <1>7. MessagesMatch'
    BY <1>2 DEF LiveInv, MessagesMatch
  <1>8. EntryMatches(e)'
    BY <1>2 DEF EntryMatches, LiveInv, MessagesMatch
  <1>9. ASSUME NEW u \in Users, metadata'[u] # Nil
        PROVE  /\ metadata'[u].processed \subseteq RatedRows(u)
               /\ \A p \in Problems : \A i \in DOMAIN metadata'[u].problems[p] :
                     EntryMatches(metadata[u].problems[p][i])'
    <2>1. CASE u # x
      BY <1>2, <1>9, <2>1 DEF LiveInv, EntriesMatch, EntryMatches
    <2>2. CASE u = x
      <3>1. metadata'[u].processed \subseteq RatedRows(u)
        BY <1>2, <1>4, <1>5, <1>6, <2>2 DEF LiveInv, EntriesMatch
      <3>2. ASSUME NEW p \in Problems, NEW i \in DOMAIN after.problems[p]
            PROVE  EntryMatches(metadata[u].problems[p][i])'
        <4>1. CASE after.problems[p][i] = e
          BY <1>2, <1>8, <2>2, <4>1 DEF EntryMatches
        <4>2. CASE /\ i \in DOMAIN Known(metadata[x]).problems[p]
                   /\ after.problems[p][i] = Known(metadata[x]).problems[p][i]
          <5>1. metadata[x] # Nil
            BY <1>4, <1>5, <4>2
          <5>2. EntryMatches(after.problems[p][i])
            BY <1>2, <1>4, <4>2, <5>1 DEF LiveInv, EntriesMatch
          <5> QED
            BY <1>2, <2>2, <5>2 DEF EntryMatches
        <4> QED
          BY <1>2, <4>1, <4>2 DEF Adds
      <3> QED
        BY <1>2, <2>2, <3>1, <3>2
    <2> QED
      BY <2>1, <2>2
  <1>10. EntriesMatch'
    BY <1>9 DEF EntriesMatch, RatedRows
  <1>11. StoredOK'
    <2> SUFFICES ASSUME ~frozen', "lost" \notin Faults,
                        NEW t \in Rated \ Redelivered, status'[t] # "QUEUE"
                 PROVE  <<t, status'[t]>> \in queue' \/ Counted(t)'
      BY DEF StoredOK
    <2>1. <<t, status[t]>> \in queue \/ Counted(t)
      BY <1>2 DEF LiveInv, StoredOK
    <2>2. CASE t = m[1]
      BY <1>2, <1>3, <2>2 DEF Counted, Adds, x
    <2>3. CASE t # m[1] /\ <<t, status[t]>> \in queue
      BY <1>2, <2>3
    <2>4. CASE Counted(t)
      <3>1. UserOf[t] \in Users
        BY LeaderboardAssumption
      <3>2. CASE UserOf[t] = x
        BY <1>2, <1>3, <1>4, <2>4, <3>2 DEF Counted, Adds
      <3>3. CASE UserOf[t] # x
        BY <1>2, <2>4, <3>1, <3>3 DEF Counted
      <3> QED
        BY <3>2, <3>3
    <2> QED
      BY <2>1, <2>2, <2>3, <2>4
  <1>12. PresentOK'
    <2>1. \A u \in Users \ {x} : OnBoard(u)' => OnBoard(u)
      BY <1>2 DEF OnBoard
    <2>2. ASSUME NEW u \in Users
          PROVE  /\ ~frozen' /\ OnBoard(u)' => metadata'[u] # Nil
                 /\ OnBoard(u)' \/ metadata'[u] # Nil => RatedRows(u) # {}
      <3>1. CASE u = x
        BY <1>2, <1>3, <1>6, <3>1
      <3>2. CASE u # x
        BY <1>2, <2>1, <3>2 DEF LiveInv, PresentOK
      <3> QED
        BY <3>1, <3>2
    <2> QED
      BY <2>2 DEF PresentOK, RatedRows
  <1> QED
    BY <1>7, <1>10, <1>11, <1>12 DEF LiveInv

\* The oldest zAdd runs.
LEMMA AddKeepsLive ==
    ASSUME TypeInv, LiveInv, AddScore, FreedAfterCommit', frozen => frozen'
    PROVE  LiveInv'
  <1>1. /\ Len(adds) \in Nat \ {0} /\ DOMAIN adds = 1..Len(adds)
        /\ DOMAIN adds' = 1..(Len(adds) - 1)
        /\ \A i \in 1..(Len(adds) - 1) : adds'[i] = adds[i + 1]
        /\ board' = [board EXCEPT ![adds[1].user] = adds[1].score]
        /\ UNCHANGED <<queue, unacked, metadata, postgres>>
    BY AddTyped
  <1>2. status' = status
    BY <1>1 DEF postgres
  <1>3. 1 \in DOMAIN adds /\ \A i \in DOMAIN adds' : i + 1 \in DOMAIN adds
    BY <1>1
  <1>4. ASSUME NEW u \in Users, OnBoard(u)' PROVE OnBoard(u)
    <2>1. CASE \E i \in DOMAIN adds' : adds'[i].user = u
      BY <1>1, <1>3, <2>1 DEF OnBoard
    <2>2. CASE board'[u] # Nil
      <3>1. board'[u] = IF u = adds[1].user THEN adds[1].score ELSE board[u]
        BY <1>1 DEF TypeInv, RedisOK
      <3> QED
        BY <1>3, <2>2, <3>1 DEF OnBoard
    <2> QED
      BY <1>4, <2>1, <2>2 DEF OnBoard
  <1>5. PresentOK'
    BY <1>1, <1>4 DEF LiveInv, PresentOK, RatedRows
  <1>6. MessagesMatch' /\ EntriesMatch' /\ StoredOK'
    BY <1>1, <1>2 DEF LiveInv, MessagesMatch, EntriesMatch, EntryMatches, StoredOK,
       Counted, RatedRows
  <1> QED
    BY <1>5, <1>6 DEF LiveInv

\* The keys are deleted, or nothing changes that concerns the live board.
LEMMA OthersKeepLive ==
    ASSUME TypeInv, LiveInv, FreedAfterCommit', frozen => frozen',
           \/ (\E f \in Freezers : FreezeUnlink(f)) /\ frozen'
           \/ NothingNew
    PROVE  LiveInv'
  <1>1. CASE (\E f \in Freezers : FreezeUnlink(f)) /\ frozen'
    <2>1. /\ \A u \in Users : metadata'[u] = Nil /\ board'[u] = Nil
          /\ UNCHANGED <<status, queue, unacked, adds>>
      BY <1>1 DEF FreezeUnlink, postgres, rabbit
    <2>2. MessagesMatch' /\ EntriesMatch' /\ StoredOK'
      BY <1>1, <2>1 DEF LiveInv, MessagesMatch, EntriesMatch, StoredOK
    <2>3. PresentOK'
      BY <1>1, <2>1 DEF LiveInv, PresentOK, OnBoard, RatedRows
    <2> QED
      BY <2>2, <2>3 DEF LiveInv
  <1>2. CASE NothingNew
    <2>1. \A u \in Users : OnBoard(u)' => OnBoard(u)
      <3>1. DOMAIN <<>> = {}
        OBVIOUS
      <3> QED
        BY <1>2, <3>1 DEF NothingNew, OnBoard
    <2>2. MessagesMatch' /\ EntriesMatch' /\ StoredOK'
      BY <1>2 DEF NothingNew, LiveInv, MessagesMatch, EntriesMatch, EntryMatches,
         StoredOK, Counted, RatedRows
    <2>3. PresentOK'
      BY <1>2, <2>1 DEF NothingNew, LiveInv, PresentOK, RatedRows
    <2> QED
      BY <2>2, <2>3 DEF LiveInv
  <1> QED
    BY <1>1, <1>2

LEMMA LiveStep ==
    ASSUME NoRecalculation, TypeInv, OnceInv, LiveInv, [Next]_vars
    PROVE  LiveInv'
  <1>1. FreedAfterCommit' /\ (frozen => frozen')
    BY FreedStep, FrozenStays DEF LiveInv
  <1>2. \A f \in Freezers : FreezeUnlink(f) => frozen'
    BY DEF FreezeUnlink, LiveInv, FreedAfterCommit, postgres
  <1>3. ASSUME NEW s \in Submissions, NEW v \in Verdicts, Report(s, v),
               s \notin Redelivered => status[s] = "QUEUE"
        PROVE  LiveInv'
    BY <1>1, <1>3, ReportKeepsLive
  <1>4. ASSUME NEW m, ConsumeVerdict(m) PROVE LiveInv'
    BY <1>1, <1>4, ConsumeKeepsLive
  <1> QED
    BY <1>1, <1>2, <1>3, <1>4, AddKeepsLive, OthersKeepLive, LiveSteps

LEMMA LiveAlways == ASSUME NoRecalculation PROVE Spec => []LiveInv
  BY LiveInit, LiveStep, TypeAlways, OnceAlways, PTL DEF Spec

\* Before the freeze a user none of whose verdicts is under way has every
\* stored verdict on the live board, with the status of its row: a verdict that
\* is redelivered, or whose consumer died, is neither lost nor changed
\* (_lua.ts:12-38, rabbitmq.task.ts:34-46). The engine has to publish what it
\* stores, and no recalculation deletes the user's metadata meanwhile.
THEOREM LiveBoardIsComplete ==
    ASSUME NoRecalculation, "lost" \notin Faults
    PROVE  Spec => []LiveMatchesRows
  <1>1. ASSUME TypeInv, OnceInv, LiveInv PROVE LiveMatchesRows
    <2> SUFFICES ASSUME ~frozen, NEW s \in Rated \ Redelivered,
                        status[s] # "QUEUE", Quiet(UserOf[s])
                 PROVE  /\ metadata[UserOf[s]] # Nil
                        /\ LET entries == metadata[UserOf[s]].problems[ProblemOf[s]] IN
                           \E i \in DOMAIN entries :
                              entries[i].sub = s /\ entries[i].status = status[s]
      BY DEF LiveMatchesRows
    <2>1. <<s, status[s]>> \notin queue
      BY DEF Quiet
    <2>2. Counted(s)
      BY <1>1, <2>1 DEF LiveInv, StoredOK
    <2>3. UserOf[s] \in Users /\ ProblemOf[s] \in Problems
      BY LeaderboardAssumption
    <2>4. PICK i \in DOMAIN metadata[UserOf[s]].problems[ProblemOf[s]] :
              metadata[UserOf[s]].problems[ProblemOf[s]][i].sub = s
      BY <1>1, <2>2, <2>3 DEF Counted, OnceInv, Tracked
    <2> QED
      BY <1>1, <2>2, <2>3, <2>4 DEF Counted, LiveInv, EntriesMatch, EntryMatches
  <1> QED
    BY <1>1, LiveAlways, TypeAlways, OnceAlways, PTL

----------------------------------------------------------------------------
(* The freeze writes what the live board shows.                            *)

\* A user's runs on one problem have different seconds in their messages, and
\* come in the order of the rows; the seconds of the rows may be equal.
RunsInOrder ==
    \A s, t \in Rated :
        UserOf[s] = UserOf[t] /\ ProblemOf[s] = ProblemOf[t] /\ s < t
            => LiveTime[s] < LiveTime[t] /\ RowTime[s] <= RowTime[t]

\* The live entry of a submission.
LiveEntry(s) == Entry(s, LiveTime[s], status[s])

\* The rated rows of a user on a problem.
RowsOf(u, p) == {s \in RatedRows(u) : ProblemOf[s] = p}

\* The live entries of a problem are those of its rows, in another order.
LEMMA LiveRunsAreRows ==
    ASSUME RunsInOrder, TypeInv, OnceInv, EntriesMatch,
           Redelivered = {}, NEW u \in Users, metadata[u] # Nil,
           metadata[u].processed = RatedRows(u), NEW p \in Problems,
           NEW b \in Seq(Entries),
           \A i \in DOMAIN b : b[i].sub \in RowsOf(u, p) /\ b[i] = LiveEntry(b[i].sub),
           \A i, j \in DOMAIN b : b[i].sub = b[j].sub => i = j,
           \A s \in RowsOf(u, p) : \E i \in DOMAIN b : b[i].sub = s
    PROVE  Detail(metadata[u].problems[p]) = Detail(b)
  <1> DEFINE a == metadata[u].problems[p]
             rows == RowsOf(u, p)
  <1>1. metadata[u] \in UserContestMetadata /\ Tracked(metadata[u])
    BY DEF TypeInv, RedisOK, OnceInv
  <1>2. a \in Seq(Entries)
    BY <1>1, MetadataFields
  <1>3. \A s \in rows : /\ s \in Rated /\ s \in Nat
                        /\ UserOf[s] = u /\ ProblemOf[s] = p
    BY LeaderboardAssumption DEF RatedRows, RowsOf
  <1>4. \A i \in DOMAIN a : a[i].sub \in rows
    BY <1>1 DEF Tracked, RatedRows, RowsOf
  <1>5. ASSUME NEW i \in DOMAIN a PROVE a[i] = LiveEntry(a[i].sub)
    <2>1. a[i] \in Entries
      BY <1>2
    <2>2. a[i] = Entry(a[i].sub, a[i].time, a[i].status)
      BY <2>1, EntryFields
    <2>3. EntryMatches(a[i])
      BY DEF EntriesMatch
    <2>4. a[i].time = LiveTime[a[i].sub] /\ a[i].status = status[a[i].sub]
      BY <2>3 DEF EntryMatches
    <2> QED
      BY <2>2, <2>4 DEF LiveEntry
  <1>6. \A s \in rows : \E i \in DOMAIN a : a[i].sub = s
    BY <1>1, <1>3 DEF Tracked, RatedRows, RowsOf
  <1>7. \A i, j \in DOMAIN a : a[i].sub = a[j].sub => i = j
    BY <1>1 DEF Tracked
  <1>8. \A s, t \in rows : LiveEntry(s).time = LiveEntry(t).time => s = t
    <2> SUFFICES ASSUME NEW s \in rows, NEW t \in rows, LiveTime[s] = LiveTime[t]
                 PROVE  s = t
      BY DEF LiveEntry, Entry
    <2>1. LiveTime[s] \in Nat /\ LiveTime[t] \in Nat
      BY <1>3, LeaderboardAssumption
    <2>2. ~(s < t) /\ ~(t < s)
      BY <1>3, <2>1 DEF RunsInOrder
    <2> QED
      BY <1>3, <2>2
  <1> HIDE DEF a
  <1>9. \A i, j \in DOMAIN a : a[i].time = a[j].time => i = j
    <2> SUFFICES ASSUME NEW i \in DOMAIN a, NEW j \in DOMAIN a, a[i].time = a[j].time
                 PROVE  i = j
      OBVIOUS
    <2>1. LiveEntry(a[i].sub).time = LiveEntry(a[j].sub).time
      BY <1>5
    <2> QED
      BY <1>4, <1>7, <1>8, <2>1
  <1>10. \A i, j \in DOMAIN b : b[i].time = b[j].time => i = j
    <2> SUFFICES ASSUME NEW i \in DOMAIN b, NEW j \in DOMAIN b, b[i].time = b[j].time
                 PROVE  i = j
      OBVIOUS
    <2>1. LiveEntry(b[i].sub).time = LiveEntry(b[j].sub).time
      OBVIOUS
    <2> QED
      BY <1>8, <2>1
  <1>11. \A i \in DOMAIN a : \E j \in DOMAIN b : b[j] = a[i]
    <2> SUFFICES ASSUME NEW i \in DOMAIN a PROVE \E j \in DOMAIN b : b[j] = a[i]
      OBVIOUS
    <2>1. PICK j \in DOMAIN b : b[j].sub = a[i].sub
      BY <1>4
    <2> QED
      BY <1>5, <2>1
  <1>12. \A j \in DOMAIN b : \E i \in DOMAIN a : a[i] = b[j]
    <2> SUFFICES ASSUME NEW j \in DOMAIN b PROVE \E i \in DOMAIN a : a[i] = b[j]
      OBVIOUS
    <2>1. PICK i \in DOMAIN a : a[i].sub = b[j].sub
      BY <1>6
    <2> QED
      BY <1>5, <2>1
  <1>13. Detail(a) = Detail(b)
    BY <1>2, <1>9, <1>10, <1>11, <1>12, EntriesTimed, SameRunsSameDetail
  <1> QED
    BY <1>13 DEF a

\* A problem on the live board and in the rows: the same runs count, and only
\* the clock of the accepted one differs.
LEMMA LiveDetailIsRowDetail ==
    ASSUME RunsInOrder, TypeInv, OnceInv, EntriesMatch,
           Redelivered = {}, NEW u \in Users, metadata[u] # Nil,
           metadata[u].processed = RatedRows(u), NEW p \in Problems,
           NEW list, list = RowsByProblem(u)[p]
    PROVE  /\ list \in Seq(Entries)
           /\ Shifted(Detail(metadata[u].problems[p]), Detail(list), ClockDrift)
  <1> DEFINE rows == RowsOf(u, p)
             b == [i \in DOMAIN list |-> LiveEntry(list[i].sub)]
             D == DOMAIN list
  <1>1. /\ rows \in SUBSET Submissions
        /\ \A s \in rows : /\ s \in Rated /\ s \in Submissions /\ s \in Nat
                           /\ UserOf[s] = u /\ ProblemOf[s] = p
        /\ DOMAIN status = Submissions
        /\ \A s \in Submissions : status[s] \in Verdicts \cup {"QUEUE"}
    BY LeaderboardAssumption DEF RatedRows, RowsOf, TypeInv, PostgresOK
  <1>2. list = AsCreated(rows)
    BY DEF RowsByProblem, RowsOf
  <1> HIDE DEF rows
  <1>3. /\ list \in Seq(Entries)
        /\ \A i \in D : /\ list[i].sub \in rows
                        /\ list[i] = Entry(list[i].sub, RowTime[list[i].sub],
                                           status[list[i].sub])
        /\ \A i, j \in D : list[i].sub = list[j].sub => i = j
        /\ \A s \in rows : \E i \in D : list[i].sub = s
        /\ \A i, j \in D : i < j => list[i].sub < list[j].sub
    BY <1>1, <1>2, RowsListed
  <1>4. D = 1..Len(list) /\ Len(list) \in Nat
    BY <1>3
  <1>5. ASSUME NEW s \in rows
        PROVE  /\ LiveEntry(s) \in Entries /\ LiveEntry(s).sub = s
               /\ LiveEntry(s).time = LiveTime[s] /\ LiveEntry(s).status = status[s]
               /\ LiveTime[s] \in Nat /\ RowTime[s] \in Nat
               /\ RowTime[s] - LiveTime[s] \in -ClockDrift..ClockDrift
    <2>1. s \in Submissions /\ status[s] \in Verdicts \cup {"QUEUE"}
      BY <1>1
    <2>2. LiveEntry(s) \in Entries
      BY <2>1, EntryTyped DEF LiveEntry
    <2>3. LiveTime[s] - RowTime[s] \in -ClockDrift..ClockDrift /\ ClockDrift \in Nat
          /\ LiveTime[s] \in Nat /\ RowTime[s] \in Nat
      BY <2>1, LeaderboardAssumption
    <2>4. RowTime[s] - LiveTime[s] \in -ClockDrift..ClockDrift
      BY <2>3
    <2> QED
      BY <2>2, <2>3, <2>4 DEF LiveEntry, Entry
  <1>6. /\ DOMAIN b = DOMAIN list
        /\ \A i \in DOMAIN list : b[i] = LiveEntry(list[i].sub)
        /\ b = [i \in 1..Len(list) |-> b[i]]
    BY <1>4
  <1> HIDE DEF b
  <1>7. ASSUME NEW i \in D
        PROVE  /\ b[i] \in Entries /\ b[i].sub = list[i].sub
               /\ b[i] = LiveEntry(b[i].sub) /\ b[i].sub \in rows
               /\ list[i].status = b[i].status
               /\ b[i].time = LiveTime[list[i].sub]
               /\ list[i].time = RowTime[list[i].sub]
               /\ b[i].time \in Nat /\ list[i].time \in Nat
    <2>1. /\ list[i].sub \in rows
          /\ list[i] = Entry(list[i].sub, RowTime[list[i].sub], status[list[i].sub])
      BY <1>3
    <2>2. b[i] = LiveEntry(list[i].sub)
      BY <1>6
    <2>3. /\ list[i].time = RowTime[list[i].sub]
          /\ list[i].status = status[list[i].sub]
      BY <2>1 DEF Entry
    <2> QED
      BY <1>5, <2>1, <2>2, <2>3
  <1>8. b \in Seq(Entries)
    <2>1. \A i \in 1..Len(list) : b[i] \in Entries
      BY <1>4, <1>7
    <2>2. [i \in 1..Len(list) |-> b[i]] \in Seq(Entries)
      BY ONLY <1>4, <2>1
    <2> QED
      BY ONLY <1>6, <2>2
  <1>9. Detail(metadata[u].problems[p]) = Detail(b)
    <2>1. \A i \in DOMAIN b : b[i].sub \in rows /\ b[i] = LiveEntry(b[i].sub)
      BY <1>6, <1>7
    <2>2. \A i, j \in DOMAIN b : b[i].sub = b[j].sub => i = j
      <3> SUFFICES ASSUME NEW i \in D, NEW j \in D, b[i].sub = b[j].sub PROVE i = j
        BY <1>6
      <3>1. list[i].sub = list[j].sub
        BY <1>7
      <3> QED
        BY <1>3, <3>1
    <2>3. \A s \in rows : \E i \in DOMAIN b : b[i].sub = s
      <3> SUFFICES ASSUME NEW s \in rows PROVE \E i \in DOMAIN b : b[i].sub = s
        OBVIOUS
      <3>1. PICK i \in D : list[i].sub = s
        BY <1>3
      <3> QED
        BY <1>6, <1>7, <3>1
    <2> QED
      BY <1>8, <2>1, <2>2, <2>3, LiveRunsAreRows DEF rows
  <1>10. \A i \in D : list[i].status = b[i].status
    BY <1>7
  <1>11. \A i \in D : /\ b[i].time = LiveTime[list[i].sub]
                      /\ list[i].time = RowTime[list[i].sub]
                      /\ b[i].time \in Nat /\ list[i].time \in Nat
    BY <1>7
  <1>12. \A i \in D : list[i].time - b[i].time \in -ClockDrift..ClockDrift
    <2> SUFFICES ASSUME NEW i \in D
                 PROVE  list[i].time - b[i].time \in -ClockDrift..ClockDrift
      OBVIOUS
    <2>1. list[i].sub \in rows
      BY <1>3
    <2>2. RowTime[list[i].sub] - LiveTime[list[i].sub] \in -ClockDrift..ClockDrift
      BY <1>5, <2>1
    <2> QED
      BY <1>11, <2>2
  <1>13. ASSUME NEW i \in D, NEW j \in D, i < j
         PROVE  b[i].time < b[j].time /\ list[i].time <= list[j].time
    <2>1. list[i].sub < list[j].sub /\ list[i].sub \in rows /\ list[j].sub \in rows
      BY <1>3, <1>13
    <2>2. /\ LiveTime[list[i].sub] < LiveTime[list[j].sub]
          /\ RowTime[list[i].sub] <= RowTime[list[j].sub]
      BY <1>1, <2>1 DEF RunsInOrder
    <2> QED
      BY <1>11, <2>2
  <1>14. \A i, j \in D : Precedes(b, i, j) <=> Precedes(list, i, j)
    <2> SUFFICES ASSUME NEW i \in D, NEW j \in D
                 PROVE  Precedes(b, i, j) <=> Precedes(list, i, j)
      OBVIOUS
    <2>1. i \in Nat /\ j \in Nat
      BY <1>4
    <2>2. CASE i < j
      BY <1>11, <1>13, <2>1, <2>2 DEF Precedes
    <2>3. CASE j < i
      BY <1>11, <1>13, <2>1, <2>3 DEF Precedes
    <2>4. CASE i = j
      BY <1>11, <2>1, <2>4 DEF Precedes
    <2> QED
      BY <2>1, <2>2, <2>3, <2>4
  <1>15. Shifted(Detail(b), Detail(list), ClockDrift)
    <2>1. DOMAIN b = DOMAIN list /\ ClockDrift \in Nat
      BY <1>6, LeaderboardAssumption DEF D
    <2> QED
      BY <1>3, <1>6, <1>8, <1>10, <1>12, <1>14, <2>1, EntriesTimed,
         ShiftedRunsShiftedDetail
  <1> QED
    BY <1>3, <1>9, <1>15

\* When the first transaction commits, everybody none of whose verdicts is under
\* way gets into contest_results the score that the live board shows, up to the
\* difference of the two clocks at each accepted run: two computations, one over
\* the hash that the script fills in the order of arrival and one over the rows
\* in the order of creation, count the same runs (redis.service.ts:18-42,
\* freeze.service.ts:21-77). Any number of runs of the task may overlap. The
\* clocks must order a user's runs on one problem alike, every verdict must be
\* published, and nobody may force a freeze or a recalculation.
THEOREM FreezeWritesTheBoard ==
    ASSUME OnlyTheTask, NoRecalculation, "lost" \notin Faults, RunsInOrder
    PROVE  Spec => FreezeKeepsScores
  <1>1. ASSUME TypeInv, OnceInv, FrozenInv, ScoreFollowsMetadata, LiveInv,
               [Next]_vars, ~frozen, frozen'
        PROVE  \E f \in TaskRuns : FreezeCommit(f)
    <2>1. ASSUME ~(\E f \in Freezers : FreezeCommit(f)) PROVE frozen' = frozen
      BY <1>1, <2>1 DEF Next, vars, postgres, Judge, Rejudge, Report, EndContest,
         ConsumeVerdict, AddScore, AckVerdict, Recalculate, RecalcStart, RecalcSelect,
         RecalcApply, RecalcDone, TaskFind, TaskFindsNothing, TaskCheckPending,
         ForceRecalculateContest, Freeze, FreezeSelect, FreezeUnlink, FreezeFails, Crash
    <2> QED
      BY <1>1, <2>1 DEF Freezers, FreezeCommit, FrozenInv
  <1>2. ASSUME TypeInv, OnceInv, FrozenInv, ScoreFollowsMetadata, LiveInv,
               ~frozen, NEW f \in TaskRuns, FreezeCommit(f),
               NEW u \in Users, Quiet(u), board[u] # Nil
        PROVE  results'[u] # Nil /\ results'[u] - board[u] \in -Drift(u)..Drift(u)
    <2> DEFINE live == metadata[u].problems
               rows == RowsByProblem(u)
    <2>1. AllJudged /\ results' = Standings
      BY <1>2 DEF FreezeCommit, FrozenInv, FreezesRows
    <2>2. metadata[u] # Nil /\ RatedRows(u) # {}
      BY <1>2 DEF LiveInv, PresentOK, OnBoard
    <2>3. board[u] = computeUserScores(live).score
      BY <1>2, <2>2 DEF ScoreFollowsMetadata, Score
    <2>4. results'[u] = computeUserScores(rows).score /\ results'[u] # Nil
      <3>1. Standings[u] # Nil
        BY <1>2, <2>2, StandingsTyped DEF TypeInv, PostgresOK
      <3> QED
        BY <2>1, <2>2, <3>1 DEF Standings
    <2>5. ASSUME NEW s \in RatedRows(u) PROVE s \in metadata[u].processed
      <3>1. s \in Rated \ Redelivered /\ UserOf[s] = u /\ s \in Submissions
        BY LeaderboardAssumption DEF RatedRows, OnlyTheTask
      <3>2. status[s] # "QUEUE"
        BY <2>1, <3>1 DEF AllJudged
      <3>3. <<s, status[s]>> \notin queue
        BY <1>2, <3>1 DEF Quiet
      <3> QED
        BY <1>2, <3>1, <3>2, <3>3 DEF LiveInv, StoredOK, Counted
    <2>6. metadata[u].processed = RatedRows(u)
      BY <1>2, <2>2, <2>5 DEF LiveInv, EntriesMatch
    <2>7. /\ DOMAIN live = Problems /\ DOMAIN rows = Problems
          /\ metadata[u] \in UserContestMetadata
      BY <1>2, <2>2, MetadataFields DEF TypeInv, RedisOK, RowsByProblem
    <2>8. ASSUME NEW p \in Problems
          PROVE  /\ live[p] \in Seq(Entries) /\ rows[p] \in Seq(Entries)
                 /\ Shifted(Detail(live[p]), Detail(rows[p]), ClockDrift)
      <3>1. live[p] \in Seq(Entries)
        BY <2>7, MetadataFields
      <3> QED
        BY <1>2, <2>2, <2>6, <3>1, LiveDetailIsRowDetail DEF LiveInv, OnlyTheTask
    <2>9. Drift(u) = ClockDrift * computeUserScores(live).solved
      BY DEF Drift
    <2>10. IsFiniteSet(DOMAIN live) /\ ClockDrift \in Nat
      BY <2>7, LeaderboardAssumption
    <2> HIDE DEF live, rows
    <2>11. computeUserScores(rows).score - computeUserScores(live).score
             \in -Drift(u)..Drift(u)
      BY <2>7, <2>8, <2>9, <2>10, EntriesTimed, ShiftedDetailsShiftScore
    <2> QED
      BY <2>3, <2>4, <2>11
  <1>3. ASSUME TypeInv, OnceInv, FrozenInv, ScoreFollowsMetadata, LiveInv, [Next]_vars
        PROVE  ~frozen /\ frozen' =>
                  \A u \in Users : Quiet(u) /\ board[u] # Nil =>
                      /\ results'[u] # Nil
                      /\ results'[u] - board[u] \in -Drift(u)..Drift(u)
    BY <1>1, <1>2, <1>3
  <1>4. CrashSpares
    BY DEF CrashSpares, NoRecalculation
  <1> QED
    BY <1>3, <1>4, TypeAlways, OnceAlways, FrozenAlways, BoardFollowsMetadata,
       LiveAlways, PTL DEF Spec, FreezeKeepsScores

----------------------------------------------------------------------------
(* The requests that read beside the writers.                              *)

\* Every user with a row has a standing in a frozen contest, and in the
\* standings a freeze is about to write.
Complete(standings) ==
    \A u \in Users : RatedRows(u) # {} => standings[u] # Nil

ResultsInv ==
    /\ \A f \in Freezers : freeze[f].pc = "commit" => Complete(freeze[f].standings)
    /\ frozen => Complete(results)

LEMMA ResultsStep ==
    ASSUME TypeInv, ResultsInv, [Next]_vars
    PROVE  ResultsInv'
  <1>1. FreezeOK /\ TaskRuns \subseteq Freezers /\ "route" \in Freezers
    BY DEF TypeInv, Freezers
  <1>2. Complete(Standings)
    BY StandingsTyped DEF Complete, TypeInv, PostgresOK
  <1>3. ASSUME UNCHANGED <<freeze, frozen, results>> PROVE ResultsInv'
    BY <1>3 DEF ResultsInv, Complete, RatedRows
  <1>4. ASSUME NEW f \in Freezers, NEW pc \in {"idle", "check", "select"},
               SetFreeze(f, pc), UNCHANGED <<frozen, results>>
        PROVE  ResultsInv'
    <2>1. freeze'[f].pc = pc /\ \A g \in Freezers \ {f} : freeze'[g] = freeze[g]
      BY <1>1, <1>4, SetFreezeSets
    <2> QED
      BY <1>4, <2>1 DEF ResultsInv, Complete, RatedRows
  <1>5. ASSUME \/ \E f \in TaskRuns : TaskFind(f) \/ TaskCheckPending(f)
               \/ ForceRecalculateContest
        PROVE  ResultsInv'
    <2>1. \E f \in Freezers, pc \in {"idle", "check", "select"} : SetFreeze(f, pc)
      BY <1>1, <1>5 DEF TaskFind, TaskCheckPending, ForceRecalculateContest
    <2>2. UNCHANGED <<frozen, results>>
      BY <1>5 DEF TaskFind, TaskCheckPending, ForceRecalculateContest, postgres
    <2> QED
      BY <1>4, <2>1, <2>2
  <1>6. ASSUME NEW f \in Freezers, FreezeCommit(f) PROVE ResultsInv'
    <2>1. /\ SetFreeze(f, "unlink") /\ freeze[f].pc = "commit"
          /\ results' = freeze[f].standings
      BY <1>6 DEF FreezeCommit
    <2>2. freeze'[f].pc = "unlink" /\ \A g \in Freezers \ {f} : freeze'[g] = freeze[g]
      BY <1>1, <2>1, SetFreezeSets
    <2> QED
      BY <2>1, <2>2 DEF ResultsInv, Complete, RatedRows
  <1>7. ASSUME NEW f \in Freezers, NEW r, freeze' = [freeze EXCEPT ![f] = r],
               r.pc = "commit" => Complete(r.standings), UNCHANGED <<frozen, results>>
        PROVE  ResultsInv'
    <2>1. freeze'[f] = r /\ \A g \in Freezers \ {f} : freeze'[g] = freeze[g]
      BY <1>1, <1>7 DEF FreezeOK
    <2> QED
      BY <1>7, <2>1 DEF ResultsInv, Complete, RatedRows
  <1>8. ASSUME NEW f \in Freezers, FreezeSelect(f) PROVE ResultsInv'
    <2> DEFINE r == [pc |-> "commit", standings |-> Standings]
    <2>1. freeze' = [freeze EXCEPT ![f] = r] /\ UNCHANGED <<frozen, results>>
      BY <1>8 DEF FreezeSelect, postgres
    <2>2. r.standings = Standings
      OBVIOUS
    <2> HIDE DEF r
    <2> QED
      BY <1>2, <1>7, <2>1, <2>2
  <1>9. ASSUME NEW f \in Freezers, FreezeUnlink(f) \/ FreezeFails(f) PROVE ResultsInv'
    <2>1. freeze' = [freeze EXCEPT ![f] = NoFreeze] /\ UNCHANGED <<frozen, results>>
      BY <1>9 DEF FreezeUnlink, FreezeFails, postgres
    <2> QED
      BY <1>7, <2>1, NoFreezeTyped
  <1>10. ASSUME Crash PROVE ResultsInv'
    <2>1. freeze' = [f \in Freezers |-> NoFreeze] /\ UNCHANGED <<frozen, results>>
      BY <1>10 DEF Crash, postgres
    <2> QED
      BY <2>1, NoFreezeTyped DEF ResultsInv, Complete, RatedRows
  <1>11. CASE \/ EndContest \/ UNCHANGED vars \/ AddScore
              \/ \E f \in TaskRuns : TaskFindsNothing(f)
              \/ \E s \in Submissions : Judge(s) \/ Rejudge(s)
              \/ \E m \in queue : ConsumeVerdict(m)
              \/ \E m \in handled : AckVerdict(m)
    BY <1>3, <1>11 DEF EndContest, TaskFindsNothing, vars, ConsumeVerdict, AddScore,
       AckVerdict, postgres, process, Judge, Rejudge, Report
  <1>12. CASE Recalculate
    BY <1>3, <1>12 DEF Recalculate, RecalcStart, RecalcSelect, RecalcApply,
       RecalcDone, postgres
  <1> QED
    BY <1>5, <1>6, <1>8, <1>9, <1>10, <1>11, <1>12 DEF Next, Freeze

\* Without recalculations only the unlink takes metadata away.
LEMMA MetadataStays ==
    ASSUME NoRecalculation, TypeInv, OnceInv, LiveInv, [Next]_vars
    PROVE  \/ \A u \in Users : metadata[u] # Nil => metadata'[u] # Nil
           \/ frozen /\ frozen'
  <1>1. ASSUME NEW m, ConsumeVerdict(m)
        PROVE  \A u \in Users : metadata[u] # Nil => metadata'[u] # Nil
    <2>1. PICK e, after : Consumed(m, e, after)
      BY <1>1, ConsumeSteps
    <2> QED
      BY <2>1, NilIsNoMetadata DEF Consumed
  <1>2. ASSUME NEW f \in Freezers, FreezeUnlink(f) PROVE frozen /\ frozen'
    BY <1>2 DEF FreezeUnlink, postgres, LiveInv, FreedAfterCommit
  <1>3. CASE AddScore
    BY <1>3 DEF AddScore
  <1>4. ASSUME NEW s \in Submissions, NEW v \in Verdicts, Report(s, v)
        PROVE  metadata' = metadata
    BY <1>4 DEF Report, redis
  <1>5. CASE NothingNew
    BY <1>5 DEF NothingNew
  <1> QED
    BY <1>1, <1>2, <1>3, <1>4, <1>5, LiveSteps

\* A page lists users that have a value.
LEMMA DescendingTyped ==
    ASSUME NEW f \in [Users -> Int \cup {Nil}], NEW list, list = Descending(f)
    PROVE  list \in Seq({u \in Users : f[u] # Nil})
  <1> DEFINE U == {u \in Users : f[u] # Nil}
             Order == {uv \in U \X U : f[uv[1]] >= f[uv[2]]}
             Ordered(seq) == \A i, j \in DOMAIN seq : i < j => f[seq[i]] >= f[seq[j]]
  <1>1. IsFiniteSet(U) /\ \A u \in U : f[u] \in Int
    BY LeaderboardAssumption, FS_Subset
  <1>2. \A u, v \in U : <<u, v>> \in Order <=> f[u] >= f[v]
    OBVIOUS
  <1>3. IsTotal(Order, U)
    <2> HIDE DEF Order, U
    <2> QED
      BY <1>1, <1>2 DEF IsTotal
  <1>4. PICK seq \in SetToSeqs(U) :
            \A i, j \in DOMAIN seq : i < j => <<seq[i], seq[j]>> \in Order
    BY <1>1, <1>3, OrderExists
  <1>5. seq \in Seq(U)
    BY <1>1, SeqOfSet
  <1>6. \A i \in DOMAIN seq : seq[i] \in U
    BY <1>5
  <1>7. Ordered(seq)
    <2> HIDE DEF Order, U
    <2> QED
      BY <1>2, <1>4, <1>6
  <1>8. list \in SetToSeqs(U)
    BY <1>7 DEF Descending, InOrder
  <1> HIDE DEF U
  <1>9. list \in Seq(U)
    BY <1>1, <1>8, SeqOfSet
  <1> QED
    BY <1>9 DEF U

\* A record with its fields.
PageOK == page = [pc |-> page.pc, users |-> page.users, answer |-> page.answer]
RowOK  == row = [pc |-> row.pc, user |-> row.user, rank |-> row.rank,
                 answer |-> row.answer]

\* The users a page request is about to look up have metadata, until the freeze.
PageInv ==
    /\ PageOK
    /\ page.pc = "metadata" /\ ~frozen =>
          \A i \in DOMAIN page.users :
             page.users[i] \in Users /\ metadata[page.users[i]] # Nil
    /\ page.pc = "failed" => frozen

\* A row request that found a rank is answered from the metadata, or from the
\* database once that has the results.
RowInv ==
    /\ RowOK
    /\ row.pc = "metadata" => /\ row.user \in Users /\ RatedRows(row.user) # {}
                              /\ ~frozen => metadata[row.user] # Nil
    /\ row.pc = "db" /\ row.rank \notin {Nil, 0} =>
          row.user \in Users /\ RatedRows(row.user) # {} /\ frozen
    /\ row.pc = "none" => row.rank \in {Nil, 0}

WritersInv == TypeInv /\ OnceInv /\ LiveInv /\ ResultsInv

ReadersInv == PageInv /\ RowInv

\* The requests only read.
LEMMA PagesOnlyRead ==
    ASSUME [PagesNext]_<<vars, reads>>
    PROVE  /\ [Next]_vars
           /\ \/ UNCHANGED reads
              \/ UNCHANGED vars /\ (Page \/ Row)
  BY DEF PagesNext, Page, Row, PageRange, PageMetadata, PageFromDB, PageEnd,
     RowRank, RowMetadata, RowFromDB, RowEnd

LEMMA WritersKeepReaders ==
    ASSUME NoRecalculation, WritersInv, ReadersInv, [Next]_vars, UNCHANGED reads
    PROVE  ReadersInv'
  <1>1. /\ frozen => frozen'
        /\ \/ \A u \in Users : metadata[u] # Nil => metadata'[u] # Nil
           \/ frozen'
    BY MetadataStays, FrozenStays DEF WritersInv
  <1>2. page' = page /\ row' = row
    BY DEF reads
  <1>3. PageInv'
    BY <1>1, <1>2 DEF ReadersInv, PageInv, PageOK
  <1>4. RowInv'
    BY <1>1, <1>2 DEF ReadersInv, RowInv, RowOK, RatedRows
  <1> QED
    BY <1>3, <1>4 DEF ReadersInv

\* Whoever is on the board has rows, and has metadata until the freeze.
LEMMA OnBoardMeans ==
    ASSUME WritersInv, NEW u \in Users, board[u] # Nil
    PROVE  RatedRows(u) # {} /\ (~frozen => metadata[u] # Nil)
  BY DEF WritersInv, LiveInv, PresentOK, OnBoard

LEMMA PageKeepsReaders ==
    ASSUME WritersInv, ReadersInv, UNCHANGED vars, Page
    PROVE  ReadersInv'
  <1>1. UNCHANGED <<row, frozen, metadata, results>>
    BY DEF Page, PageRange, PageMetadata, PageFromDB, PageEnd, vars, postgres, redis
  <1>2. RowInv'
    BY <1>1 DEF ReadersInv, RowInv, RowOK, RatedRows
  <1>3. PageOK
    BY DEF ReadersInv, PageInv
  <1>4. CASE PageRange
    <2> DEFINE list == Descending(board)
    <2>1. list \in Seq({u \in Users : board[u] # Nil})
      BY DescendingTyped DEF WritersInv, TypeInv, RedisOK
    <2>2. page' = [page EXCEPT !.pc = IF list = <<>> THEN "db" ELSE "metadata",
                               !.users = list]
      BY <1>4 DEF PageRange
    <2> HIDE DEF list
    <2>3. \A i \in DOMAIN list : list[i] \in Users /\ board[list[i]] # Nil
      BY <2>1
    <2>4. page' = [pc |-> IF list = <<>> THEN "db" ELSE "metadata",
                   users |-> list, answer |-> page.answer]
      BY <1>3, <2>2 DEF PageOK
    <2>5. \A i \in DOMAIN list :
             list[i] \in Users /\ (~frozen => metadata[list[i]] # Nil)
      BY <2>3, OnBoardMeans
    <2>6. PageInv'
      BY <1>1, <2>4, <2>5 DEF PageInv, PageOK
    <2> QED
      BY <1>2, <2>6 DEF ReadersInv
  <1>5. ASSUME PageMetadata PROVE PageInv'
    <2>1. page.pc = "metadata"
      BY <1>5 DEF PageMetadata
    <2>2. CASE \E i \in DOMAIN page.users : metadata[page.users[i]] = Nil
      <3>1. page' = [page EXCEPT !.pc = "failed"]
        BY <1>5, <2>2 DEF PageMetadata
      <3>2. page' = [pc |-> "failed", users |-> page.users, answer |-> page.answer]
        BY <1>3, <3>1 DEF PageOK
      <3>3. frozen
        BY <2>1, <2>2 DEF ReadersInv, PageInv
      <3> QED
        BY <1>1, <3>2, <3>3 DEF PageInv, PageOK
    <2>3. CASE ~(\E i \in DOMAIN page.users : metadata[page.users[i]] = Nil)
      <3>1. PICK answer : page' = [page EXCEPT !.pc = "answered", !.answer = answer]
        BY <1>5, <2>3 DEF PageMetadata
      <3>2. page' = [pc |-> "answered", users |-> page.users, answer |-> answer]
        BY <1>3, <3>1 DEF PageOK
      <3> QED
        BY <3>2 DEF PageInv, PageOK
    <2> QED
      BY <2>2, <2>3
  <1>6. CASE PageFromDB
    <2>1. PICK answer : page' = [page EXCEPT !.pc = "answered", !.answer = answer]
      BY <1>6 DEF PageFromDB
    <2>2. page' = [pc |-> "answered", users |-> page.users, answer |-> answer]
      BY <1>3, <2>1 DEF PageOK
    <2>3. PageInv'
      BY <2>2 DEF PageInv, PageOK
    <2> QED
      BY <1>2, <2>3 DEF ReadersInv
  <1>7. CASE PageEnd
    <2>1. page' = NoPage
      BY <1>7 DEF PageEnd
    <2>2. PageInv'
      BY <2>1 DEF PageInv, PageOK, NoPage
    <2> QED
      BY <1>2, <2>2 DEF ReadersInv
  <1> QED
    BY <1>2, <1>4, <1>5, <1>6, <1>7 DEF Page, ReadersInv

LEMMA RowFields ==
    ASSUME NEW pc, NEW user, NEW rank, NEW answer, NEW r,
           r = [pc |-> pc, user |-> user, rank |-> rank, answer |-> answer]
    PROVE  /\ r.pc = pc /\ r.user = user /\ r.rank = rank
           /\ r = [pc |-> r.pc, user |-> r.user, rank |-> r.rank, answer |-> r.answer]
  OBVIOUS

LEMMA RowKeepsReaders ==
    ASSUME WritersInv, ReadersInv, UNCHANGED vars, Row
    PROVE  ReadersInv'
  <1>1. UNCHANGED <<page, frozen, metadata, results>>
    BY DEF Row, RowRank, RowMetadata, RowFromDB, RowEnd, vars, postgres, redis
  <1>2. PageInv'
    BY <1>1 DEF ReadersInv, PageInv, PageOK
  <1>3. RowOK
    BY DEF ReadersInv, RowInv
  <1>4. ASSUME NEW u \in Users, RowRank(u) PROVE RowInv'
    <2>1. PICK rank :
             /\ row' = [row EXCEPT !.pc = IF rank \in {Nil, 0} THEN "db" ELSE "metadata",
                                   !.user = u, !.rank = rank]
             /\ board[u] = Nil => rank = Nil
      BY <1>4 DEF RowRank
    <2>2. row' = [pc |-> IF rank \in {Nil, 0} THEN "db" ELSE "metadata",
                  user |-> u, rank |-> rank, answer |-> row.answer]
      BY <1>3, <2>1 DEF RowOK
    <2>3. rank \notin {Nil, 0} => RatedRows(u) # {} /\ (~frozen => metadata[u] # Nil)
      BY <2>1, OnBoardMeans
    <2>4. CASE rank \in {Nil, 0}
      <3>1. row'.pc = "db" /\ row'.rank = rank /\ RowOK'
        BY <2>2, <2>4 DEF RowOK
      <3> QED
        BY <2>4, <3>1 DEF RowInv
    <2>5. CASE rank \notin {Nil, 0}
      <3>1. row'.pc = "metadata" /\ row'.user = u /\ RowOK'
        BY <2>2, <2>5 DEF RowOK
      <3> QED
        BY <1>1, <2>3, <2>5, <3>1 DEF RowInv, RatedRows
    <2> QED
      BY <2>4, <2>5
  <1>5. ASSUME RowMetadata PROVE RowInv'
    <2>1. row.pc = "metadata" /\ row.user \in Users /\ RatedRows(row.user) # {}
          /\ (~frozen => metadata[row.user] # Nil)
      BY <1>5 DEF RowMetadata, ReadersInv, RowInv
    <2>2. CASE metadata[row.user] = Nil
      <3>1. row' = [row EXCEPT !.pc = "db"]
        BY <1>5, <2>2 DEF RowMetadata
      <3>2. row' = [pc |-> "db", user |-> row.user, rank |-> row.rank,
                    answer |-> row.answer]
        BY <1>3, <3>1 DEF RowOK
      <3>3. /\ row'.pc = "db" /\ row'.user = row.user /\ row'.rank = row.rank
            /\ RowOK'
        BY <3>2, RowFields DEF RowOK
      <3> QED
        BY <1>1, <2>1, <2>2, <3>3 DEF RowInv, RatedRows
    <2>3. CASE metadata[row.user] # Nil
      <3>1. PICK answer : row' = [row EXCEPT !.pc = "answered", !.answer = answer]
        BY <1>5, <2>3 DEF RowMetadata
      <3>2. row' = [pc |-> "answered", user |-> row.user, rank |-> row.rank,
                    answer |-> answer]
        BY <1>3, <3>1 DEF RowOK
      <3>3. row'.pc = "answered" /\ RowOK'
        BY <3>2, RowFields DEF RowOK
      <3> QED
        BY <3>3 DEF RowInv
    <2> QED
      BY <2>2, <2>3
  <1>6. ASSUME RowFromDB PROVE RowInv'
    <2>1. row.pc = "db"
      BY <1>6 DEF RowFromDB
    <2>2. CASE results[row.user] = Nil
      <3>1. row' = [row EXCEPT !.pc = "none"]
        BY <1>6, <2>2 DEF RowFromDB
      <3>2. row' = [pc |-> "none", user |-> row.user, rank |-> row.rank,
                    answer |-> row.answer]
        BY <1>3, <3>1 DEF RowOK
      <3>3. row.rank \in {Nil, 0}
        BY <2>1, <2>2 DEF ReadersInv, RowInv, WritersInv, ResultsInv, Complete
      <3>4. row'.pc = "none" /\ row'.rank = row.rank /\ RowOK'
        BY <3>2, RowFields DEF RowOK
      <3> QED
        BY <3>3, <3>4 DEF RowInv
    <2>3. CASE results[row.user] # Nil
      <3>1. PICK answer : row' = [row EXCEPT !.pc = "answered", !.answer = answer]
        BY <1>6, <2>3 DEF RowFromDB
      <3>2. row' = [pc |-> "answered", user |-> row.user, rank |-> row.rank,
                    answer |-> answer]
        BY <1>3, <3>1 DEF RowOK
      <3>3. row'.pc = "answered" /\ RowOK'
        BY <3>2, RowFields DEF RowOK
      <3> QED
        BY <3>3 DEF RowInv
    <2> QED
      BY <2>2, <2>3
  <1>7. ASSUME RowEnd PROVE RowInv'
    <2>1. row' = [pc |-> "idle", user |-> Nil, rank |-> Nil, answer |-> Nil]
      BY <1>7 DEF RowEnd, NoRow
    <2>2. row'.pc = "idle" /\ RowOK'
      BY <2>1, RowFields DEF RowOK
    <2> QED
      BY <2>2 DEF RowInv
  <1> QED
    BY <1>2, <1>4, <1>5, <1>6, <1>7 DEF Row, ReadersInv

LEMMA WritersInit == Init => WritersInv
  <1>1. Init => OnceInv
    BY DEF Init, OnceInv
  <1>2. Init => ResultsInv
    BY DEF Init, ResultsInv, NoFreeze
  <1> QED
    BY <1>1, <1>2, TypeInit, LiveInit DEF WritersInv

LEMMA ReadersAlways ==
    ASSUME NoRecalculation PROVE PagesSpec => []ReadersInv
  <1>1. PagesInit => WritersInv /\ ReadersInv
    <2>1. PagesInit => PageInv /\ RowInv
      BY DEF PagesInit, NoPage, NoRow, PageInv, PageOK, RowInv, RowOK
    <2> QED
      BY <2>1, WritersInit DEF PagesInit, ReadersInv
  <1>2. ASSUME WritersInv, ReadersInv, [PagesNext]_<<vars, reads>>
        PROVE  WritersInv' /\ ReadersInv'
    <2>1. /\ [Next]_vars
          /\ UNCHANGED reads \/ (UNCHANGED vars /\ (Page \/ Row))
      BY <1>2, PagesOnlyRead
    <2>2. WritersInv'
      BY <1>2, <2>1, TypeStep, OnceStep, LiveStep, ResultsStep DEF WritersInv
    <2>3. ReadersInv'
      BY <1>2, <2>1, WritersKeepReaders, PageKeepsReaders, RowKeepsReaders
    <2> QED
      BY <2>2, <2>3
  <1> QED
    BY <1>1, <1>2, PTL DEF PagesSpec

\* Without forced recalculations a leaderboard page is refused only after the
\* contest was frozen, whatever verdicts, crashes and freezes fall between its
\* two reads: the script writes a user's metadata before the zAdd puts the user
\* on the board, and only the unlink takes it away
\* (leaderboard.service.ts:118-146).
THEOREM PageFailsLate == PagesSpec => []PageFailsOnlyOnceFrozen
  <1>1. CASE NoRecalculation
    <2>1. ReadersInv => PageFailsOnlyOnceFrozen
      BY DEF ReadersInv, PageInv, PageFailsOnlyOnceFrozen
    <2> QED
      BY <1>1, <2>1, ReadersAlways, PTL
  <1>2. CASE ~NoRecalculation
    <2>1. PageFailsOnlyOnceFrozen
      BY <1>2 DEF NoRecalculation, PageFailsOnlyOnceFrozen
    <2> QED
      BY <2>1, PTL
  <1> QED
    BY <1>1, <1>2

\* Without forced recalculations a user who was on the board below the first
\* rank is never answered 404: if the metadata is gone when it is read, the
\* results are already in the database, with a row for everybody who has a
\* submission (leaderboard.service.ts:34-71, freeze.service.ts:79-86).
THEOREM RowIsAnswered == PagesSpec => []RowSurvivesFreeze
  <1>1. CASE NoRecalculation
    <2>1. ReadersInv => RowSurvivesFreeze
      BY DEF ReadersInv, RowInv, RowSurvivesFreeze
    <2> QED
      BY <1>1, <2>1, ReadersAlways, PTL
  <1>2. CASE ~NoRecalculation
    <2>1. RowSurvivesFreeze
      BY <1>2 DEF NoRecalculation, RowSurvivesFreeze
    <2> QED
      BY <2>1, PTL
  <1> QED
    BY <1>1, <1>2
=============================================================================
