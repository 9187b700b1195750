---------------------------- MODULE Leaderboard ----------------------------
(***************************************************************************)
(* The leaderboard service (src/leaderboard-service) for one contest: the  *)
(* consumer that puts verdicts of the execution engine on the live board   *)
(* in Redis, the forced recalculation of a user, and the freeze that       *)
(* writes the final standings to PostgreSQL and frees the Redis keys.      *)
(*                                                                         *)
(* The service is one Node process with one Redis connection.  Its         *)
(* handlers interleave at every await; a command is executed by Redis when *)
(* its turn on the connection comes, so the step of a handler that sends a *)
(* command and the step of Redis that runs it are one action here.  Only   *)
(* the zAdd that follows a verdict's script is kept pending: other         *)
(* commands can run between the two.                                       *)
(***************************************************************************)
EXTENDS Scoring

CONSTANTS
    Submissions,  \* rows of the contest's problems, numbered as created
    Rated,        \* those of type RATED
    Users,
    Problems,
    UserOf,       \* [Submissions -> Users]
    ProblemOf,    \* [Submissions -> Problems]
    LiveTime,     \* [Submissions -> relative_submission_time of the message]
    RowTime,      \* [Submissions -> created_at - start_time, in seconds]
    ClockDrift,   \* how far apart, in seconds, the two times of a row may be
    Verdicts,     \* the statuses the engine stores
    Redelivered,  \* submissions the engine may judge again
    Abandoned,    \* submissions the engine dropped: their rows stay QUEUE
    TaskRuns,     \* runs of the interval task that may overlap (bound)
    Admin,        \* which forced recalculations are requested
    Faults,       \* which failures the environment produces
    Nil           \* no Redis entry, no row

ASSUME LeaderboardAssumption ==
    /\ Submissions \subseteq Nat /\ IsFiniteSet(Submissions)
    /\ IsFiniteSet(Users) /\ IsFiniteSet(Problems)
    /\ Rated \subseteq Submissions
    /\ Redelivered \subseteq Submissions
    /\ Abandoned \subseteq Submissions
    /\ UserOf \in [Submissions -> Users]
    /\ ProblemOf \in [Submissions -> Problems]
    /\ LiveTime \in [Submissions -> Nat]
    /\ RowTime \in [Submissions -> Nat]
    /\ ClockDrift \in Nat
    /\ \A s \in Submissions : LiveTime[s] - RowTime[s] \in -ClockDrift..ClockDrift
    /\ Verdicts \subseteq Statuses
    /\ "route" \notin TaskRuns
    /\ Admin \subseteq {"user", "contest"}
    /\ Faults \subseteq {"crash", "lost", "io"}
    /\ Nil \notin Submissions \X Verdicts /\ Nil \notin Int

VARIABLES
    \* PostgreSQL
    status,       \* [Submissions -> the status column]
    ended,        \* end_time < NOW()
    frozen,       \* leaderboard_frozen
    results,      \* [Users -> score in contest_results, or Nil]
    \* RabbitMQ, the verdict queue
    queue,        \* <<submission, verdict>> waiting
    unacked,      \* delivered to the service, not acknowledged
    \* Redis
    metadata,     \* [Users -> UserContestMetadata, or Nil]
    board,        \* [Users -> score in the sorted set, or Nil]
    \* the service process
    adds,         \* zAdd commands whose script has run, in connection order
    handled,      \* unacked messages whose zAdd has run
    recalc,       \* the running forced recalculation of a user
    freeze        \* [Freezers -> the running freeze]

postgres == <<status, ended, frozen, results>>
rabbit   == <<queue, unacked>>
redis    == <<metadata, board>>
process  == <<adds, handled, recalc, freeze>>
vars     == <<postgres, rabbit, redis, process>>

\* The runs of the interval task and the HTTP route, which all call
\* executeContestHardFreeze. setInterval does not wait for its async callback, so
\* a run can start while an earlier one, or the one at start-up, has not ended.
Freezers == TaskRuns \cup {"route"}

Entry(s, t, v) == [sub |-> s, time |-> t, status |-> v]
Entries == {Entry(s, t, v) : s \in Submissions, v \in Verdicts \cup {"QUEUE"},
                             t \in {LiveTime[x] : x \in Submissions}
                                   \cup {RowTime[x] : x \in Submissions}}

\* A user's hash field: the entries of each problem in the order they were
\* appended, and the submissions that have one.
UserContestMetadata ==
    [problems: [Problems -> Seq(Entries)], processed: SUBSET Submissions]

NoSubmissions == [problems |-> [p \in Problems |-> <<>>], processed |-> {}]

ASSUME NilAssumption ==
    Nil \notin UserContestMetadata /\ Nil \notin [Users -> Int \cup {Nil}]

NoRecalc == [pc |-> "idle", user |-> Nil, rows |-> <<>>]
NoFreeze == [pc |-> "idle", standings |-> Nil]

TypeOK ==
    /\ status \in [Submissions -> Verdicts \cup {"QUEUE"}]
    /\ ended \in BOOLEAN /\ frozen \in BOOLEAN
    /\ results \in [Users -> Int \cup {Nil}]
    /\ queue \subseteq Rated \X Verdicts
    /\ unacked \subseteq Rated \X Verdicts
    /\ handled \subseteq unacked
    /\ metadata \in [Users -> UserContestMetadata \cup {Nil}]
    /\ board \in [Users -> Int \cup {Nil}]
    /\ adds \in Seq([user: Users, score: Int, message: unacked \cup {Nil}])
    /\ recalc \in [pc: {"idle", "select", "apply", "adding"},
                   user: Users \cup {Nil}, rows: Seq(Entries)]
    /\ freeze \in [Freezers -> [pc: {"idle", "check", "select", "commit", "unlink"},
                                standings: [Users -> Int \cup {Nil}] \cup {Nil}]]

\* Every row of the instance exists from the start, in QUEUE: none is inserted or
\* deleted while the contest runs. SubmissionIntake has the rows that come after
\* the freeze and those deleted when a confirm is late.
Init ==
    /\ status = [s \in Submissions |-> "QUEUE"]
    /\ ended = FALSE
    /\ frozen = FALSE
    /\ results = [u \in Users |-> Nil]
    /\ queue = {}
    /\ unacked = {}
    /\ metadata = [u \in Users |-> Nil]
    /\ board = [u \in Users |-> Nil]
    /\ adds = <<>>
    /\ handled = {}
    /\ recalc = NoRecalc
    /\ freeze = [f \in Freezers |-> NoFreeze]

----------------------------------------------------------------------------
(* The execution engine and the clock, as this service sees them.          *)

\* Mutant: verdicts of PRACTICE submissions are published too.
ReportAnyType(s, v) ==
    /\ status' = [status EXCEPT ![s] = v]
    /\ queue' = queue \cup {<<s, v>>}
    /\ UNCHANGED <<ended, frozen, results, unacked, redis, process>>

\* UpdateSubmission, then PublishSubmissionResult for a RATED submission; the
\* publication can be lost.
Report(s, v) ==
    /\ status' = [status EXCEPT ![s] = v]
    /\ \/ s \in Rated /\ queue' = queue \cup {<<s, v>>}
       \/ (s \notin Rated \/ "lost" \in Faults) /\ UNCHANGED queue
    /\ UNCHANGED <<ended, frozen, results, unacked, redis, process>>

Judge(s) ==
    /\ status[s] = "QUEUE"
    /\ s \notin Abandoned
    /\ \E v \in Verdicts : Report(s, v)

\* The engine judges a redelivered submission again.
Rejudge(s) ==
    /\ s \in Redelivered
    /\ status[s] # "QUEUE"
    /\ \E v \in Verdicts : Report(s, v)

EndContest ==
    /\ ~ended
    /\ ended' = TRUE
    /\ UNCHANGED <<status, frozen, results, rabbit, redis, process>>

----------------------------------------------------------------------------
(* One verdict on the live board.                                          *)

Score(user) == computeUserScores(user.problems).score

AppendEntry(user, e) ==
    [problems  |-> [user.problems EXCEPT ![ProblemOf[e.sub]] = Append(@, e)],
     processed |-> user.processed \cup {e.sub}]

Known(field) == IF field = Nil THEN NoSubmissions ELSE field

\* Mutant: the script appends without looking at processedSubmissions.
AlwaysAppend(field, e) == AppendEntry(Known(field), e)

\* UPDATE_USER_STATE_LUA on one user's hash field.
UpdateUserState(field, e) ==
    IF e.sub \in Known(field).processed THEN field
    ELSE AppendEntry(Known(field), e)

\* processLiveVerdict up to the zAdd: the script runs, and the score of what it
\* returned is on its way.
ProcessLiveVerdict(e, message) ==
    LET u == UserOf[e.sub]
        updated == UpdateUserState(metadata[u], e)
    IN  /\ metadata' = [metadata EXCEPT ![u] = updated]
        /\ adds' = Append(adds, [user |-> u, score |-> Score(updated),
                                 message |-> message])
        /\ UNCHANGED board

\* Mutant: a submission that is already processed needs no second zAdd.
SkipProcessed(m) ==
    LET known == metadata[UserOf[m[1]]] # Nil
                 /\ m[1] \in metadata[UserOf[m[1]]].processed
    IN  /\ m \in queue \ unacked
        /\ queue' = queue \ {m}
        /\ IF known
           THEN UNCHANGED <<redis, adds, unacked>>
           ELSE /\ ProcessLiveVerdict(Entry(m[1], LiveTime[m[1]], m[2]), m)
                /\ unacked' = unacked \cup {m}
        /\ UNCHANGED <<postgres, handled, recalc, freeze>>

\* The consumer receives a verdict. There is no prefetch: any number of
\* messages is in processing at once.
ConsumeVerdict(m) ==
    /\ m \in queue \ unacked
    /\ queue' = queue \ {m}
    /\ unacked' = unacked \cup {m}
    /\ ProcessLiveVerdict(Entry(m[1], LiveTime[m[1]], m[2]), m)
    /\ UNCHANGED <<postgres, handled, recalc, freeze>>

\* The oldest pending zAdd runs; its handler goes on.
AddScore ==
    /\ adds # <<>>
    /\ LET add == Head(adds) IN
          /\ board' = [board EXCEPT ![add.user] = add.score]
          /\ IF add.message # Nil
             THEN handled' = handled \cup {add.message} /\ UNCHANGED recalc
             ELSE recalc' = [recalc EXCEPT !.pc = "apply"] /\ UNCHANGED handled
    /\ adds' = Tail(adds)
    /\ UNCHANGED <<postgres, rabbit, metadata, freeze>>

\* rmqChannel.ack(msg)
AckVerdict(m) ==
    /\ m \in handled
    /\ handled' = handled \ {m}
    /\ unacked' = unacked \ {m}
    /\ UNCHANGED <<postgres, queue, redis, adds, recalc, freeze>>

----------------------------------------------------------------------------
(* recalculateLiveUserScore, one at a time (bound).                        *)

\* Mutant: rows of every type are selected.
RowsOfAnyType(u) == {s \in Submissions : UserOf[s] = u}

\* The rows of u that count, whatever their status.
RatedRows(u) == {s \in Rated : UserOf[s] = u}

\* ORDER BY created_at
CreationOrder(rows) == InOrder(rows, <)

AsCreated(rows) ==
    LET ids == CreationOrder(rows)
    IN  [i \in DOMAIN ids |-> Entry(ids[i], RowTime[ids[i]], status[ids[i]])]

\* hDel of the user's metadata
RecalcStart(u) ==
    /\ "user" \in Admin
    /\ recalc.pc = "idle"
    /\ metadata' = [metadata EXCEPT ![u] = Nil]
    /\ recalc' = [pc |-> "select", user |-> u, rows |-> <<>>]
    /\ UNCHANGED <<postgres, rabbit, board, adds, handled, freeze>>

RecalcSelect ==
    /\ recalc.pc = "select"
    /\ recalc' = [recalc EXCEPT !.pc = "apply",
                                !.rows = AsCreated(RatedRows(recalc.user))]
    /\ UNCHANGED <<postgres, rabbit, redis, adds, handled, freeze>>

RecalcApply ==
    /\ recalc.pc = "apply"
    /\ recalc.rows # <<>>
    /\ ProcessLiveVerdict(Head(recalc.rows), Nil)
    /\ recalc' = [recalc EXCEPT !.pc = "adding", !.rows = Tail(@)]
    /\ UNCHANGED <<postgres, rabbit, handled, freeze>>

RecalcDone ==
    /\ recalc.pc = "apply"
    /\ recalc.rows = <<>>
    /\ recalc' = NoRecalc
    /\ UNCHANGED <<postgres, rabbit, redis, adds, handled, freeze>>

----------------------------------------------------------------------------
(* executeContestHardFreeze and the task that calls it.                    *)

SetFreeze(f, pc) == freeze' = [freeze EXCEPT ![f].pc = pc]

\* checkForFinishedContests finds the contest, also when another run has found
\* it and is in the middle of freezing it
TaskFind(f) ==
    /\ freeze[f].pc = "idle"
    /\ ended /\ ~frozen
    /\ SetFreeze(f, "check")
    /\ UNCHANGED <<postgres, rabbit, redis, adds, handled, recalc>>

\* The timer fires and there is nothing to do.
TaskFindsNothing(f) ==
    /\ freeze[f].pc = "idle"
    /\ ~ended \/ frozen
    /\ UNCHANGED vars

\* Mutant: submissions in the queue are not waited for.
NoPendingCheck(f) ==
    /\ freeze[f].pc = "check"
    /\ SetFreeze(f, "select")
    /\ UNCHANGED <<postgres, rabbit, redis, adds, handled, recalc>>

\* hasPendingSubmissions: rows of any type count
TaskCheckPending(f) ==
    /\ freeze[f].pc = "check"
    /\ SetFreeze(f, IF \E s \in Submissions : status[s] = "QUEUE"
                    THEN "idle" ELSE "select")
    /\ UNCHANGED <<postgres, rabbit, redis, adds, handled, recalc>>

\* POST /leaderboard/:contestId/recalculate/contest, for any contest
ForceRecalculateContest ==
    /\ "contest" \in Admin
    /\ freeze["route"].pc = "idle"
    /\ SetFreeze("route", "select")
    /\ UNCHANGED <<postgres, rabbit, redis, adds, handled, recalc>>

RowsByProblem(u) ==
    [p \in Problems |-> AsCreated({s \in RatedRows(u) : ProblemOf[s] = p})]

\* A user without a row has no standing.
Standings ==
    [u \in Users |-> IF RatedRows(u) = {} THEN Nil
                     ELSE computeUserScores(RowsByProblem(u)).score]

\* Mutant: the Redis keys are freed before the transaction commits.
UnlinkFirst(f) ==
    /\ freeze[f].pc = "select"
    /\ freeze' = [freeze EXCEPT ![f] = [pc |-> "commit", standings |-> Standings]]
    /\ metadata' = [u \in Users |-> Nil]
    /\ board' = [u \in Users |-> Nil]
    /\ UNCHANGED <<postgres, rabbit, adds, handled, recalc>>

\* The SELECT of the transaction, and the standings computed from it
FreezeSelect(f) ==
    /\ freeze[f].pc = "select"
    /\ freeze' = [freeze EXCEPT ![f] = [pc |-> "commit", standings |-> Standings]]
    /\ UNCHANGED <<postgres, rabbit, redis, adds, handled, recalc>>

\* Mutant: only the users on the live board are written.
CommitLiveUsers(f) ==
    /\ freeze[f].pc = "commit"
    /\ results' = [u \in Users |-> IF board[u] = Nil THEN Nil ELSE freeze[f].standings[u]]
    /\ frozen' = TRUE
    /\ SetFreeze(f, "unlink")
    /\ UNCHANGED <<status, ended, rabbit, redis, adds, handled, recalc>>

\* DELETE, INSERT, UPDATE contests and COMMIT take effect together
FreezeCommit(f) ==
    /\ freeze[f].pc = "commit"
    /\ results' = freeze[f].standings
    /\ frozen' = TRUE
    /\ SetFreeze(f, "unlink")
    /\ UNCHANGED <<status, ended, rabbit, redis, adds, handled, recalc>>

\* Redis frees both keys, after the COMMIT
FreezeUnlink(f) ==
    /\ freeze[f].pc = "unlink"
    /\ metadata' = [u \in Users |-> Nil]
    /\ board' = [u \in Users |-> Nil]
    /\ freeze' = [freeze EXCEPT ![f] = NoFreeze]
    /\ UNCHANGED <<postgres, rabbit, adds, handled, recalc>>

\* An error rolls back, also that of a second transaction that inserts the rows
\* of one already committed; an error of the unlink undoes nothing.
FreezeFails(f) ==
    /\ \/ "io" \in Faults /\ freeze[f].pc \in {"commit", "unlink"}
       \/ frozen /\ freeze[f].pc = "commit"
    /\ freeze' = [freeze EXCEPT ![f] = NoFreeze]
    /\ UNCHANGED <<postgres, rabbit, redis, adds, handled, recalc>>

----------------------------------------------------------------------------
\* The process dies and is started again. An error of a verdict's handler ends
\* here too: it is thrown out of the consumer's callback after the nack, and
\* nothing catches the rejection.
Crash ==
    /\ "crash" \in Faults
    /\ queue' = queue \cup unacked
    /\ unacked' = {}
    /\ adds' = <<>>
    /\ handled' = {}
    /\ recalc' = NoRecalc
    /\ freeze' = [f \in Freezers |-> NoFreeze]
    /\ UNCHANGED <<postgres, redis>>

Recalculate ==
    \/ \E u \in Users : RecalcStart(u)
    \/ RecalcSelect
    \/ RecalcApply
    \/ RecalcDone

Freeze(f) ==
    \/ FreezeSelect(f)
    \/ FreezeCommit(f)
    \/ FreezeUnlink(f)
    \/ FreezeFails(f)

Next ==
    \/ \E s \in Submissions : Judge(s) \/ Rejudge(s)
    \/ EndContest
    \/ \E m \in queue : ConsumeVerdict(m)
    \/ AddScore
    \/ \E m \in handled : AckVerdict(m)
    \/ Recalculate
    \/ \E f \in TaskRuns : TaskFind(f) \/ TaskFindsNothing(f) \/ TaskCheckPending(f)
    \/ ForceRecalculateContest
    \/ \E f \in Freezers : Freeze(f)
    \/ Crash

Spec == Init /\ [][Next]_vars

(* The engine judges what it did not drop, the contest ends, a message is  *)
(* delivered, the timer fires every minute, and a call that was made       *)
(* returns. Requests and failures are never owed.                          *)
Fairness ==
    /\ \A s \in Submissions : WF_vars(Judge(s))
    /\ WF_vars(EndContest)
    /\ WF_vars(\E m \in queue : ConsumeVerdict(m))
    /\ WF_vars(AddScore)
    /\ WF_vars(\E m \in handled : AckVerdict(m))
    /\ WF_vars(RecalcSelect \/ RecalcApply \/ RecalcDone)
    /\ WF_vars(\E f \in TaskRuns : TaskFind(f))
    /\ \A f \in Freezers : WF_vars(\/ TaskCheckPending(f) \/ FreezeSelect(f)
                                \/ FreezeCommit(f) \/ FreezeUnlink(f))

FairSpec == Spec /\ Fairness

----------------------------------------------------------------------------
(* Properties.                                                             *)

\* Nothing of u's board entry is under way.
Quiet(u) ==
    /\ \A m \in queue \cup unacked : UserOf[m[1]] # u
    /\ \A i \in DOMAIN adds : adds[i].user # u
    /\ recalc.user # u

\* A submission counts once on the live board, whether its verdict comes from
\* the queue, from the queue again, or from a recalculation at the same time.
CountedOnce ==
    \A u \in Users : metadata[u] # Nil =>
        LET entries == metadata[u].problems IN
        \A p, q \in Problems :
            \A i \in DOMAIN entries[p], j \in DOMAIN entries[q] :
                entries[p][i].sub = entries[q][j].sub => p = q /\ i = j

\* When nothing of a user is under way, the sorted set holds the score of the
\* user's metadata: no interleaving of two verdicts leaves the older score, and
\* a crash between the script and the zAdd is repaired by the redelivery.
ScoreFollowsMetadata ==
    \A u \in Users : Quiet(u) /\ metadata[u] # Nil => board[u] = Score(metadata[u])

\* Until the freeze, a verdict the consumer has taken is on the live board with
\* the status its row has, whatever else the service did meanwhile.
LiveMatchesRows ==
    ~frozen =>
        \A s \in Rated \ Redelivered :
            status[s] # "QUEUE" /\ Quiet(UserOf[s]) =>
                /\ metadata[UserOf[s]] # Nil
                /\ LET entries == metadata[UserOf[s]].problems[ProblemOf[s]] IN
                   \E i \in DOMAIN entries :
                      entries[i].sub = s /\ entries[i].status = status[s]

\* A frozen contest has the standings of its rows, every verdict included: the
\* task does not freeze while a verdict is missing. This is about the rows there
\* are when the task looks: a row inserted later is the subject of
\* FreezeMissesOnlySlowRequests in SubmissionIntake.
FrozenIsComplete == frozen => results = Standings

\* What the two clocks can make of u's score: ClockDrift seconds for each
\* accepted run.
Drift(u) == ClockDrift * computeUserScores(metadata[u].problems).solved

\* The freeze turns the live scores into the final ones: whoever has nothing
\* under way when it commits keeps the score, except that the penalty is taken
\* with the seconds of the rows (rounded by freeze.service.ts:22) in place of
\* those of the messages (truncated by submission-service main.go:153).
FreezeKeepsScores ==
    [][~frozen /\ frozen' =>
          \A u \in Users : Quiet(u) /\ board[u] # Nil =>
              /\ results'[u] # Nil
              /\ results'[u] - board[u] \in -Drift(u)..Drift(u)]_vars

\* Whatever verdicts were lost on the way to the live board, the frozen
\* standings have them: worker.go:155 relies on the board being regenerated.
\* A verdict whose row was deleted (SubmissionIntake) is in no standings.
EventuallyFrozen == <>[](frozen /\ results = Standings)

\* README.md:17 says that the service persists the frozen leaderboard after the
\* contest: every contest that ended is frozen.
EveryContestIsFrozen == ended ~> frozen
============================================================================
