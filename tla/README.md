# JudgeSelf in TLA+

TLA+ models of JudgeSelf, a judge for programming contests, with TLC runs on
small instances and theorems checked by TLAPS. Source references are relative
to the repository's root.

1. [The system](#1-the-system): components, state, operations, hard behaviours
2. [The modules](#2-the-modules): what is modelled and how it corresponds to the code
3. [The runs](#3-the-runs): what each one shows, bounds, fairness
4. [The proofs](#4-the-proofs): theorems, assumptions, inductive invariants
5. [Findings](#5-findings): where the code and its documentation disagree
6. [Limits and plan](#6-limits-and-plan): not modelled, and what comes next

To repeat a run: `tlc -config engine_recovers.cfg MCExecutionEngine`. To repeat a
proof: `tlapm ExecutionEngineProofs.tla`.

## 1. The system

A submission travels like this:

    user -> submission-service -> [submissions queue] -> execution-engine
         -> PostgreSQL (status column)
         -> [verdicts queue] -> leaderboard-service -> Redis -> contest_results
         -> [Redis pub/sub]  -> status-service -> Redis hash

| Component | State it keeps | Operations | Talks to |
|---|---|---|---|
| submission-service (Go) | a row per submission (PostgreSQL), a message (RabbitMQ) | `HandleSubmit`: look the problem up, decide RATED or PRACTICE, insert, publish with a 5 s confirm, delete on error | PostgreSQL, RabbitMQ |
| execution-engine (Go): pool | `JobQueue`, one goroutine per worker, a consumer goroutine, the unsettled deliveries of its channel | consume, take, load, judge, save, publish, settle; SIGTERM, exit | RabbitMQ (two queues), PostgreSQL, Redis |
| execution-engine: judging | the sandbox box and local files of one worker | compile checker and program, run the tests, map sandbox metadata to a status | `isolate` |
| execution-engine: problem cache | database cache (5 min), map of downloaded problems, compiled checkers, a directory per problem version | `GetOrLoad`, `CompileCheckerCode`, cleanup every 15 min | PostgreSQL, S3 |
| leaderboard-service (TS): scoring | none | `computeUserScores` | - |
| leaderboard-service: live board | per contest a hash of users' metadata and a sorted set of scores (Redis), unacknowledged verdicts | consume a verdict; recalculate a user; freeze a contest (task every minute, or on request) | RabbitMQ, Redis, PostgreSQL |
| leaderboard-service: requests | none | a page, one user's row | Redis, then PostgreSQL |
| status-service (TS) | a hash of running submissions (Redis) | apply a status message; status pages | Redis, PostgreSQL |
| main-api (TS) | accounts; one refresh token per user (Redis); contests | login, logout, refresh, register, change password; contests and problems; proxies | PostgreSQL, Redis, the other services |
| polygon-service (TS) | a work directory per import, objects in S3, problem rows | import a problem package | Polygon, S3, PostgreSQL |
| schema (`docker/postgres/init.sql`) | `submissions.status` defaults to `QUEUE`; `contests.leaderboard_frozen`; `contest_results` | - | - |

What makes each of them hard, and what makes it correct:

* **Pool.** Several processes compete for one queue; a process may be killed,
  lose its connection or be told to stop between any two steps of any worker.
  Correct means: a message is acknowledged only once its verdict is stored; the
  leaderboard hears only stored verdicts; a verdict changes only after a
  redelivery; one submission is never judged twice at once by engines that are
  connected; no goroutine waits for ever; every message is settled in the end.
* **Judging.** The status is that of the first failing test, and every outcome
  of the sandbox maps to a status; a failing checker is an internal error.
* **Problem cache.** Locks are held across compilations and downloads, the
  cleanup deletes directories by age. Correct means: nothing a worker uses is
  deleted, a checker is compiled once, every lock is released.
* **Scoring.** The order of arrival must not matter; the single number must
  sort users as ICPC does.
* **Live board.** Handlers interleave at every `await`; verdicts come at least
  once, in any order, or never; the process dies between two Redis commands.
  Correct means: a submission counts once, the sorted set agrees with the
  metadata, the metadata with the rows, and the freeze loses nothing.
* **Requests.** Reads of several commands next to all those writes.
* **submission-service.** A row and a message without a transaction around
  both; a confirm that may be late. Correct means: a row has a message and a
  message has a row.
* **status-service.** Status messages are reordered and lost. Correct means: a
  finished submission is not shown as running for ever.
* **main-api.** Correct means: one session per user; a logged-out token refreshes
  nothing; names are unique.
* **polygon-service.** Correct means: a row exists only for a complete package,
  and the engine finds the test files under the names it computes.

`PROJECT.json` lists every hazard at its line, with the properties that watch it.

## 2. The modules

    SubmissionJudging          what the engines promise about a submission
      ^ implements
    ExecutionEngine            broker, engine processes, goroutines
      + ExecutionEngineRefinement   the mapping
      + ExecutionEngineProofs       theorems
    Scoring                    computeUserScores, and the ICPC rules
      + ScoringProofs               theorems about its operators
      + ScoringHistory              every history of runs
      + ScoringHistoryProofs        theorems
      ^ extended by
    Leaderboard                live board, recalculation, freeze
      ^ extended by
    LeaderboardPages           page and row requests
      + LeaderboardProofs           theorems about both
    InductionLemmas            induction over numbers and finite sets, for ScoringProofs

    ProblemCache               both caches of an engine, the cleanup, the checker
      + ProblemCacheProofs          theorems

    PolygonImport              importing a package, the names of test files
    SandboxVerdicts            from the sandbox's report to a status
      ^ both extended by
    Judging                    how a worker judges a submission
      ^ extended by
    StatusBoard                the subscriber of the status service
      + StatusBoardProofs           theorems about these four

    AuthSession                accounts and sessions of main-api
      ^ extended by
    SubmissionIntake           POST /submit, the broker, the freeze
      + SubmissionIntakeProofs      theorems about both

`MC*` modules and `.cfg` files instantiate these for TLC. Definitions whose
comment begins with "Mutant" are broken variants of the definition that follows
them. They are used by no specification; they are there so that each property
can be seen to fail when the code is wrong in that way.

### ExecutionEngine

| Variables | Code |
|---|---|
| `ready`, `unacked`, `acked`, `dropped`, `redelivered` | the submissions queue and the unsettled deliveries per channel (RabbitMQ) |
| `status`, `stored` | the status column; `stored` remembers every value it had |
| `published` | the verdicts queue |
| `proc`, `ctxDone`, `closed`, `connected` | the process, its signal context, `close(JobQueue)` (main.go), the AMQP connection |
| `deliveries`, `consumer`, `jobQueue` | the channel of `ch.Consume`, the consumer goroutine, `Engine.JobQueue` |
| `worker` | each worker's program counter, `w.Job`, `job.Verdict` |
| `broken` | the problems whose cache item a failed checker left locked in this process (compile.go:44) |

One action is one step between two points where another goroutine, process or
the environment can get in. A worker's program counters:

| pc | worker.go | next |
|---|---|---|
| `select` | 56-66 | a job (`load`), or `stopped` |
| `load` | `MkdirAll`, `PreExecute` (90-104) | `judge`, or `nack` without a verdict |
| `judge` | `ExecuteWorker` and the verdict (107, 130-147) | `save`, or `hung` |
| `hung` | waits for the lock of a broken item (compile.go:12, 20) | nothing |
| `save`, `saving` | `UpdateSubmission` called, in flight (149) | `publish`, or `nack` |
| `publish` | 154-164 | `ack` |
| `ack`, `nack` | 73, 76 | `log` |
| `log` | 79 | `select`, or the process panics when there is no verdict |

Decisions:

* Queues are sets. Every idle worker competes for the next job, so a set
  produces every order the program can produce.
* `judge` chooses any verdict; `Judging` has how it is found. It does not always
  return: `WorkerCheckerFails` leaves the lock of the problem's cache item held
  (compile.go:44), and from then on a worker of the same process that judges that problem
  may hang for ever (`WorkerHangs`). It need not, because the cache may have replaced
  the item; `ProblemCache` has the details. A nil item in `CompileCheckerCode` panics,
  which is a `Kill` here.
* `UpdateSubmission` is two steps because it can fail at once (the context is
  cancelled) or after the UPDATE committed.
* A lost connection may or may not discard deliveries the client library
  buffered, and Ack and Nack on it are errors the code ignores.
* Status updates over Redis pub/sub change nothing modelled here; `StatusBoard` has
  them.

### Scoring, Leaderboard, LeaderboardPages

`Scoring` is the arithmetic of `computeUserScores`: stable sort by second, a
fold that stops at the first AC, the composite number. `Leaderboard` extends it
with one contest:

| Variables | Code |
|---|---|
| `status`, `ended`, `frozen`, `results` | submissions.status, end_time, leaderboard_frozen, contest_results |
| `queue`, `unacked` | the verdicts queue and its unsettled messages |
| `metadata`, `board` | the Redis hash `contest:ID:metadata` and sorted set `contest:ID:leaderboard` |
| `adds`, `handled` | zAdd commands between the script and their turn on the connection; messages ready for `ack` |
| `recalc`, `freeze` | the running forced recalculation; the freezes of the task's runs (`TaskRuns`) and that of the route |

Decisions:

* A command is executed by Redis in the order it was sent on the service's one
  connection, so sending and executing are one step, with one exception: the
  script and the zAdd that follows are two commands, and `adds` holds what is
  between them.
* `metadata[u]` is a user's hash field as the script writes it
  (`UserContestMetadata`): the entries of each problem in order of arrival, and
  `processedSubmissions`. `UpdateUserState` is the script.
* An error inside a verdict's handler is thrown out of the consumer's callback
  (rabbitmq.task.ts:45) and nothing catches the rejection, so Node ends the
  process: it is the same as `Crash`.
* The freeze's statements take effect at COMMIT; a second freeze at the same
  time may fail on the primary key of `contest_results` or succeed.
* The callback of `setInterval` is async and nothing waits for it (freeze.task.ts:8), so
  that runs of the task overlap: each has its own `freeze`.
* A row has two times: `LiveTime`, which submission-service truncates to seconds before
  the INSERT (main.go:153), and `RowTime`, to which the freeze rounds `created_at -
  start_time` (freeze.service.ts:22). They are constants that differ by at most
  `ClockDrift`; the instances have rows with no, one and two seconds between them.
* The rows of an instance are there from the start. `SubmissionIntake` has those that are
  inserted after the freeze and those that are deleted after a late confirm.
* `LeaderboardPages` runs one page and one row request at a time, each in its
  separate reads.

### ProblemCache

| Variables | Code |
|---|---|
| `db`, `store`, `heap`, `dir` | `DbCache.store`, `S3Cache.store`, the `cacheS3Items` it points to, the directories under `TmpDir` |
| `version` | `polygon_version` of the problem's row |
| `worker` | where a worker is in `PreExecute` (worker.go) and `CompileCheckerCode` (compile.go) |
| `cleaner` | the goroutine of `NewCache` and its `cleanCache` |

A failed query or download is a place of its own, `failed`: the lock is released, the
directory stays `partial`, the message is discarded (worker.go:73), and only the step after
that is the panic (worker.go:79) with which the process starts again empty. In between the
other workers go on, and one may unpack over what was left.

A step goes from one lock operation to the next; who holds a lock is read off the
program counters, which is sound because every one of these locks is held over a
contiguous stretch of them. The exception is the lock of an item whose checker failed to
compile: compile.go:44 returns past the Unlock, and the item is `broken` for ever.
`CompileCheckerCode` looks the item up a second time, ignores the error and trusts to
find what `PreExecute` loaded: `again`, `lockAgain` and `reload`. Addresses of items are
numbers and a new item takes the lowest that nothing points to.

### PolygonImport, SandboxVerdicts, Judging, StatusBoard

`PolygonImport` has `importProblem` with one step per await that something else can come
between, a failure at each, a crash and `bootstrap`. A test file's name is its number,
its leading zeros and whether `.a` follows: enough for the rule by which polygon-service
strips names (`Fixed`), the one by which it checks them (`ExpectedName`) and the one by
which the engine computes them (`TestFileName`), which are three pieces of code in two
languages. `SandboxVerdicts` is `formatter.go` with the two callers that read it
differently. `Judging` runs the loop over the tests of an imported problem on it; the
loop's results and what the sandbox reported are both kept, so that a property can
compare them. `StatusBoard` adds the goroutine of each status update, a Redis that may
lose or reorder them, and the hash of the subscriber.

### AuthSession, SubmissionIntake

`AuthSession` has `registerUser` (two look-ups and the INSERT), `loginUser`, `logoutUser`
and `refreshToken`. A JWT is who and at which second, which is all its payload says.
`SubmissionIntake` extends it with the handler of POST /submit:

| `request.at` | main.go of submission-service |
|---|---|
| `new`, `authenticated` | before and after `AuthMiddleware` (auth.go) |
| `classified` | RATED or PRACTICE decided from the clock |
| `created` | the row is inserted |
| `waiting` | published, waiting for the broker's confirm (rabbitmq.go) |
| `unpublished` | a nack, a closed channel or the timeout: the row is about to be deleted |
| `answered` | the handler has ended; `answer` is the status code, or None |

`causes` is a history variable: the ways in which the handler may leave row and message
in disagreement, named so that the properties can say that there are no others. The
engine is `Judge`; the freeze task of the leaderboard service is `Freeze`.

## 3. The runs

| Run | Instance | Shows |
|---|---|---|
| `engine_fleet` | 2 engines of 1 worker; a RATED, a PRACTICE and a malformed message; 2 verdicts; kill, lost connection | the consumer never waits for room in `JobQueue`; connected engines never judge one submission at once; acknowledged RATED verdicts were published; a verdict changes only after a redelivery; ExecutionEngine implements SubmissionJudging |
| `engine_recovers` | 1 engine, 2 workers, 2 submissions; every failure | acknowledged and published is stored; liveness: all work is settled once kills, signals and lost connections stop, except what a deaf engine or a worker hung behind a broken checker keeps; a cancelled context ends the process, unless a worker hangs |
| `scoring_rules` | up to 4 runs of 2 users on 2 problems at 2 seconds | the loop counts what the rules count, in any order of arrival; the composite number sorts as ICPC below the offset |
| `board_admin` | 2 submissions, both judged and delivered repeatedly; recalculations of users and of the contest; crashes | no submission counts twice |
| `board_freeze` | 4 submissions, one PRACTICE, with seconds that differ between message and row; two overlapping runs of the task; crashes, errors of the freeze | the sorted set follows the metadata and the metadata the rows; the frozen standings are complete and keep the live scores up to the difference of the clocks |
| `pages` | 2 verdicts, lost or not; a page and a row request | a page fails only once the contest is frozen; a ranked user keeps a row across the freeze; liveness: the frozen standings have every verdict |
| `problem_cache` | 2 workers, 1 problem of 2 versions, ttl, buffer and interval of one tick, clock up to 3; failed queries and downloads, restarts | a directory is complete exactly while the map has its item, and is unpacked by one worker; nothing in use is deleted before the buffer is over; a checker is compiled once; liveness: a job leaves the cache, unless it waits behind a checker that did not compile |
| `status_board` | 1 import of 12 possible packages, 1 submission, problems of up to 2 tests, every report of the sandbox, 2 crashes, 3 updates in flight | the engine finds every test file of an imported problem; work directories do not pile up; AC means that every test passed; faults of the judge cost no penalty; a finished submission leaves the hash |
| `intake` | 2 registrations for one name, 1 device, 2 requests, a contest of one tick, 1 fault | the row and the message of a submission agree; the freeze misses only the requests between clock and INSERT; a token that is taken comes from a recent login; names stay unique |

Three more runs (`engine_never_dropped`, `scoring_runtime_errors`,
`board_abandoned`) are expected to find a violation; see section 5.

**Why the bounds are enough to be interesting.** Two engines are needed for a
message to be judged by two processes, and with one worker each the prefetch
count is one while three messages wait, so that a second message could overfill
the queue. Two workers on one channel are needed for one's settlement or panic to
touch the other's job. Two verdicts let a redelivery change one. On the board, a wrong
attempt and an accepted run of one user on one problem, a second user to rank
against, and a PRACTICE row are there, because penalties, ranks and the pending check
need them. `board_admin` has one verdict, since which verdict it is does not matter
to counting. In the cache two workers are needed to meet at every lock, and two versions for
the cleanup to find an older one; with all times one tick and a clock of three, a
row expires, its buffer ends, and a cleanup comes before, between and after. The
packages of `status_board` have names of one and two digits with and without padding,
tests too few and too many, and two names that strip to one; packages of ten tests are
imported and their names checked, and only the loop over the tests is bounded to two: a
test that is not the last and one that is. Two runs of the freeze task are needed for
one to commit after the other has freed Redis; `pages` and `board_admin` have one, for
their questions do not depend on the number. Two registrations race for one name; a clock
of two has a tick before, in and after the contest.

Bounds that cut a behaviour off: `MaxRuns` for scoring histories, `MaxClock` in the
cache and the intake, `MaxTests`, `MaxCrashes`, `MaxInFlight` for judging, `MaxFaults`
for the intake. Four configurations switch the deadlock check off: the two of
scoring, whose histories end, `status_board` and `intake`, where all submissions are
judged at some time and nothing is left to do. All state spaces are finite and explored
completely.

**Fairness.** For the engine: the Go scheduler runs goroutines that can run, calls
return, the broker delivers while the prefetch allows it, and an engine that ended is
started again. A worker at `judge` owes a step, and hanging behind a broken checker is
one; a hung worker owes nothing. For the board: the engine judges what it did not drop, the contest
ends, messages are delivered, the timer fires, calls return. For the cache: a
worker that has a job takes its steps, and the cleanup goroutine its own; neither jobs
nor the clock nor new versions are assumed to go on. All weak fairness; no request,
failure, signal or rejudging is ever assumed to happen. Two caveats:
docker-compose does not start the engine, so `Restart` is an operator or a supervisor;
and `FreezeSelect` is assumed to succeed in the end, which holds unless every freeze
fails.

Symmetry is used on engines and verdicts in `engine_fleet`, on users and problems in
`scoring_rules`, and on registrations and requests in `intake`, which check safety only. Liveness runs use none.

## 4. The proofs

Every safety invariant and every action property that a passing run checks, and the
refinement, is also a theorem, for every value of the constants. The theorems use the
assumptions that are declared with the constants; four of them have hypotheses of their
own, named below with what happens without them.

### The engine

`ExecutionEngineProofs`, for any finite set of submissions and workers, any set of
engines and of failures:

| Theorem | States |
|---|---|
| `TypeCorrect` | `TypeOK`, and a worker past `select` holds a job, with a verdict once judged |
| `PoolIsSafe` | `JobQueueNeverBlocks` |
| `OneJudgePerSubmission` | `ExclusiveJudging` |
| `ResultsAreSound` | `AckedIsStored` |
| `PublishedWasStored` | `PublishedIsStored` |
| `VerdictsAreStable` | the action property `VerdictStable` |
| `NothingAckedUntold` | `AckedIsPublished` |
| `Refines` | `Spec => JudgesAsPromised`: every step is a step of SubmissionJudging or changes none of its variables |

The invariant is built in layers. `Typed` gives the shapes. `Owned` says where a
submission can be: with a live connection, the delivery channel, the consumer's hand,
`JobQueue` and the workers hold disjoint sets of submissions, all of them unsettled on
that channel, and ready messages and different engines' unsettled messages are disjoint.
Without a connection the engine holds at most what the prefetch count let in before
(`Disconnected`, `Bounded`): this is the part that is easy to miss, since the broker has
forgotten those messages while they still occupy `JobQueue`. `Recorded` relates program
counters to the database: what a worker is about to publish or acknowledge is stored,
and a submission without redelivery has at most the verdict its worker carries. `Told`
adds the leaderboard queue for runs without I/O errors. The refinement follows from
`Typed /\ Owned /\ Recorded`.

### Scoring

`ScoringProofs` is about the operators and `ScoringHistoryProofs` about every history
that users can build, of any length:

| Theorem | States |
|---|---|
| `DetailIsRule` | the loop over the sorted runs of a problem computes `RuleDetail`, the rule without a loop or a sort |
| `SameRunsSameDetail` | two listings of the same runs, no two of one second, have the same result |
| `ShiftedDetailsShiftScore` | accepted runs that move by at most d seconds each, with the same wrong attempts before them, move the score by at most d for each solved problem |
| `CompositeSortsAsICPC` | the composite number sorts standings as ICPC does, while penalties stay below the offset |
| `RunsBeforeACCount` | `CountsRunsBeforeAC` |
| `ArrivalIsIrrelevant` | `ArrivalOrderIsIrrelevant` |
| `CompositeRanksAsICPC` | `CompositeIsICPC` |

`DetailIsRule` is the base of the others. `SortedRuns` shows that the order which the
sort chooses exists and is a permutation; `Knows(detail, s, n)` says what the loop's
variable is after n runs of the sorted list s, and `KnowsMore` is one iteration;
`RulePermutes` shows that the rule gives the same for every numbering of the runs in
which the same run precedes the same. The library's induction theorems take a predicate
as parameter, which the provers cannot instantiate; `InductionLemmas` therefore states
induction for sets (a set of numbers that has 0 and with n also n + 1 has every number)
from the existence of a least number, and from it that a fold over a sequence exists and
is unique, and that a finite set can be listed in any total order.

### The leaderboard

`LeaderboardProofs`, for any finite sets of users, problems and submissions and every
failure that the hypotheses do not exclude:

| Theorem | States | Hypotheses | Invariant |
|---|---|---|---|
| `TypeCorrect` | `TypeOK`: scores are numbers for every history, a pending zAdd finds its message unacknowledged | none | `TypeInv` |
| `EntriesCountOnce` | `CountedOnce`, under every failure and recalculation | none | `OnceInv`: the lists of a user have exactly the processed submissions, each once and under its problem (`Tracked`) |
| `BoardFollowsMetadata` | `ScoreFollowsMetadata` | `CrashSpares` | `FollowInv`: the last score on its way for a user, or the one in Redis, is that of the metadata, unless a message of the user is in the queue |
| `LiveBoardIsComplete` | `LiveMatchesRows` | `NoRecalculation`, no publication lost | `LiveInv`: a stored verdict is in the queue or counted, an entry has the time of its message and the status of its row, whoever is on the board or about to be has metadata |
| `FrozenStandingsAreComplete` | `FrozenIsComplete` | `OnlyTheTask` | `FrozenInv`: past the pending check every row is judged, so statuses are constant, and a freeze that has computed its standings holds those of the rows |
| `FreezeWritesTheBoard` | `FreezeKeepsScores` | the three above, `RunsInOrder` | all of the above |
| `PageFailsLate` | `PageFailsOnlyOnceFrozen`, of `PagesSpec` | none beyond the property's | `ReadersInv`, `LiveInv` |
| `RowIsAnswered` | `RowSurvivesFreeze`, of `PagesSpec` | none beyond the property's | `ReadersInv`, `ResultsInv`: frozen results have everybody with a row |

`FollowInv` speaks of the last pending zAdd of a user and not of every one, because two
verdicts of a user may both be between script and zAdd; that zAdds keep the order of the
scripts is what makes the newer score win. It excepts users with a message in the queue,
because a crash between script and zAdd leaves the old score until the redelivery.
`LiveInv` must hold until the first commit; that no unlink came before, whatever runs of
the task overlap, is its part `FreedAfterCommit`. `FreezeWritesTheBoard` joins all of it:
at the first commit the processed submissions are the rated rows, and the lists of the hash
and those of the freeze have the same runs. The proof goes through the list of the live
entries in the order of creation: `SameRunsSameDetail` says that it counts as the list in
order of arrival does (`LiveRunsAreRows`), `ShiftedRunsShiftedDetail` that the rows, whose
seconds differ from its own by at most `ClockDrift`, have the same wrong attempts and an
accepted run at most that far away (`LiveDetailIsRowDetail`), and
`ShiftedDetailsShiftScore` adds the problems up.

What each hypothesis keeps out is a behaviour of the code, not of the model:

* `OnlyTheTask` (nothing judged twice, no forced freeze): a rejudging changes a row
  under the results, and a forced freeze skips the pending check.
* `CrashSpares` (no crash where users are recalculated by hand): no message repeats a
  recalculation that a crash cut off.
* `NoRecalculation` (nobody recalculates users by hand): a recalculation deletes the
  metadata first, and takes a row in QUEUE for processed.
* No publication lost: the engine's publish has no confirmation.
* `RunsInOrder` (of two runs of a user on one problem the one created later has a later
  second in its message, and no earlier one in its row): the consumer keeps the order of
  arrival for two messages of one second, and two requests in progress at once may take
  their seconds in one order and their rows in the other. That the seconds of row and
  message differ is not excluded: `ClockDrift` may be any number.

The instances of `board_freeze` and `pages` satisfy the hypotheses of the theorems about
their properties, `pages` with the publications it may lose.

### The problem cache

`ProblemCacheProofs`, for any sets of workers and problems, any number of versions and
items, and every ttl, buffer, interval and threshold:

| Theorem | States |
|---|---|
| `CacheTypeCorrect` | `TypeOK` |
| `CacheDirectoriesFollow` | `DirectoryFollowsStore`, with queries and downloads that fail while other workers go on |
| `CacheCompilesOnce` | `CheckerCompiledOnce` |
| `CacheKeepsWhatIsInUse` | `InUseIsKept` |

They follow from `CacheInvariant`. What has to be added to the four is `NothingIsAhead`
(no entry, key, worker or cleaner knows a version the row has not reached, or a time
that has not come) and `LookupsArePending` (a worker whose lookup of the row is within
the buffer still has an entry in `DbCache` that expires no earlier than the lookup; this
is what the cleanup, which computes with an older `now` than the clock, cannot find
expired). `InUseIsKept` is not inductive without both.

### Import, judging and the status hash

`StatusBoardProofs`, for any packages, imports and submissions, and without the bounds
`MaxTests`, `MaxCrashes` and `MaxInFlight` having any particular value:

| Theorem | States |
|---|---|
| `TestFilesAreInS3` | `TestFilesAreThere` |
| `WorkDirsAreActive` | `OnlyActiveWorkDirs` |
| `AcceptedIsEarned` | `AcceptedMeansEveryTest` |
| `PenaltiesAreEarned` | `JudgeFaultsCostNothing` |
| `BoardIsTyped` | `TypeOK` |
| `FinishedAreGone` | `FinishedLeavesTheHash` |

Three invariants, one for each service. `ImportInv` says what each step of an import has
made sure of (`Sound`): the files of a valid package have the names the engine computes,
what is uploaded is what was validated, a row exists only after the upload. `JudgeInv`
relates the results in the loop over the tests to the reports of the sandbox that they
came from (`JudgeSound`): every result before the last is AC and of a test that passed,
the last is AC exactly if that was the last test and passed too, and one that costs a
penalty has a run or a checker that is to blame. `BoardInv` says for a submission whose
verdict is stored which of its messages are still under way, and so whether the hash is
about to lose it (`Told`).

### The submission service

`SubmissionIntakeProofs`, for any sets of registrations, devices and requests, every
contest, token lifetime and number of faults:

| Theorem | States |
|---|---|
| `IntakeTypeCorrect` | `TypeOK`, with unique names and addresses |
| `IntakeRowsMatchMessages` | `RowsMatchMessages` |
| `IntakeFreezeMissesOnlySlow` | `FreezeMissesOnlySlowRequests` |
| `IntakeAccessNeedsALogin` | `AccessNeedsALogin` |

`IntakeInvariant` has the strengthening: `Agree` says for every place of the handler
what row, message and confirm may be (the properties speak only of its end); `Seen` says
that a rated request without a row, once the freeze is done, is either in `slow` or past
inserting; `TokensAreSigned` relates each token to the last login of its user. Since
`HandleSubmit` touches one request, the lemma `OneRequest` reduces most actions to it; a
closing channel and a crash touch them all and have lemmas of their own.

### Model-checked only

`RecoversUnlessStuck`, `ShutdownTerminates`, `JobsLeaveTheCache` and `EventuallyFrozen`:
liveness under fairness is out of the prover's reach. The three violated claims of
section 5 are counterexamples and stay with TLC.

## 5. Findings

Each is a run in which TLC finds a behaviour of the code that contradicts the
repository's own words (quoted in `PROJECT.json`).

| Run | Where | What happens |
|---|---|---|
| `engine_never_dropped` | worker.go:73 | a SIGTERM fails the database call of a running job, the message is discarded, the row stays QUEUE; README.md says none is ever dropped |
| `scoring_runtime_errors` | scoring.service.ts:37 | NZEC, SIGSEGV and other runtime errors cost no penalty |
| `board_abandoned` | freeze.task.ts:35 | one row that stays QUEUE keeps the contest from ever being frozen |

Other behaviours of the code that the modules have, and that shaped how the
properties are stated:

* main closes `JobQueue` while the consumer may hold a job it is about to send
  (main.go:38, rabbitmq.go:86): `ConsumerSendPanics` ends the process before its
  workers have finished.
* A recalculation of a user records rows still in QUEUE as processed
  (leaderboard.service.ts:173), and the script then ignores their verdicts:
  `LiveMatchesRows` fails with `Admin = {"user"}`. A crash in the middle of a
  recalculation leaves part of the metadata until the freeze: `ScoreFollowsMetadata`
  fails with `Admin = {"user"}` and crashes.
* Ties within one second are broken by arrival on the live board and by `created_at` in
  the freeze (scoring.service.ts:26): `FreezeKeepsScores` fails when `LiveTime` and
  `RowTime` map every submission to one second.
* The penalty counts seconds, and the live board truncates where the freeze rounds
  (submission-service main.go:153, freeze.service.ts:22): about half of the accepted runs
  are one second later in the frozen standings than on the live board, more when the
  INSERT is slow. Users whose penalties are close may change places at the freeze.
  `FreezeKeepsScores` allows `ClockDrift` for each accepted run and fails without that.
* Two runs of the freeze task may freeze one contest at once (freeze.task.ts:8). The second
  one rolls back on the primary key or writes the same rows: `FrozenIsComplete`.
* A penalty above the offset of scoring.service.ts:51 ranks more solved problems below
  fewer; hence the hypothesis of `CompositeIsICPC` and of the theorem.
* The page fails for everybody while some user's metadata is missing
  (leaderboard.service.ts:133 gives `computeUserScores` an object without problems);
  hence the hypotheses of `PageFailsOnlyOnceFrozen`.
* The leader of a running contest has no row: rank 0 is taken for no rank
  (leaderboard.service.ts:38); hence the exception in `RowSurvivesFreeze`.
* A verdict consumed after the unlink creates the Redis keys again, and they hide the
  frozen standings from then on (leaderboard.service.ts:84-88). `EventuallyFrozen` is
  about `contest_results`, not about the page.
* A checker that does not compile leaves its cache item locked (compile.go:44): each
  later job of that problem holds a worker for ever, its message is never settled, and
  `Wg.Wait` (main.go:41) does not return, so that a SIGTERM does not end the engine.
  `JobsLeaveTheCache`, `RecoversUnlessStuck` and `ShutdownTerminates` except these workers
  and fail without the exception.
* A download that fails leaves its directory half unpacked with no lock held until its
  worker's panic ends the process (s3.go:64-71, worker.go:73-79). The map has no item for
  it, so nobody is given the directory: `DirectoryFollowsStore`.
* An update that is sent later than the final one (worker.go:267) leaves a finished
  submission in the hash `active_submissions` for ever; so do a lost final update and a
  discarded job. `FinishedLeavesTheHash` names the first two.
* The live status is merged into the answer without being awaited (status.service.ts:42):
  the page has been serialised by then and never shows one.
* `FormatIsolateMetadata` takes a status it does not know for AC (formatter.go). The
  sandbox has no other status, so `AcceptedMeansEveryTest` holds.
* A publisher's channel that closes is never opened again: every later submission is
  refused until a restart. A connection that breaks under the publish gives a nil
  confirmation, and the handler panics with its row in QUEUE (rabbitmq.go:63-75). An
  INSERT whose client has left may be committed all the same (main.go:156). Each of
  these rows then keeps the contest from being frozen (`board_abandoned`).
* A confirm that comes too late deletes the row of a message that is judged: the UPDATE
  affects no row and is no error, and the leaderboard counts the verdict. `causes` has it
  as `unconfirmed`.
* The freeze may come between a request's look at the clock and its INSERT; the rated row
  is then missing from the standings (`slow` in `FreezeMissesOnlySlowRequests`).
* The route of `refreshToken` has no `authenticate`, and the handler reads the id of
  `request.user`: with a cookie every refresh fails (auth.controller.ts:117).
* After a logout the access token is taken until it expires, for nobody asks Redis. Two
  logins of a user in the same second make the same tokens, so the second does not end
  the session of the first.
* main-api casts `contests.id`, an INT, to uuid (`getContestById`,
  `getProblemsDataByContestId`): these queries fail, and the routes that need them.
* An import that fails after its uploads leaves their objects in S3 without a row.

## 6. Limits and plan

Not modelled, and staying so: the sandbox's command lines and files, HTTP parsing,
authentication headers and CORS, the contents of the XML and HTML of Polygon packages,
proxies and single-statement queries of main-api, the pages of status-service, the frontend
(not in the repository), and submission-service's cache, which is dead code.

What the modules leave out of the parts they do model:

* One contest is modelled: contests share nothing but the order in which the freeze task
  visits them. Several page requests share nothing with each other. At most one forced
  recalculation of a user runs at a time.
* `Leaderboard` neither inserts nor deletes rows: `FrozenIsComplete`, `RowSurvivesFreeze` and
  `EventuallyFrozen` are about the rows that exist when the contest starts. The rows that
  come late or go are in `SubmissionIntake`, which has no live board; joining the two is
  the first item of the plan.
* `PolygonImport` takes the removal of a work directory to succeed.
* `Judging` has an engine that fails by crashing or by a failed UPDATE; the other ways are
  those of `ExecutionEngine`. Times, memory and messages of a result decide no status.
* In `AuthSession` signing and storing a token are one step, as are the `get` and `del` of a
  logout; nothing else writes between them that a property could tell. Passwords are not
  modelled, and with them changing one. The refresh token's seven days are beyond every
  clock bound.
* That a node-redis client in subscriber mode may send other commands is taken from the
  code's use of it, as all the behaviour of RabbitMQ, Redis, PostgreSQL, S3 and Go's
  scheduler is.
* A hazard without a property has its reason in `PROJECT.json`.

Next, in this order:

1. The composition of intake, `SubmissionJudging` and the freeze, with the promise that a
   submission which was answered with 202 is in the frozen standings or has a known cause.
2. Theorems about the board with a forced freeze and with rejudged submissions: what the
   frozen standings are then guaranteed to have.
3. Several contests, for the order of the freeze task.
