------------------------------ MODULE Judging ------------------------------
(***************************************************************************)
(* How a worker judges one submission: RunWorker, ExecuteWorker,           *)
(* PostExecute and PublishStatusUpdate of worker/worker.go, for problems   *)
(* that PolygonImport has inserted. Deliveries, acknowledgements and the   *)
(* ways an engine fails are ExecutionEngine's; here a crash takes the job  *)
(* back to the queue and an error of the UPDATE discards it.               *)
(***************************************************************************)
EXTENDS PolygonImport, SandboxVerdicts, Sequences

CONSTANTS
    Submissions,
    MaxTests,     \* bound: tests of the problems that are judged
    MaxCrashes,   \* bound: crashes of an engine
    MaxInFlight   \* bound: status updates of a submission not yet sent

VARIABLES
    queue,     \* submissions whose message RabbitMQ holds
    row,       \* [Submissions -> status in the database]
    job,       \* [Submissions -> the worker's state]
    inFlight,  \* [Submissions -> status messages whose goroutine has not run]
    crashes

judgeVars == <<queue, row, job, inFlight, crashes>>

\* results is the list of statuses in the row's JSON, outcomes what the
\* sandbox reported of each test: <<the program's run, the checker's run>>.
NoJob == [at |-> "none", problem |-> "none", test |-> 0, results |-> <<>>,
          outcomes |-> <<>>, verdict |-> "none"]

JudgeInit ==
    /\ queue = Submissions
    /\ row = [s \in Submissions |-> "QUEUE"]
    /\ job = [s \in Submissions |-> NoJob]
    /\ inFlight = [s \in Submissions |-> {}]
    /\ crashes = 0

TestCount(s) == import[job[s].problem].package.count

\* A test's number is only part of "Running on test i".
Message(status, test, running) ==
    [status |-> status, test |-> test, running |-> running]
Room(s) == Cardinality(inFlight[s]) < MaxInFlight

\* Mutant: every update says that the submission is running.
AlwaysRunning(s, status, test, verdict) ==
    /\ Room(s)
    /\ inFlight' = [inFlight EXCEPT ![s] = @ \cup {Message(status, test, TRUE)}]

\* The message is built at once and sent by a goroutine of its own.
PublishStatusUpdate(s, status, test, verdict) ==
    /\ Room(s)
    /\ inFlight' = [inFlight EXCEPT
                      ![s] = @ \cup {Message(status, test, status # verdict)}]

\* A worker takes the message of a submission to an imported problem.
Start(s) ==
    /\ s \in queue
    /\ \E p \in problems :
          /\ import[p].package.count <= MaxTests
          /\ job' = [job EXCEPT ![s] = [NoJob EXCEPT !.at = "started",
                                                    !.problem = p]]
    /\ queue' = queue \ {s}
    /\ PublishStatusUpdate(s, "Running", 0, "none")
    /\ UNCHANGED <<row, crashes>>

\* PreExecute is done (ProblemCache).
Compile(s) ==
    /\ job[s].at = "started"
    /\ job' = [job EXCEPT ![s].at = "compile"]
    /\ PublishStatusUpdate(s, "Compiling", 0, "none")
    /\ UNCHANGED <<queue, row, crashes>>

Judged(s, results, outcomes) ==
    job' = [job EXCEPT ![s].at = "judged", ![s].results = results,
                       ![s].outcomes = outcomes]

\* Both programs have a binary; a row without tests has an INT verdict.
Compiled(s) ==
    /\ job[s].at = "compile"
    /\ IF TestCount(s) = 0
       THEN Judged(s, <<"INT">>, <<>>)
       ELSE job' = [job EXCEPT ![s].at = "test", ![s].test = 1]
    /\ UNCHANGED <<queue, row, inFlight, crashes>>

\* The checker has none: INT. The user's program has none: CompileError.
CompileFails(s) ==
    /\ job[s].at = "compile"
    /\ \/ Judged(s, <<"INT">>, <<>>)
       \/ \E meta \in Reports : Judged(s, <<CompileError(meta)>>, <<>>)
    /\ UNCHANGED <<queue, row, inFlight, crashes>>

Announce(s) ==
    /\ job[s].at = "test"
    /\ job' = [job EXCEPT ![s].at = "run"]
    /\ PublishStatusUpdate(s, "Testing", job[s].test, "none")
    /\ UNCHANGED <<queue, row, crashes>>

\* Mutant: the last test is not run.
RunOneLess(s, user, checker) ==
    LET status == IF ExecuteUserCode(user) # "AC" THEN ExecuteUserCode(user)
                  ELSE ExecuteChecker(checker)
        results == Append(job[s].results, status)
        outcomes == Append(job[s].outcomes, <<user, checker>>)
    IN  /\ job[s].at = "run"
        /\ IF status # "AC" \/ job[s].test >= TestCount(s) - 1
           THEN Judged(s, results, outcomes)
           ELSE job' = [job EXCEPT ![s].at = "test", ![s].test = @ + 1,
                                   ![s].results = results,
                                   ![s].outcomes = outcomes]
        /\ UNCHANGED <<queue, row, inFlight, crashes>>

\* One turn of the loop over the tests: the program, then the checker.
RunTest(s, user, checker) ==
    LET status == IF ExecuteUserCode(user) # "AC" THEN ExecuteUserCode(user)
                  ELSE ExecuteChecker(checker)
        results == Append(job[s].results, status)
        outcomes == Append(job[s].outcomes, <<user, checker>>)
    IN  /\ job[s].at = "run"
        /\ IF status # "AC" \/ job[s].test = TestCount(s)
           THEN Judged(s, results, outcomes)
           ELSE job' = [job EXCEPT ![s].at = "test", ![s].test = @ + 1,
                                   ![s].results = results,
                                   ![s].outcomes = outcomes]
        /\ UNCHANGED <<queue, row, inFlight, crashes>>

\* PostExecute: the status of the last result becomes the verdict.
Save(s) ==
    /\ job[s].at = "judged"
    /\ LET verdict == job[s].results[Len(job[s].results)] IN
          /\ row' = [row EXCEPT ![s] = verdict]
          /\ job' = [job EXCEPT ![s].at = "saved", ![s].verdict = verdict]
    /\ UNCHANGED <<queue, inFlight, crashes>>

SaveFails(s) ==
    /\ job[s].at = "judged"
    /\ job' = [job EXCEPT ![s] = [NoJob EXCEPT !.at = "dropped"]]
    /\ UNCHANGED <<queue, row, inFlight, crashes>>

\* The final status and the Ack.
Report(s) ==
    /\ job[s].at = "saved"
    /\ job' = [job EXCEPT ![s] = [NoJob EXCEPT !.at = "acked"]]
    /\ PublishStatusUpdate(s, job[s].verdict, 0, job[s].verdict)
    /\ UNCHANGED <<queue, row, crashes>>

\* The engine dies with the goroutines of its updates; the message returns.
EngineCrash(s) ==
    /\ job[s].at \notin {"none", "acked", "dropped"}
    /\ crashes < MaxCrashes
    /\ crashes' = crashes + 1
    /\ queue' = queue \cup {s}
    /\ job' = [job EXCEPT ![s] = NoJob]
    /\ inFlight' = [inFlight EXCEPT ![s] = {}]
    /\ UNCHANGED row

JudgeStep(s) ==
    \/ Start(s) \/ Compile(s) \/ Compiled(s) \/ CompileFails(s) \/ Announce(s)
    \/ \E user, checker \in Reports :
          /\ ExecuteUserCode(user) # "AC" => checker = NoMeta  \* it is not run
          /\ RunTest(s, user, checker)
    \/ Save(s) \/ SaveFails(s) \/ Report(s) \/ EngineCrash(s)

-----------------------------------------------------------------------------
(* Properties.                                                             *)

Rules == INSTANCE Scoring WITH PenaltyOffset <- 1

HasVerdict(s) == job[s].at \in {"judged", "saved"}
Last(s) == job[s].results[Len(job[s].results)]

\* The program's own run ended normally, and the checker said "accepted".
Passed(outcome) == outcome = <<Meta("", 0, 0), Meta("", 0, 0)>>

\* A submission is accepted exactly if the sandbox saw its program and the
\* checker succeed on every test of the package, and otherwise its verdict is
\* that of the first test that did not go well: every result before the last
\* is AC, and nothing ran after a failure.
AcceptedMeansEveryTest ==
    \A s \in Submissions :
        HasVerdict(s) =>
            /\ \A k \in 1..(Len(job[s].results) - 1) :
                  job[s].results[k] = "AC" /\ Passed(job[s].outcomes[k])
            /\ Last(s) = "AC" <=>
                  /\ Len(job[s].outcomes) = TestCount(s)
                  /\ TestCount(s) > 0
                  /\ \A k \in DOMAIN job[s].outcomes : Passed(job[s].outcomes[k])

\* The program's run is to blame: it was killed, failed or ran out of time.
Blamed(meta) == meta.status \in {"TO", "SG", "RE"}

\* A failure on the judge's side never costs a contestant a penalty: a
\* verdict the leaderboard penalises (scoring.service.ts:37) comes from a run
\* of the program that failed, or from a checker that exited with 1 or 2.
JudgeFaultsCostNothing ==
    \A s \in Submissions :
        HasVerdict(s) /\ Last(s) \in Rules!Penalised =>
            /\ job[s].outcomes # <<>>
            /\ LET outcome == job[s].outcomes[Len(job[s].outcomes)] IN
                  \/ Blamed(outcome[1])
                  \/ outcome[2].status = "RE" /\ outcome[2].code \in {1, 2}
=============================================================================
