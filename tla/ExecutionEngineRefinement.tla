--------------------- MODULE ExecutionEngineRefinement ---------------------
(* The refinement mapping from ExecutionEngine to SubmissionJudging: the   *)
(* broker's bookkeeping becomes one outcome per submission, and everything *)
(* inside the engine processes disappears.                                 *)
EXTENDS ExecutionEngine

OutcomeOf(s) ==
    IF s \in acked THEN "acked" ELSE IF s \in dropped THEN "dropped" ELSE "open"

Promise == INSTANCE SubmissionJudging
    WITH outcome <- [s \in Submissions |-> OutcomeOf(s)]

\* Every behaviour of the engines is a behaviour of SubmissionJudging: a
\* settled message never reopens, an Ack follows a stored verdict, a verdict
\* is replaced only after a redelivery, and the leaderboard hears only what
\* the row held (worker.go:129-169, rabbitmq.go:79-84).
JudgesAsPromised == Promise!Spec
============================================================================
