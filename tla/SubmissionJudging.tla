------------------------- MODULE SubmissionJudging -------------------------
(***************************************************************************)
(* What the execution engine promises about a submission, whatever the     *)
(* number of engines, workers and failures:                                *)
(*   - an open message is settled once: acknowledged after a verdict was   *)
(*     stored, or discarded;                                               *)
(*   - a verdict is stored while the message is open, and replaced only    *)
(*     after the message was redelivered;                                  *)
(*   - the leaderboard is told only verdicts that were stored, and only    *)
(*     those of RATED submissions.                                         *)
(* ExecutionEngine implements it (ExecutionEngineRefinement).              *)
(***************************************************************************)
CONSTANTS Submissions, Rated, Verdicts

VARIABLES
    outcome,      \* [Submissions -> "open", "acked" or "dropped"]
    redelivered,  \* submissions whose message came back to the queue
    stored,       \* [Submissions -> verdicts written to the row so far]
    status,       \* [Submissions -> the row's status]
    published     \* <<submission, verdict>> sent to the leaderboard

vars == <<outcome, redelivered, stored, status, published>>

Init ==
    /\ outcome = [s \in Submissions |-> "open"]
    /\ redelivered = {}
    /\ stored = [s \in Submissions |-> {}]
    /\ status = [s \in Submissions |-> "QUEUE"]
    /\ published = {}

\* A verdict reaches the row: the first one, or another after a redelivery.
Store(s, v) ==
    /\ outcome[s] = "open" \/ s \in redelivered
    /\ status[s] \in {"QUEUE", v} \/ s \in redelivered
    /\ stored' = [stored EXCEPT ![s] = @ \cup {v}]
    /\ status' = [status EXCEPT ![s] = v]
    /\ UNCHANGED <<outcome, redelivered, published>>

Publish(s, v) ==
    /\ s \in Rated
    /\ v \in stored[s]
    /\ published' = published \cup {<<s, v>>}
    /\ UNCHANGED <<outcome, redelivered, stored, status>>

\* A lost process or connection returns some open messages to the queue.
Redeliver(S) ==
    /\ \A s \in S : outcome[s] = "open"
    /\ redelivered' = redelivered \cup S
    /\ UNCHANGED <<outcome, stored, status, published>>

Acknowledge(s) ==
    /\ outcome[s] = "open"
    /\ stored[s] # {}
    /\ outcome' = [outcome EXCEPT ![s] = "acked"]
    /\ UNCHANGED <<redelivered, stored, status, published>>

Drop(s) ==
    /\ outcome[s] = "open"
    /\ outcome' = [outcome EXCEPT ![s] = "dropped"]
    /\ UNCHANGED <<redelivered, stored, status, published>>

Next ==
    \/ \E s \in Submissions :
          \/ \E v \in Verdicts : Store(s, v) \/ Publish(s, v)
          \/ Acknowledge(s)
          \/ Drop(s)
    \/ \E S \in SUBSET Submissions : Redeliver(S)

Spec == Init /\ [][Next]_vars
============================================================================
