------------------------- MODULE SubmissionIntake --------------------------
(***************************************************************************)
(* POST /submit of the submission service (HandleSubmit, PublishSubmission *)
(* and the three queries), for the sessions of AuthSession, with what it   *)
(* talks to: RabbitMQ and its publisher confirms, an engine at the other   *)
(* end of the queue (ExecutionEngine), and the freeze task of the          *)
(* leaderboard service (Leaderboard).                                      *)
(*                                                                         *)
(* A message is "none", "sent" while the broker has not stored it,         *)
(* "queued" until an engine settles it, and "judged". (ExecutionEngine has *)
(* the ways in which an engine fails to.)                                  *)
(***************************************************************************)
EXTENDS AuthSession, FiniteSets

CONSTANTS
    Requests,
    ContestStart, ContestEnd,  \* the contest all requests are for
    MaxFaults                  \* bound: times the AMQP channel closes

ASSUME IntakeConstants ==
    /\ ContestStart \in Nat /\ ContestEnd \in Nat /\ MaxFaults \in Nat
    /\ None \notin {"ack", "nack"}

VARIABLES
    request,  \* [Requests -> [at, type, confirm, answer, causes]]
    row,      \* [Requests -> "absent", "QUEUE" or "judged"]: submissions.status
    message,  \* [Requests -> where its message is]
    channel,  \* the publisher's AMQP channel: "open" or "closed"
    freeze,   \* [done, counted, slow]; counted and slow are history
    faults

intakeVars == <<request, row, message, channel, freeze, faults>>
vars == <<authVars, intakeVars>>

\* causes is history: the broker's answer was lost ("unconfirmed"), the handler
\* left a row it could not delete ("kept"), or the process died ("crash").
NewRequest == [at |-> "new", type |-> None, confirm |-> None, answer |-> None,
               causes |-> {}]

Init ==
    /\ AuthInit
    /\ request = [r \in Requests |-> NewRequest]
    /\ row = [r \in Requests |-> "absent"]
    /\ message = [r \in Requests |-> "none"]
    /\ channel = "open"
    /\ freeze = [done |-> FALSE, counted |-> {}, slow |-> {}]
    /\ faults = 0

At(r, place) == request[r].at = place
Goto(r, place) == request' = [request EXCEPT ![r].at = place]
\* What is left of a request when its handler ends.
Ended(req, answer, causes) ==
    [req EXCEPT !.at = "answered", !.answer = answer, !.confirm = None,
                !.causes = @ \cup causes]
Answer(r, answer, causes) ==
    request' = [request EXCEPT ![r] = Ended(@, answer, causes)]
AnswerNoRow(r) ==
    request' = [request EXCEPT ![r] = [Ended(@, 500, {}) EXCEPT !.type = None]]

-----------------------------------------------------------------------------
(* The AMQP channel closes, and nobody opens a new one: what was sent may  *)
(* be lost or stored all the same, and pending confirms become nacks.      *)

SomeSentAreLost ==
    \E lost \in SUBSET {r \in Requests : message[r] = "sent"} :
        message' = [r \in Requests |-> IF r \in lost THEN "none" ELSE message[r]]

Cut(req) ==
    IF req.at = "waiting" /\ req.confirm = None
    THEN [req EXCEPT !.confirm = "nack", !.causes = @ \cup {"unconfirmed"}]
    ELSE req

Closing ==
    /\ channel = "open" /\ faults < MaxFaults
    /\ channel' = "closed"
    /\ faults' = faults + 1
    /\ SomeSentAreLost

-----------------------------------------------------------------------------
(* HandleSubmit.                                                           *)

\* AuthMiddleware. A request without a valid token, with bad JSON or for an
\* unknown problem is answered without a trace.
Authenticate(r) ==
    /\ At(r, "new")
    /\ \E d \in Devices : ValidToken(device[d].access)
    /\ Goto(r, "authenticated")
    /\ UNCHANGED <<authVars, row, message, channel, freeze, faults>>

\* Mutant: the contest lasts a tick longer than the freeze task thinks.
InContestWithGrace == clock >= ContestStart /\ clock <= ContestEnd + 1

InContest == clock >= ContestStart /\ clock <= ContestEnd

\* GetProblemData has answered: the contest's times against the clock.
Classify(r) ==
    /\ At(r, "authenticated")
    /\ request' = [request EXCEPT ![r].at = "classified",
         ![r].type = IF InContest THEN "RATED" ELSE "PRACTICE"]
    /\ UNCHANGED <<authVars, row, message, channel, freeze, faults>>

\* CreateSubmission; the column's default makes the status QUEUE.
CreateSubmission(r) ==
    /\ At(r, "classified")
    /\ row' = [row EXCEPT ![r] = "QUEUE"]
    /\ Goto(r, "created")
    /\ UNCHANGED <<authVars, message, channel, freeze, faults>>

\* The query fails, or the client leaves and cancels it: then the INSERT may
\* have been committed.
CreateFails(r) ==
    /\ At(r, "classified")
    /\ \/ row' = [row EXCEPT ![r] = "QUEUE"] /\ Answer(r, 500, {"kept"})
       \/ UNCHANGED row /\ AnswerNoRow(r)
    /\ UNCHANGED <<authVars, message, channel, freeze, faults>>

\* PublishSubmission: refused when the channel is known to be closed.
Publish(r) ==
    /\ At(r, "created")
    /\ IF channel = "open"
       THEN Goto(r, "waiting") /\ message' = [message EXCEPT ![r] = "sent"]
       ELSE Goto(r, "unpublished") /\ UNCHANGED message
    /\ UNCHANGED <<authVars, row, channel, freeze, faults>>

\* The connection breaks under the publish: its error is overwritten and the
\* confirmation is nil, so WaitContext panics and net/http drops the request.
PublishPanics(r) ==
    /\ At(r, "created")
    /\ Closing
    /\ request' = [q \in Requests |->
         IF q = r THEN Ended(request[r], None, {"kept"}) ELSE Cut(request[q])]
    /\ UNCHANGED <<authVars, row, freeze>>

Accept(r) ==
    /\ At(r, "waiting") /\ request[r].confirm = "ack"
    /\ Answer(r, 202, {})
    /\ UNCHANGED <<authVars, row, message, channel, freeze, faults>>

\* A nack, which is also what a pending confirm becomes when the channel
\* closes; or five seconds are over, whatever the broker does later (select
\* may choose the timeout even next to an ack).
ConfirmFails(r) ==
    /\ At(r, "waiting")
    /\ \/ request[r].confirm = "nack" /\ Goto(r, "unpublished")
       \/ request' = [request EXCEPT ![r].at = "unpublished",
                                     ![r].causes = @ \cup {"unconfirmed"}]
    /\ UNCHANGED <<authVars, row, message, channel, freeze, faults>>

\* Mutant: the handler returns without deleting the row.
KeepRow(r) ==
    /\ At(r, "unpublished")
    /\ Answer(r, 500, {})
    /\ UNCHANGED <<authVars, row, message, channel, freeze, faults>>

DeleteSubmission(r) ==
    /\ At(r, "unpublished")
    /\ row' = [row EXCEPT ![r] = "absent"]
    /\ AnswerNoRow(r)
    /\ UNCHANGED <<authVars, message, channel, freeze, faults>>

\* The error is logged; r.Context() is cancelled when the client has left.
DeleteFails(r) ==
    /\ At(r, "unpublished")
    /\ Answer(r, 500, {"kept"})
    /\ UNCHANGED <<authVars, row, message, channel, freeze, faults>>

-----------------------------------------------------------------------------
(* The broker, and the service's process.                                  *)

\* The durable queue has the persistent message; then it may be confirmed.
Store(r) ==
    /\ message[r] = "sent"
    /\ message' = [message EXCEPT ![r] = "queued"]
    /\ UNCHANGED <<authVars, request, row, channel, freeze, faults>>

Confirm(r) ==
    /\ At(r, "waiting") /\ channel = "open" /\ request[r].confirm = None
    /\ message[r] # "sent"
    /\ request' = [request EXCEPT ![r].confirm = "ack"]
    /\ UNCHANGED <<authVars, row, message, channel, freeze, faults>>

Nack(r) ==
    /\ At(r, "waiting") /\ channel = "open" /\ message[r] = "sent"
    /\ message' = [message EXCEPT ![r] = "none"]
    /\ request' = [request EXCEPT ![r].confirm = "nack"]
    /\ UNCHANGED <<authVars, row, channel, freeze, faults>>

\* The broker restarts, or the connection is cut.
ChannelCloses ==
    /\ Closing
    /\ request' = [r \in Requests |-> Cut(request[r])]
    /\ UNCHANGED <<authVars, row, freeze>>

\* The process dies and starts again: NewRabbitMQPublisher.
Restart ==
    /\ channel = "open" => faults < MaxFaults
    /\ faults' = IF channel = "open" THEN faults + 1 ELSE faults
    /\ channel' = "open"
    /\ SomeSentAreLost
    /\ request' = [r \in Requests |->
         IF request[r].at \in {"new", "answered"} THEN request[r]
         ELSE Ended(request[r], None, {"crash"})]
    /\ UNCHANGED <<authVars, row, freeze>>

-----------------------------------------------------------------------------
(* The other ends.                                                         *)

\* The UPDATE of a row that is gone is no error; the verdict counts all the
\* same (Leaderboard).
Judge(r) ==
    /\ message[r] = "queued"
    /\ message' = [message EXCEPT ![r] = "judged"]
    /\ row' = [row EXCEPT ![r] = IF @ = "QUEUE" THEN "judged" ELSE @]
    /\ UNCHANGED <<authVars, request, channel, freeze, faults>>

\* checkForFinishedContests: the contest is over and no row is in QUEUE.
Freeze ==
    /\ ~freeze.done
    /\ clock > ContestEnd
    /\ \A r \in Requests : row[r] # "QUEUE"
    /\ freeze' = [done |-> TRUE,
                  counted |-> {r \in Requests : row[r] = "judged"},
                  slow |-> {r \in Requests : At(r, "classified")}]
    /\ UNCHANGED <<authVars, request, row, message, channel, faults>>

SubmitStep(r) ==
    \/ Authenticate(r) \/ Classify(r) \/ CreateSubmission(r)
    \/ CreateFails(r) \/ Publish(r) \/ PublishPanics(r) \/ Accept(r)
    \/ ConfirmFails(r) \/ DeleteSubmission(r) \/ DeleteFails(r)

Next ==
    \/ AuthStep /\ UNCHANGED intakeVars
    \/ \E r \in Requests :
          \/ SubmitStep(r)
          \/ Store(r) \/ Confirm(r) \/ Nack(r) \/ Judge(r)
    \/ ChannelCloses \/ Restart \/ Freeze

Spec == Init /\ [][Next]_vars

-----------------------------------------------------------------------------
(* Properties.                                                             *)

Causes == {"kept", "unconfirmed", "crash"}

\* Every variable keeps its type, and the accounts their unique names.
TypeOK ==
    /\ AuthTypeOK
    /\ request \in [Requests ->
         [at : {"new", "authenticated", "classified", "created", "waiting",
                "unpublished", "answered"},
          type : {"RATED", "PRACTICE", None}, confirm : {"ack", "nack", None},
          answer : {202, 500, None}, causes : SUBSET Causes]]
    /\ row \in [Requests -> {"absent", "QUEUE", "judged"}]
    /\ message \in [Requests ->
         {"none", "sent", "queued", "judged"}]
    /\ channel \in {"open", "closed"}
    /\ freeze \in [done : BOOLEAN, counted : SUBSET Requests,
                   slow : SUBSET Requests]
    /\ faults \in 0..MaxFaults

HasCause(r, causes) == request[r].causes \cap causes # {}
Answered(r) == request[r].at = "answered"

\* The client was told "queued": the row is there, and so is the message, or
\* the verdict.
AcceptedIsKept(r) ==
    request[r].answer = 202 =>
        \/ row[r] = "QUEUE" /\ message[r] = "queued"
        \/ row[r] = "judged" /\ message[r] = "judged"

\* Nothing of a submission that was refused is judged, unless the broker's
\* answer was lost.
RefusedIsNotJudged(r) ==
    Answered(r) /\ request[r].answer # 202 /\ message[r] # "none" =>
        HasCause(r, {"unconfirmed", "crash"})

\* A row does not wait for a message that was never stored, unless the
\* handler could not delete it any more.
WaitingHasAMessage(r) ==
    Answered(r) /\ row[r] = "QUEUE" /\ message[r] = "none" =>
        HasCause(r, {"kept", "crash"})

\* The row and the message of a submission are written one after the other,
\* in two systems, by a handler that may fail or be abandoned in between:
\* they agree once it has ended, and each way in which they do not is known.
RowsMatchMessages ==
    \A r \in Requests :
        AcceptedIsKept(r) /\ RefusedIsNotJudged(r) /\ WaitingHasAMessage(r)

\* The standings that a freeze stores for ever lack a rated submission only
\* if its handler had looked at the clock before the freeze, and not yet
\* inserted the row.
FreezeMissesOnlySlowRequests ==
    freeze.done =>
        \A r \in Requests :
            request[r].type = "RATED" /\ row[r] # "absent" =>
                r \in freeze.counted \cup freeze.slow
=============================================================================
