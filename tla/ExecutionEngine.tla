-------------------------- MODULE ExecutionEngine --------------------------
(***************************************************************************)
(* The execution engine (src/execution-engine): processes that take        *)
(* submissions from a RabbitMQ queue, judge them on a pool of workers,     *)
(* store the verdict in PostgreSQL, publish it for the leaderboard and     *)
(* settle the message.                                                     *)
(*                                                                         *)
(* One engine process e runs these goroutines:                             *)
(*   main      waits for SIGTERM, closes JobQueue, waits for the workers   *)
(*   consumer  moves deliveries of the AMQP channel into JobQueue          *)
(*   workers   take jobs from JobQueue                                     *)
(* The broker, the database and the leaderboard queue outlive the process. *)
(*                                                                         *)
(* Queues are sets: the code promises no order between submissions, every  *)
(* idle worker and every engine competes for the next one, and a set lets  *)
(* every order happen.  A submission is never twice in one queue of one    *)
(* engine (ExecutionEngineProofs, Disjoint), so a set loses no count.      *)
(***************************************************************************)
EXTENDS Naturals, FiniteSets

CONSTANTS
    Submissions,  \* the submissions; each has one row and one message
    Rated,        \* those of type RATED
    Malformed,    \* those whose message body does not decode
    Engines,      \* engine processes that consume the same queue
    Workers,      \* the workers of one engine
    Verdicts,     \* the final statuses (AC, WA, ...)
    Faults,       \* which kinds of failure the environment produces
    ProblemOf,    \* the problem of each submission
    Nil           \* a nil pointer: no job, no verdict

WorkerCount == Cardinality(Workers)

FaultKinds == {"sigterm", "kill", "connection", "io", "checker"}

Problems == {ProblemOf[s] : s \in Submissions}

ASSUME SubmissionsAssumption ==
    /\ IsFiniteSet(Submissions)
    /\ Rated \subseteq Submissions
    /\ Malformed \subseteq Submissions
    /\ Nil \notin Submissions

ASSUME WorkersAssumption == IsFiniteSet(Workers) /\ Workers # {}

ASSUME VerdictsAssumption == Nil \notin Verdicts /\ "QUEUE" \notin Verdicts

ASSUME FaultsAssumption == Faults \subseteq FaultKinds

VARIABLES
    \* RabbitMQ
    ready,        \* messages waiting in the durable queue
    unacked,      \* [Engines -> messages delivered on e's channel, unsettled]
    acked,        \* messages the broker removed because of an Ack
    dropped,      \* messages the broker removed because of a Nack
    redelivered,  \* messages returned to the queue at least once
    \* PostgreSQL and the leaderboard queue
    status,       \* [Submissions -> the status column]
    stored,       \* [Submissions -> every verdict an UPDATE ever wrote]
    published,    \* <<submission, verdict>> on the leaderboard queue
    \* the engine processes
    proc,         \* [Engines -> "up", "exited" or "crashed"]
    ctxDone,      \* [Engines -> the signal context is cancelled]
    closed,       \* [Engines -> JobQueue is closed]
    connected,    \* [Engines -> the consumer's AMQP connection is up]
    deliveries,   \* [Engines -> content of the deliveries channel]
    consumer,     \* [Engines -> program counter and job in hand]
    jobQueue,     \* [Engines -> content of JobQueue]
    worker,       \* [Engines -> [Workers -> pc, job, job.Verdict]]
    broken        \* [Engines -> problems whose cache item was left locked]

broker  == <<ready, unacked, acked, dropped, redelivered>>
results == <<status, stored, published>>
memory  == <<closed, connected, deliveries, consumer, jobQueue, worker, broken>>
vars    == <<broker, results, proc, ctxDone, memory>>

ConsumerPC == {"start", "select", "send", "done"}
WorkerPC   == {"select", "load", "judge", "hung", "save", "saving",
               "publish", "ack", "nack", "log", "stopped"}

TypeOK ==
    /\ ready \subseteq Submissions
    /\ unacked \in [Engines -> SUBSET Submissions]
    /\ acked \subseteq Submissions
    /\ dropped \subseteq Submissions
    /\ redelivered \subseteq Submissions
    /\ status \in [Submissions -> Verdicts \cup {"QUEUE"}]
    /\ stored \in [Submissions -> SUBSET Verdicts]
    /\ published \subseteq Rated \X Verdicts
    /\ proc \in [Engines -> {"up", "exited", "crashed"}]
    /\ ctxDone \in [Engines -> BOOLEAN]
    /\ closed \in [Engines -> BOOLEAN]
    /\ connected \in [Engines -> BOOLEAN]
    /\ deliveries \in [Engines -> SUBSET Submissions]
    /\ consumer \in [Engines -> [pc: ConsumerPC, job: Submissions \cup {Nil}]]
    /\ jobQueue \in [Engines -> SUBSET Submissions]
    /\ worker \in [Engines -> [Workers ->
          [pc: WorkerPC, job: Submissions \cup {Nil}, verdict: Verdicts \cup {Nil}]]]
    /\ broken \in [Engines -> SUBSET Problems]

ConsumerAt(pc, s) == [pc |-> pc, job |-> s]
WorkerAt(pc, s, v) == [pc |-> pc, job |-> s, verdict |-> v]

IdleWorkers == [w \in Workers |-> WorkerAt("select", Nil, Nil)]

Init ==
    /\ ready = Submissions
    /\ unacked = [e \in Engines |-> {}]
    /\ acked = {}
    /\ dropped = {}
    /\ redelivered = {}
    /\ status = [s \in Submissions |-> "QUEUE"]
    /\ stored = [s \in Submissions |-> {}]
    /\ published = {}
    /\ proc = [e \in Engines |-> "up"]
    /\ ctxDone = [e \in Engines |-> FALSE]
    /\ closed = [e \in Engines |-> FALSE]
    /\ connected = [e \in Engines |-> TRUE]
    /\ deliveries = [e \in Engines |-> {}]
    /\ consumer = [e \in Engines |-> ConsumerAt("start", Nil)]
    /\ jobQueue = [e \in Engines |-> {}]
    /\ worker = [e \in Engines |-> IdleWorkers]
    /\ broken = [e \in Engines |-> {}]

----------------------------------------------------------------------------
(* The broker (RabbitMQ).                                                  *)

\* basic.deliver: pushed while the channel holds fewer unsettled messages
\* than the prefetch count, also after Consume returned on a cancelled
\* context, since the AMQP consumer is never cancelled.
Deliver(e) ==
    /\ proc[e] = "up"
    /\ connected[e]
    /\ consumer[e].pc # "start"
    /\ Cardinality(unacked[e]) < WorkerCount
    /\ \E s \in ready :
          /\ ready' = ready \ {s}
          /\ unacked' = [unacked EXCEPT ![e] = @ \cup {s}]
          /\ deliveries' = [deliveries EXCEPT ![e] = @ \cup {s}]
    /\ UNCHANGED <<acked, dropped, redelivered, results, proc, ctxDone,
                   closed, connected, consumer, jobQueue, worker, broken>>

\* A channel that goes away returns what it left unsettled to the queue.
Requeue(e) ==
    /\ ready' = ready \cup unacked[e]
    /\ redelivered' = redelivered \cup unacked[e]
    /\ unacked' = [unacked EXCEPT ![e] = {}]
    /\ UNCHANGED <<acked, dropped>>

\* Mutant: Ack(multiple = true) settles everything outstanding on the channel.
AckMultiple(e, s) ==
    /\ unacked' = [unacked EXCEPT ![e] = {}]
    /\ acked' = IF connected[e] THEN acked \cup unacked[e] ELSE acked
    /\ UNCHANGED <<ready, dropped, redelivered>>

\* delivery.Ack(false); on a dead connection an error nobody looks at.
Ack(e, s) ==
    /\ unacked' = [unacked EXCEPT ![e] = @ \ {s}]
    /\ acked' = IF connected[e] THEN acked \cup {s} ELSE acked
    /\ UNCHANGED <<ready, dropped, redelivered>>

\* delivery.Nack(false, false): no requeue, and the queue has no dead-letter
\* exchange, so the broker discards the message.
Discard(e, s) ==
    /\ unacked' = [unacked EXCEPT ![e] = @ \ {s}]
    /\ dropped' = IF connected[e] THEN dropped \cup {s} ELSE dropped
    /\ UNCHANGED <<ready, acked, redelivered>>

\* The end of a process: its memory is gone, its connection closes.
ProcessEnds(e, how) ==
    /\ proc' = [proc EXCEPT ![e] = how]
    /\ Requeue(e)
    /\ ctxDone' = [ctxDone EXCEPT ![e] = FALSE]
    /\ closed' = [closed EXCEPT ![e] = FALSE]
    /\ connected' = [connected EXCEPT ![e] = FALSE]
    /\ deliveries' = [deliveries EXCEPT ![e] = {}]
    /\ consumer' = [consumer EXCEPT ![e] = ConsumerAt("start", Nil)]
    /\ jobQueue' = [jobQueue EXCEPT ![e] = {}]
    /\ worker' = [worker EXCEPT ![e] = IdleWorkers]
    /\ broken' = [broken EXCEPT ![e] = {}]
    /\ UNCHANGED results

----------------------------------------------------------------------------
(* The consumer goroutine.                                                 *)

\* Consume registers the AMQP consumer.
ConsumerSubscribe(e) ==
    /\ proc[e] = "up"
    /\ consumer[e].pc = "start"
    /\ connected[e]
    /\ consumer' = [consumer EXCEPT ![e] = ConsumerAt("select", Nil)]
    /\ UNCHANGED <<broker, results, proc, ctxDone, closed, connected,
                   deliveries, jobQueue, worker, broken>>

\* Consume fails at once; main's goroutine cancels the context.
ConsumerSubscribeFails(e) ==
    /\ proc[e] = "up"
    /\ consumer[e].pc = "start"
    /\ ~connected[e]
    /\ consumer' = [consumer EXCEPT ![e] = ConsumerAt("done", Nil)]
    /\ ctxDone' = [ctxDone EXCEPT ![e] = TRUE]
    /\ UNCHANGED <<broker, results, proc, closed, connected, deliveries,
                   jobQueue, worker, broken>>

\* case <-ctx.Done()
ConsumerStop(e) ==
    /\ proc[e] = "up"
    /\ consumer[e].pc = "select"
    /\ ctxDone[e]
    /\ consumer' = [consumer EXCEPT ![e] = ConsumerAt("done", Nil)]
    /\ UNCHANGED <<broker, results, proc, ctxDone, closed, connected,
                   deliveries, jobQueue, worker, broken>>

\* Mutant: the message is acknowledged on receipt.
ReceiveAndAck(e) ==
    /\ proc[e] = "up"
    /\ consumer[e].pc = "select"
    /\ \E s \in deliveries[e] \ Malformed :
          /\ deliveries' = [deliveries EXCEPT ![e] = @ \ {s}]
          /\ consumer' = [consumer EXCEPT ![e] = ConsumerAt("send", s)]
          /\ Ack(e, s)
    /\ UNCHANGED <<results, proc, ctxDone, closed, connected, jobQueue,
                   worker, broken>>

\* case delivery := <-deliveries, when the body decodes
ConsumerReceive(e) ==
    /\ proc[e] = "up"
    /\ consumer[e].pc = "select"
    /\ \E s \in deliveries[e] \ Malformed :
          /\ deliveries' = [deliveries EXCEPT ![e] = @ \ {s}]
          /\ consumer' = [consumer EXCEPT ![e] = ConsumerAt("send", s)]
    /\ UNCHANGED <<broker, results, proc, ctxDone, closed, connected,
                   jobQueue, worker, broken>>

\* case delivery := <-deliveries, when it does not
ConsumerReject(e) ==
    /\ proc[e] = "up"
    /\ consumer[e].pc = "select"
    /\ \E s \in deliveries[e] \cap Malformed :
          /\ deliveries' = [deliveries EXCEPT ![e] = @ \ {s}]
          /\ Discard(e, s)
    /\ UNCHANGED <<results, proc, ctxDone, closed, connected, consumer,
                   jobQueue, worker, broken>>

\* Mutant: the consumer dials again and keeps the jobs it had buffered.
EOFRedials(e) ==
    /\ proc[e] = "up"
    /\ consumer[e].pc = "select"
    /\ ~connected[e]
    /\ deliveries[e] = {}
    /\ connected' = [connected EXCEPT ![e] = TRUE]
    /\ UNCHANGED <<broker, results, proc, ctxDone, closed, deliveries,
                   consumer, jobQueue, worker, broken>>

\* deliveries is closed: Consume returns nil, and a nil error cancels nothing
ConsumerEOF(e) ==
    /\ proc[e] = "up"
    /\ consumer[e].pc = "select"
    /\ ~connected[e]
    /\ deliveries[e] = {}
    /\ consumer' = [consumer EXCEPT ![e] = ConsumerAt("done", Nil)]
    /\ UNCHANGED <<broker, results, proc, ctxDone, closed, connected,
                   deliveries, jobQueue, worker, broken>>

\* jobQueue <- job, a plain send that waits for room
ConsumerSend(e) ==
    /\ proc[e] = "up"
    /\ consumer[e].pc = "send"
    /\ ~closed[e]
    /\ Cardinality(jobQueue[e]) < WorkerCount
    /\ jobQueue' = [jobQueue EXCEPT ![e] = @ \cup {consumer[e].job}]
    /\ consumer' = [consumer EXCEPT ![e] = ConsumerAt("select", Nil)]
    /\ UNCHANGED <<broker, results, proc, ctxDone, closed, connected,
                   deliveries, worker, broken>>

\* jobQueue <- job on a closed channel panics, which ends the process
ConsumerSendPanics(e) ==
    /\ proc[e] = "up"
    /\ consumer[e].pc = "send"
    /\ closed[e]
    /\ ProcessEnds(e, "crashed")

Consumer(e) ==
    \/ ConsumerSubscribe(e)
    \/ ConsumerSubscribeFails(e)
    \/ ConsumerStop(e)
    \/ ConsumerReceive(e)
    \/ ConsumerReject(e)
    \/ ConsumerEOF(e)
    \/ ConsumerSend(e)
    \/ ConsumerSendPanics(e)

----------------------------------------------------------------------------
(* main.                                                                   *)

\* <-ctx.Done(), then close(engine.JobQueue)
MainCloseQueue(e) ==
    /\ proc[e] = "up"
    /\ ctxDone[e]
    /\ ~closed[e]
    /\ closed' = [closed EXCEPT ![e] = TRUE]
    /\ UNCHANGED <<broker, results, proc, ctxDone, connected, deliveries,
                   consumer, jobQueue, worker, broken>>

\* Mutant: shutdown also waits until JobQueue is drained.
ExitWhenDrained(e) ==
    /\ proc[e] = "up"
    /\ closed[e]
    /\ jobQueue[e] = {}
    /\ \A w \in Workers : worker[e][w].pc = "stopped"
    /\ ProcessEnds(e, "exited")

\* engine.Wg.Wait() returned
MainExit(e) ==
    /\ proc[e] = "up"
    /\ closed[e]
    /\ \A w \in Workers : worker[e][w].pc = "stopped"
    /\ ProcessEnds(e, "exited")

Main(e) == MainCloseQueue(e) \/ MainExit(e)

----------------------------------------------------------------------------
(* A worker goroutine.                                                     *)

\* Worker w of engine e is at pc and moves to the state next.
Step(e, w, pc, next) ==
    /\ proc[e] = "up"
    /\ worker[e][w].pc = pc
    /\ worker' = [worker EXCEPT ![e][w] = next]

Job(e, w) == worker[e][w].job
Verdict(e, w) == worker[e][w].verdict

\* A call that takes ctx, or local I/O, can return an error.
CanFail(e) == ctxDone[e] \/ "io" \in Faults

\* case <-ctx.Done(), or the closed and drained JobQueue
WorkerStop(e, w) ==
    /\ ctxDone[e] \/ (closed[e] /\ jobQueue[e] = {})
    /\ Step(e, w, "select", WorkerAt("stopped", Nil, Nil))
    /\ UNCHANGED <<broker, results, proc, ctxDone, closed, connected,
                   deliveries, consumer, jobQueue, broken>>

\* case job := <-jobQueue; buffered jobs are still received once it is closed
WorkerTake(e, w) ==
    \E s \in jobQueue[e] :
        /\ Step(e, w, "select", WorkerAt("load", s, Nil))
        /\ jobQueue' = [jobQueue EXCEPT ![e] = @ \ {s}]
        /\ UNCHANGED <<broker, results, proc, ctxDone, closed, connected,
                       deliveries, consumer, broken>>

\* MkdirAll and PreExecute succeed
WorkerLoad(e, w) ==
    /\ Step(e, w, "load", WorkerAt("judge", Job(e, w), Nil))
    /\ UNCHANGED <<broker, results, proc, ctxDone, closed, connected,
                   deliveries, consumer, jobQueue, broken>>

\* MkdirAll or PreExecute fails: RunWorker returns with job.Verdict nil
WorkerLoadFails(e, w) ==
    /\ CanFail(e)
    /\ Step(e, w, "load", WorkerAt("nack", Job(e, w), Nil))
    /\ UNCHANGED <<broker, results, proc, ctxDone, closed, connected,
                   deliveries, consumer, jobQueue, broken>>

\* Mutant: the verdict is published before it is saved, and never saved.
JudgeThenPublish(e, w) ==
    /\ \E v \in Verdicts : Step(e, w, "judge", WorkerAt("publish", Job(e, w), v))
    /\ UNCHANGED <<broker, results, proc, ctxDone, closed, connected,
                   deliveries, consumer, jobQueue, broken>>

\* ExecuteWorker returns, and the first half of PostExecute sets job.Verdict.
\* Also with a broken checker: the cache may hand out a fresh item, or the
\* worker was past the lock when another one left it locked.
WorkerJudge(e, w) ==
    /\ \E v \in Verdicts : Step(e, w, "judge", WorkerAt("save", Job(e, w), v))
    /\ UNCHANGED <<broker, results, proc, ctxDone, closed, connected,
                   deliveries, consumer, jobQueue, broken>>

\* The checker does not compile: an INT verdict, returned without unlocking
\* the cache item of the problem.
WorkerCheckerFails(e, w) ==
    /\ "checker" \in Faults
    /\ \E v \in Verdicts : Step(e, w, "judge", WorkerAt("save", Job(e, w), v))
    /\ broken' = [broken EXCEPT ![e] = @ \cup {ProblemOf[Job(e, w)]}]
    /\ UNCHANGED <<broker, results, proc, ctxDone, closed, connected,
                   deliveries, consumer, jobQueue>>

\* RLock or Lock of that item never returns, and watches no context.
WorkerHangs(e, w) ==
    /\ Step(e, w, "judge", WorkerAt("hung", Job(e, w), Nil))
    /\ ProblemOf[Job(e, w)] \in broken[e]
    /\ UNCHANGED <<broker, results, proc, ctxDone, closed, connected,
                   deliveries, consumer, jobQueue, broken>>

\* UpdateSubmission(ctx) is called; a cancelled context fails it at once
WorkerSave(e, w) ==
    /\ Step(e, w, "save",
            WorkerAt(IF ctxDone[e] THEN "nack" ELSE "saving",
                     Job(e, w), Verdict(e, w)))
    /\ UNCHANGED <<broker, results, proc, ctxDone, closed, connected,
                   deliveries, consumer, jobQueue, broken>>

\* The UPDATE runs in the database.
Store(s, v) ==
    /\ status' = [status EXCEPT ![s] = v]
    /\ stored' = [stored EXCEPT ![s] = @ \cup {v}]

\* UpdateSubmission returns nil
WorkerSaved(e, w) ==
    /\ Step(e, w, "saving", WorkerAt("publish", Job(e, w), Verdict(e, w)))
    /\ Store(Job(e, w), Verdict(e, w))
    /\ UNCHANGED <<broker, published, proc, ctxDone, closed, connected,
                   deliveries, consumer, jobQueue, broken>>

\* Mutant: the error of UpdateSubmission is ignored.
SaveErrorIgnored(e, w) ==
    /\ CanFail(e)
    /\ Step(e, w, "saving", WorkerAt("publish", Job(e, w), Verdict(e, w)))
    /\ Store(Job(e, w), Verdict(e, w)) \/ UNCHANGED <<status, stored>>
    /\ UNCHANGED <<broker, published, proc, ctxDone, closed, connected,
                   deliveries, consumer, jobQueue, broken>>

\* UpdateSubmission returns an error, before or after the UPDATE committed
WorkerSaveFails(e, w) ==
    /\ CanFail(e)
    /\ Step(e, w, "saving", WorkerAt("nack", Job(e, w), Verdict(e, w)))
    /\ Store(Job(e, w), Verdict(e, w)) \/ UNCHANGED <<status, stored>>
    /\ UNCHANGED <<broker, published, proc, ctxDone, closed, connected,
                   deliveries, consumer, jobQueue, broken>>

\* Mutant: PRACTICE verdicts are published too.
PublishAnyType(e, w) ==
    /\ Step(e, w, "publish", WorkerAt("ack", Job(e, w), Verdict(e, w)))
    /\ published' = published \cup {<<Job(e, w), Verdict(e, w)>>}
    /\ UNCHANGED <<broker, status, stored, proc, ctxDone, closed, connected,
                   deliveries, consumer, jobQueue, broken>>

\* Mutant: a redelivered message is taken for one that was published before.
PublishFirstDelivery(e, w) ==
    /\ Step(e, w, "publish", WorkerAt("ack", Job(e, w), Verdict(e, w)))
    /\ IF Job(e, w) \in Rated \ redelivered
       THEN published' = published \cup {<<Job(e, w), Verdict(e, w)>>}
       ELSE UNCHANGED published
    /\ UNCHANGED <<broker, status, stored, proc, ctxDone, closed, connected,
                   deliveries, consumer, jobQueue, broken>>

\* RATED verdicts go to the leaderboard queue; an error is ignored
WorkerPublish(e, w) ==
    /\ Step(e, w, "publish", WorkerAt("ack", Job(e, w), Verdict(e, w)))
    /\ \/ /\ Job(e, w) \in Rated
          /\ published' = published \cup {<<Job(e, w), Verdict(e, w)>>}
       \/ /\ Job(e, w) \notin Rated \/ "io" \in Faults
          /\ UNCHANGED published
    /\ UNCHANGED <<broker, status, stored, proc, ctxDone, closed, connected,
                   deliveries, consumer, jobQueue, broken>>

\* Mutant: a finished job is never settled.
AckForgotten(e, w) ==
    /\ Step(e, w, "ack", WorkerAt("log", Job(e, w), Verdict(e, w)))
    /\ UNCHANGED <<broker, results, proc, ctxDone, closed, connected,
                   deliveries, consumer, jobQueue, broken>>

\* RunWorker returned nil: job.Ack()
WorkerAck(e, w) ==
    /\ Step(e, w, "ack", WorkerAt("log", Job(e, w), Verdict(e, w)))
    /\ Ack(e, Job(e, w))
    /\ UNCHANGED <<results, proc, ctxDone, closed, connected, deliveries,
                   consumer, jobQueue, broken>>

\* Mutant: a failed job goes back to the queue, Nack(requeue = true).
NackRequeues(e, w) ==
    /\ Step(e, w, "nack", WorkerAt("log", Job(e, w), Verdict(e, w)))
    /\ ready' = ready \cup {Job(e, w)}
    /\ redelivered' = redelivered \cup {Job(e, w)}
    /\ unacked' = [unacked EXCEPT ![e] = @ \ {Job(e, w)}]
    /\ UNCHANGED <<acked, dropped, results, proc, ctxDone, closed, connected,
                   deliveries, consumer, jobQueue, broken>>

\* RunWorker returned an error: job.Nack(false)
WorkerNack(e, w) ==
    /\ Step(e, w, "nack", WorkerAt("log", Job(e, w), Verdict(e, w)))
    /\ Discard(e, Job(e, w))
    /\ UNCHANGED <<results, proc, ctxDone, closed, connected, deliveries,
                   consumer, jobQueue, broken>>

\* Mutant: the worker keeps its job and runs it again.
KeepsJob(e, w) ==
    /\ Verdict(e, w) # Nil
    /\ Step(e, w, "log", WorkerAt("load", Job(e, w), Nil))
    /\ UNCHANGED <<broker, results, proc, ctxDone, closed, connected,
                   deliveries, consumer, jobQueue, broken>>

\* The log line reads job.Verdict, and the loop starts again
WorkerLog(e, w) ==
    /\ Verdict(e, w) # Nil
    /\ Step(e, w, "log", WorkerAt("select", Nil, Nil))
    /\ UNCHANGED <<broker, results, proc, ctxDone, closed, connected,
                   deliveries, consumer, jobQueue, broken>>

\* The log line dereferences a nil Verdict: the panic ends the process
WorkerLogPanics(e, w) ==
    /\ proc[e] = "up"
    /\ worker[e][w].pc = "log"
    /\ Verdict(e, w) = Nil
    /\ ProcessEnds(e, "crashed")

Worker(e, w) ==
    \/ WorkerStop(e, w)
    \/ WorkerTake(e, w)
    \/ WorkerLoad(e, w)
    \/ WorkerLoadFails(e, w)
    \/ WorkerJudge(e, w)
    \/ WorkerCheckerFails(e, w)
    \/ WorkerHangs(e, w)
    \/ WorkerSave(e, w)
    \/ WorkerSaved(e, w)
    \/ WorkerSaveFails(e, w)
    \/ WorkerPublish(e, w)
    \/ WorkerAck(e, w)
    \/ WorkerNack(e, w)
    \/ WorkerLog(e, w)
    \/ WorkerLogPanics(e, w)

----------------------------------------------------------------------------
(* The environment.                                                        *)

\* SIGINT or SIGTERM cancels the signal context.
Sigterm(e) ==
    /\ "sigterm" \in Faults
    /\ proc[e] = "up"
    /\ ~ctxDone[e]
    /\ ctxDone' = [ctxDone EXCEPT ![e] = TRUE]
    /\ UNCHANGED <<broker, results, proc, memory>>

\* The machine or the process dies between any two steps.
Kill(e) ==
    /\ "kill" \in Faults
    /\ proc[e] = "up"
    /\ ProcessEnds(e, "crashed")

\* The consumer's AMQP connection drops. The client library closes the
\* deliveries channel and may discard what it had not yet handed over.
LoseConnection(e) ==
    /\ "connection" \in Faults
    /\ proc[e] = "up"
    /\ connected[e]
    /\ connected' = [connected EXCEPT ![e] = FALSE]
    /\ Requeue(e)
    /\ \E kept \in SUBSET deliveries[e] :
          deliveries' = [deliveries EXCEPT ![e] = kept]
    /\ UNCHANGED <<results, proc, ctxDone, closed, consumer, jobQueue, worker,
                   broken>>

\* An operator starts the engine again: NewEngine and StartPool.
Restart(e) ==
    /\ proc[e] # "up"
    /\ proc' = [proc EXCEPT ![e] = "up"]
    /\ connected' = [connected EXCEPT ![e] = TRUE]
    /\ UNCHANGED <<broker, results, ctxDone, closed, deliveries, consumer,
                   jobQueue, worker, broken>>

----------------------------------------------------------------------------
Settled == acked \cup dropped

\* The engine runs, and will never receive another delivery.
Deaf(e) ==
    /\ proc[e] = "up"
    /\ ~connected[e]
    /\ consumer[e].pc = "done"

Hung(e, w) == worker[e][w].pc = "hung"

\* The engine runs and will start no further job: it is deaf, all its workers
\* are hung, or it is shutting down behind a hung worker.
Stuck(e) ==
    /\ proc[e] = "up"
    /\ \/ Deaf(e)
       \/ \A w \in Workers : Hung(e, w)
       \/ ctxDone[e] /\ \E w \in Workers : Hung(e, w)

\* Nothing is left to do: every goroutine waits for what cannot come.
Quiescent ==
    /\ \A e \in Engines :
          /\ proc[e] = "up"
          /\ \/ /\ ~ctxDone[e]
                /\ consumer[e].pc = "select" \/ Deaf(e)
                /\ deliveries[e] = {}
                /\ jobQueue[e] = {} \/ Stuck(e)
                /\ \A w \in Workers : worker[e][w].pc \in {"select", "hung"}
             \/ /\ Stuck(e) /\ closed[e] /\ consumer[e].pc = "done"
                /\ \A w \in Workers : worker[e][w].pc \in {"stopped", "hung"}
    /\ \/ ready = {}
       \/ \A e \in Engines : ~connected[e] \/ Cardinality(unacked[e]) = WorkerCount
    /\ UNCHANGED vars

Next ==
    \/ \E e \in Engines :
          \/ Deliver(e)
          \/ Consumer(e)
          \/ Main(e)
          \/ \E w \in Workers : Worker(e, w)
          \/ Sigterm(e)
          \/ Kill(e)
          \/ LoseConnection(e)
          \/ Restart(e)
    \/ Quiescent

Spec == Init /\ [][Next]_vars

(* The Go scheduler runs every goroutine that can take a step, a call to   *)
(* the database or the sandbox returns, the broker delivers while there is *)
(* room, and a stopped engine is started again. Failures are never owed,   *)
(* and a worker that hangs behind a broken checker has no step to take: at *)
(* "judge", fairness owes a worker the return of ExecuteWorker or a hang.  *)
Fairness ==
    \A e \in Engines :
        /\ WF_vars(Deliver(e))
        /\ WF_vars(Consumer(e))
        /\ WF_vars(Main(e))
        /\ \A w \in Workers : WF_vars(Worker(e, w))
        /\ WF_vars(Restart(e))

FairSpec == Spec /\ Fairness

----------------------------------------------------------------------------
(* Properties.                                                             *)

\* When the consumer is about to send a job, JobQueue has room: the prefetch
\* count bounds everything between the broker and the workers, also after a
\* lost connection made the broker forget what the engine still holds. So the
\* plain send at rabbitmq.go:86, which no context interrupts, never waits.
JobQueueNeverBlocks ==
    \A e \in Engines :
        consumer[e].pc = "send" => Cardinality(jobQueue[e]) < WorkerCount

\* Working(e, w): w runs a job and has not settled it yet.
Working(e, w) == worker[e][w].pc \notin {"select", "stopped", "log"}

\* Two workers whose engines still have their AMQP connection never judge the
\* same submission at the same time, whatever crashed or restarted before.
ExclusiveJudging ==
    \A e, f \in Engines : \A w, x \in Workers :
        /\ Working(e, w) /\ Working(f, x)
        /\ connected[e] /\ connected[f]
        /\ Job(e, w) = Job(f, x)
        => e = f /\ w = x

\* A message leaves the broker by an Ack only after a verdict of its
\* submission reached the database (worker.go:76 after 149).
AckedIsStored == \A s \in acked : status[s] # "QUEUE"

\* What the leaderboard is told was stored first, and unless the message was
\* redelivered it is what the row still says.
PublishedIsStored ==
    \A p \in published :
        /\ p[2] \in stored[p[1]]
        /\ p[1] \notin redelivered => status[p[1]] = p[2]

\* Without I/O errors, an acknowledged RATED submission reached the
\* leaderboard queue.
AckedIsPublished ==
    "io" \notin Faults =>
        \A s \in acked \cap Rated : \E v \in Verdicts : <<s, v>> \in published

\* A stored verdict is replaced only when the broker redelivered the message:
\* judging again is the price of at-least-once delivery, and nothing else
\* makes a verdict change.
VerdictStable ==
    [][\A s \in Submissions :
          status[s] # "QUEUE" /\ status'[s] # status[s] => s \in redelivered]_vars

\* Once engines are no longer killed, told to stop or cut off, everything left
\* is settled: a job that fails is dropped, and the panic that may follow
\* (worker.go:79) brings its neighbours back. There are two exceptions. Once
\* Consume returned nil on a lost connection (rabbitmq.go:65-67) an engine never
\* asks for work again. And a worker that waits for the lock a failed checker
\* left behind (compile.go:12, 20 and 44) keeps its message for ever, an engine
\* whose workers all wait there starts nothing more, and one that is told to
\* stop keeps what was prefetched as long as one of them waits.
FaultsStop ==
    <>[][\A e \in Engines : ~Kill(e) /\ ~Sigterm(e) /\ ~LoseConnection(e)]_vars

Stranded(s) ==
    \/ \E e \in Engines, w \in Workers : Hung(e, w) /\ Job(e, w) = s
    \/ \E e \in Engines : Stuck(e) /\ s \in unacked[e]
    \/ \A e \in Engines : Stuck(e)

RecoversUnlessStuck ==
    FaultsStop => <>[](\A s \in Submissions : s \in Settled \/ Stranded(s))

\* A cancelled context ends the process (main.go:34-43): no send and no worker
\* can hold up the shutdown for ever, except one that waits for the lock of a
\* checker that failed to compile, which watches no context (compile.go:12, 20).
ShutdownTerminates ==
    \A e \in Engines :
        ctxDone[e] ~> (proc[e] # "up" \/ \E w \in Workers : Hung(e, w))

\* README.md:25 says that no submission is ever dropped, even during crashes
\* and restarts: a message leaves the broker unacknowledged only when its
\* submission has a verdict.
NeverDropped == \A s \in dropped : status[s] # "QUEUE"
============================================================================
