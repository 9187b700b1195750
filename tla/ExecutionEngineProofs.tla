----------------------- MODULE ExecutionEngineProofs -----------------------
(* Proofs about ExecutionEngine, for every number of submissions, engines  *)
(* and workers and every combination of failures.                          *)
EXTENDS ExecutionEngineRefinement, FiniteSetTheorems, TLAPS

USE SubmissionsAssumption, WorkersAssumption, VerdictsAssumption

----------------------------------------------------------------------------
(* Type correctness.                                                       *)

\* A worker's own move keeps the type of worker.
LEMMA StepTyped ==
    ASSUME TypeOK, NEW e \in Engines, NEW w \in Workers,
           NEW pc, NEW q \in WorkerPC, NEW s \in Submissions \cup {Nil},
           NEW v \in Verdicts \cup {Nil}, Step(e, w, pc, WorkerAt(q, s, v))
    PROVE  worker' \in [Engines -> [Workers ->
              [pc: WorkerPC, job: Submissions \cup {Nil},
               verdict: Verdicts \cup {Nil}]]]
  BY DEF TypeOK, Step, WorkerAt

\* A worker that runs a job holds a submission, and past judging a verdict.
HasJob ==
    /\ \A e \in Engines : consumer[e].pc = "send" => consumer[e].job \in Submissions
    /\ \A e \in Engines : \A w \in Workers :
          /\ worker[e][w].pc \notin {"select", "stopped"} => Job(e, w) \in Submissions
          /\ worker[e][w].pc \in {"save", "saving", "publish", "ack"}
             => Verdict(e, w) \in Verdicts

Typed == TypeOK /\ HasJob

\* An UPDATE keeps the types of the row.
LEMMA StoreTyped ==
    ASSUME TypeOK, NEW s \in Submissions, NEW v \in Verdicts, Store(s, v)
    PROVE  /\ status' \in [Submissions -> Verdicts \cup {"QUEUE"}]
           /\ stored' \in [Submissions -> SUBSET Verdicts]
  BY DEF TypeOK, Store

\* A worker's own move keeps what the workers hold.
LEMMA StepHolds ==
    ASSUME Typed, NEW e \in Engines, NEW w \in Workers,
           NEW pc, NEW q \in WorkerPC, NEW s \in Submissions,
           NEW v \in Verdicts, Step(e, w, pc, WorkerAt(q, s, v)),
           UNCHANGED consumer
    PROVE  HasJob'
  BY DEF Typed, TypeOK, HasJob, Job, Verdict, Step, WorkerAt, WorkerPC

\* Every action of a worker preserves the types and what it holds.
LEMMA WorkerTyped ==
    ASSUME Typed, NEW e \in Engines, NEW w \in Workers, Worker(e, w)
    PROVE  Typed'
  <1> USE DEF Typed, TypeOK, HasJob, Job, Verdict, Step, WorkerAt, WorkerPC
  <1>1. CASE WorkerStop(e, w)
    BY <1>1 DEF WorkerStop, broker, results
  <1>2. CASE WorkerTake(e, w)
    BY <1>2 DEF WorkerTake, broker, results
  <1>3. CASE WorkerLoad(e, w)
    BY <1>3 DEF WorkerLoad, broker, results
  <1>4. CASE WorkerLoadFails(e, w)
    BY <1>4 DEF WorkerLoadFails, broker, results
  <1>5. CASE WorkerJudge(e, w)
    BY <1>5 DEF WorkerJudge, broker, results
  <1>6. CASE WorkerSave(e, w)
    BY <1>6 DEF WorkerSave, broker, results
  <1>7. CASE WorkerSaved(e, w)
    <2>1. Job(e, w) \in Submissions /\ Verdict(e, w) \in Verdicts
      BY <1>7 DEF WorkerSaved
    <2>2. HasJob'
      BY <1>7, <2>1, StepHolds DEF WorkerSaved
    <2>3. TypeOK'
      BY <1>7, <2>1, StoreTyped, StepTyped DEF WorkerSaved, broker
    <2> QED
      BY <2>2, <2>3
  <1>8. CASE WorkerSaveFails(e, w)
    <2>1. Job(e, w) \in Submissions /\ Verdict(e, w) \in Verdicts
      BY <1>8 DEF WorkerSaveFails
    <2>2. HasJob'
      BY <1>8, <2>1, StepHolds DEF WorkerSaveFails
    <2>3. /\ status' \in [Submissions -> Verdicts \cup {"QUEUE"}]
          /\ stored' \in [Submissions -> SUBSET Verdicts]
      BY <1>8, <2>1, StoreTyped DEF WorkerSaveFails
    <2>4. TypeOK'
      BY <1>8, <2>1, <2>3, StepTyped DEF WorkerSaveFails, broker
    <2> QED
      BY <2>2, <2>4
  <1>9. CASE WorkerPublish(e, w)
    BY <1>9 DEF WorkerPublish, broker, results
  <1>10. CASE WorkerAck(e, w)
    BY <1>10 DEF WorkerAck, Ack, broker, results
  <1>11. CASE WorkerNack(e, w)
    BY <1>11 DEF WorkerNack, Discard, broker, results
  <1>12. CASE WorkerLog(e, w)
    BY <1>12 DEF WorkerLog, broker, results
  <1>13. CASE WorkerLogPanics(e, w)
    BY <1>13 DEF WorkerLogPanics, ProcessEnds, Requeue, IdleWorkers,
                 ConsumerAt, ConsumerPC, results
  <1>14. CASE WorkerCheckerFails(e, w)
    <2>1. ProblemOf[Job(e, w)] \in Problems
      BY <1>14 DEF WorkerCheckerFails, Problems
    <2>2. broken' \in [Engines -> SUBSET Problems]
      BY <1>14, <2>1 DEF WorkerCheckerFails
    <2> QED
      BY <1>14, <2>2 DEF WorkerCheckerFails, broker, results
  <1>15. CASE WorkerHangs(e, w)
    BY <1>15 DEF WorkerHangs, broker, results
  <1> QED
    BY <1>1, <1>2, <1>3, <1>4, <1>5, <1>6, <1>7, <1>8, <1>9, <1>10, <1>11,
       <1>12, <1>13,
       <1>14, <1>15 DEF Worker

\* The remaining actions preserve them too.
LEMMA ConsumerTyped ==
    ASSUME Typed, NEW e \in Engines, Consumer(e)
    PROVE  Typed'
  <1> USE DEF Typed, TypeOK, HasJob, Job, Verdict, ConsumerAt, ConsumerPC
  <1>1. CASE ConsumerSubscribe(e)
    BY <1>1 DEF ConsumerSubscribe, broker, results
  <1>2. CASE ConsumerSubscribeFails(e)
    BY <1>2 DEF ConsumerSubscribeFails, broker, results
  <1>3. CASE ConsumerStop(e)
    BY <1>3 DEF ConsumerStop, broker, results
  <1>4. CASE ConsumerReceive(e)
    BY <1>4 DEF ConsumerReceive, broker, results
  <1>5. CASE ConsumerReject(e)
    BY <1>5 DEF ConsumerReject, Discard, results
  <1>6. CASE ConsumerEOF(e)
    BY <1>6 DEF ConsumerEOF, broker, results
  <1>7. CASE ConsumerSend(e)
    BY <1>7 DEF ConsumerSend, broker, results
  <1>8. CASE ConsumerSendPanics(e)
    BY <1>8 DEF ConsumerSendPanics, ProcessEnds, Requeue, IdleWorkers,
                WorkerAt, WorkerPC, results
  <1> QED
    BY <1>1, <1>2, <1>3, <1>4, <1>5, <1>6, <1>7, <1>8 DEF Consumer

LEMMA InitTyped == Init => Typed
  BY DEF Init, Typed, TypeOK, HasJob, IdleWorkers, WorkerAt, WorkerPC,
         ConsumerAt, ConsumerPC, Job, Verdict

LEMMA NextTyped == Typed /\ [Next]_vars => Typed'
  <1> SUFFICES ASSUME Typed, [Next]_vars PROVE Typed'
    OBVIOUS
  <1> USE DEF Typed, TypeOK, HasJob, Job, Verdict
  <1>1. CASE UNCHANGED vars
    BY <1>1 DEF vars, broker, results, memory
  <1>2. ASSUME NEW e \in Engines, Deliver(e) PROVE Typed'
    BY <1>2 DEF Deliver, results
  <1>3. ASSUME NEW e \in Engines, Consumer(e) PROVE Typed'
    BY <1>3, ConsumerTyped
  <1>4. ASSUME NEW e \in Engines, MainCloseQueue(e) PROVE Typed'
    BY <1>4 DEF MainCloseQueue, broker, results
  <1>5. ASSUME NEW e \in Engines, NEW how \in {"exited", "crashed"},
               ProcessEnds(e, how)
        PROVE  Typed'
    BY <1>5 DEF ProcessEnds, Requeue, IdleWorkers, WorkerAt, WorkerPC,
                ConsumerAt, ConsumerPC, results
  <1>6. ASSUME NEW e \in Engines, NEW w \in Workers, Worker(e, w) PROVE Typed'
    BY <1>6, WorkerTyped
  <1>7. ASSUME NEW e \in Engines, Sigterm(e) PROVE Typed'
    BY <1>7 DEF Sigterm, broker, results, memory
  <1>8. ASSUME NEW e \in Engines, LoseConnection(e) PROVE Typed'
    BY <1>8 DEF LoseConnection, Requeue, results
  <1>9. ASSUME NEW e \in Engines, Restart(e) PROVE Typed'
    BY <1>9 DEF Restart, broker, results
  <1>10. CASE Quiescent
    BY <1>10, <1>1 DEF Quiescent
  <1> QED
    BY <1>1, <1>2, <1>3, <1>4, <1>5, <1>6, <1>7, <1>8, <1>9, <1>10
       DEF Next, Main, MainExit, Kill

\* Every reachable state is well typed, and a goroutine that works on a job
\* has one: RunWorker never sees a nil SubmissionData, and UpdateSubmission
\* never a nil Verdict (worker.go:84-169).
THEOREM TypeCorrect == Spec => [](TypeOK /\ HasJob)
  <1>1. Spec => []Typed
    BY InitTyped, NextTyped, PTL DEF Spec
  <1> QED
    BY <1>1, PTL DEF Typed

----------------------------------------------------------------------------
(* Who holds a message.  Every message is in one place at the broker, and  *)
(* while the connection lives everything an engine holds is unsettled on   *)
(* its channel, in exactly one pair of hands.                              *)

InHand(e) == IF consumer[e].pc = "send" THEN {consumer[e].job} ELSE {}

\* What the engine received and no worker took yet.
Pending(e) == deliveries[e] \cup InHand(e) \cup jobQueue[e]

Places ==
    /\ ready \cap Settled = {}
    /\ acked \cap dropped = {}
    /\ \A e \in Engines :
          /\ unacked[e] \cap ready = {}
          /\ unacked[e] \cap Settled = {}
          /\ \A f \in Engines : e # f => unacked[e] \cap unacked[f] = {}

Connected(e) ==
    /\ Pending(e) \subseteq unacked[e]
    /\ \A w \in Workers : Working(e, w) =>
          /\ Job(e, w) \in unacked[e]
          /\ Job(e, w) \notin Pending(e)
          /\ \A x \in Workers : Working(e, x) /\ Job(e, x) = Job(e, w) => x = w

Disconnected(e) ==
    /\ unacked[e] = {}
    /\ Pending(e) \subseteq redelivered
    /\ \A w \in Workers : Working(e, w) => Job(e, w) \in redelivered
    /\ proc[e] # "up" => Pending(e) = {} /\ \A w \in Workers : ~Working(e, w)

\* No submission is in two queues of one engine.
Disjoint(e) ==
    /\ deliveries[e] \cap jobQueue[e] = {}
    /\ InHand(e) \cap deliveries[e] = {}
    /\ InHand(e) \cap jobQueue[e] = {}

\* The prefetch count bounds the channel, and with it the queues behind it.
Bounded(e) ==
    /\ Cardinality(unacked[e]) <= WorkerCount
    /\ Cardinality(Pending(e)) <= WorkerCount

Owned ==
    /\ Places
    /\ \A e \in Engines :
          /\ connected[e] => Connected(e)
          /\ ~connected[e] => Disconnected(e)
          /\ proc[e] # "up" => ~connected[e]
          /\ Disjoint(e)
          /\ Bounded(e)

LEMMA FiniteSubset ==
    ASSUME NEW S \in SUBSET Submissions
    PROVE  /\ IsFiniteSet(S)
           /\ Cardinality(S) \in Nat
           /\ \A T \in SUBSET S : Cardinality(T) <= Cardinality(S)
  BY FS_Subset, FS_CardinalityType

LEMMA WorkerCountNat == WorkerCount \in Nat /\ WorkerCount > 0
  BY FS_CardinalityType, FS_EmptySet DEF WorkerCount

\* The consumer finds room: Pending holds the job in its hand and everything
\* in JobQueue, and the job in its hand is not in JobQueue.
LEMMA OwnedGivesRoom ==
    ASSUME Typed, Owned PROVE JobQueueNeverBlocks
  <1> SUFFICES ASSUME NEW e \in Engines, consumer[e].pc = "send"
               PROVE  Cardinality(jobQueue[e]) < WorkerCount
    BY DEF JobQueueNeverBlocks
  <1> DEFINE Q == jobQueue[e]
             j == consumer[e].job
  <1>1. j \in Submissions /\ Q \in SUBSET Submissions /\ j \notin Q
    BY DEF Typed, TypeOK, HasJob, Owned, Disjoint, InHand
  <1>2. Cardinality(Q \cup {j}) = Cardinality(Q) + 1
    BY <1>1, FiniteSubset, FS_AddElement
  <1>3. Q \cup {j} \subseteq Pending(e) /\ Pending(e) \in SUBSET Submissions
    BY <1>1 DEF Pending, InHand, Typed, TypeOK
  <1>4. Cardinality(Q \cup {j}) <= Cardinality(Pending(e))
    BY <1>3, FiniteSubset
  <1>5. Cardinality(Pending(e)) <= WorkerCount
    BY DEF Owned, Bounded
  <1>6. Cardinality(Q) \in Nat /\ Cardinality(Pending(e)) \in Nat
    BY <1>1, <1>3, FiniteSubset
  <1> QED
    BY <1>2, <1>4, <1>5, <1>6, WorkerCountNat

LEMMA OwnedIsExclusive ==
    ASSUME Typed, Owned PROVE ExclusiveJudging
  BY DEF Owned, Places, Connected, ExclusiveJudging

\* The broker, the connections and the processes stay, and what the engines
\* hold only moves on inside them or shrinks.
LEMMA OwnedShrinks ==
    ASSUME Typed, Owned, Typed',
           UNCHANGED <<broker, connected, proc>>,
           \A f \in Engines : Pending(f)' \subseteq Pending(f) /\ Disjoint(f)',
           \A f \in Engines : \A x \in Workers :
              Working(f, x)' => Working(f, x) /\ Job(f, x)' = Job(f, x)
    PROVE  Owned'
  <1>1. Places'
    BY DEF Owned, Places, broker, Settled
  <1> SUFFICES ASSUME NEW e \in Engines
               PROVE  (/\ connected[e] => Connected(e)
                       /\ ~connected[e] => Disconnected(e)
                       /\ proc[e] # "up" => ~connected[e]
                       /\ Disjoint(e)
                       /\ Bounded(e))'
    BY <1>1 DEF Owned
  <1>2. (connected[e] => Connected(e))'
    BY DEF Owned, Connected, broker
  <1>3. (~connected[e] => Disconnected(e))'
    BY DEF Owned, Disconnected, broker
  <1>4. Bounded(e)'
    <2>1. Pending(e) \in SUBSET Submissions
      BY DEF Pending, InHand, Typed, TypeOK, HasJob
    <2>2. Cardinality(Pending(e)') <= Cardinality(Pending(e))
      BY <2>1, FiniteSubset
    <2>3. /\ Cardinality(Pending(e)') \in Nat
          /\ Cardinality(Pending(e)) \in Nat
      BY <2>1, FiniteSubset
    <2> QED
      BY <2>2, <2>3, WorkerCountNat DEF Owned, Bounded, broker
  <1> QED
    BY <1>2, <1>3, <1>4 DEF Owned

\* A message leaves the channel of e, and with it the hands that held it.
LEMMA OwnedSettles ==
    ASSUME Typed, Owned, Typed', NEW e \in Engines, NEW s \in Submissions,
           Ack(e, s) \/ Discard(e, s),
           UNCHANGED <<connected, proc>>,
           connected[e] => s \in unacked[e],
           \A f \in Engines :
              /\ Pending(f)' \subseteq Pending(f) /\ Disjoint(f)'
              /\ s \notin Pending(e)' \/ ~connected[e],
           \A f \in Engines : \A x \in Workers : Working(f, x)' =>
              /\ Working(f, x) /\ Job(f, x)' = Job(f, x)
              /\ f = e /\ connected[e] => Job(f, x) # s
    PROVE  Owned'
  <1>1. Places'
    <2>1. unacked' = [unacked EXCEPT ![e] = @ \ {s}] /\ ready' = ready
      BY DEF Ack, Discard
    <2>2. CASE connected[e]
      <3>1. s \in unacked[e] /\ Settled' = Settled \cup {s}
        BY <2>2 DEF Ack, Discard, Settled
      <3>2. acked' \cap dropped' = {}
        BY <2>2, <3>1 DEF Ack, Discard, Owned, Places, Settled
      <3> QED
        BY <2>1, <3>1, <3>2 DEF Owned, Places, Typed, TypeOK
    <2>3. CASE ~connected[e]
      <3>1. acked' = acked /\ dropped' = dropped
        BY <2>3 DEF Ack, Discard
      <3> QED
        BY <2>1, <3>1 DEF Owned, Places, Settled, Typed, TypeOK
    <2> QED
      BY <2>2, <2>3
  <1> SUFFICES ASSUME NEW f \in Engines
               PROVE  (/\ connected[f] => Connected(f)
                       /\ ~connected[f] => Disconnected(f)
                       /\ proc[f] # "up" => ~connected[f]
                       /\ Disjoint(f)
                       /\ Bounded(f))'
    BY <1>1 DEF Owned
  <1>0. unacked[f]' = IF f = e THEN unacked[f] \ {s} ELSE unacked[f]
    BY DEF Ack, Discard, Typed, TypeOK
  <1>2. (connected[f] => Connected(f))'
    BY <1>0 DEF Owned, Connected
  <1>3. (~connected[f] => Disconnected(f))'
    BY <1>0 DEF Owned, Disconnected, Ack, Discard
  <1>4. Bounded(f)'
    <2>1. Pending(f) \in SUBSET Submissions /\ unacked[f] \in SUBSET Submissions
      BY DEF Pending, InHand, Typed, TypeOK, HasJob
    <2>2. /\ Cardinality(Pending(f)') <= Cardinality(Pending(f))
          /\ Cardinality(unacked[f]') <= Cardinality(unacked[f])
      BY <1>0, <2>1, FiniteSubset
    <2>3. /\ Cardinality(Pending(f)') \in Nat
          /\ Cardinality(Pending(f)) \in Nat
          /\ Cardinality(unacked[f]') \in Nat
          /\ Cardinality(unacked[f]) \in Nat
      BY <1>0, <2>1, FiniteSubset
    <2> QED
      BY <2>2, <2>3, WorkerCountNat DEF Owned, Bounded
  <1> QED
    BY <1>2, <1>3, <1>4 DEF Owned

\* The broker takes back everything engine e left unsettled; e keeps some of
\* what it held, or nothing at all when its process ended.
LEMMA OwnedRequeues ==
    ASSUME Typed, Owned, Typed', NEW e \in Engines,
           Requeue(e),
           connected' = [connected EXCEPT ![e] = FALSE],
           \A f \in Engines :
              /\ Pending(f)' \subseteq Pending(f) /\ Disjoint(f)'
              /\ f # e => proc[f]' = proc[f],
           proc[e]' # "up" =>
              Pending(e)' = {} /\ \A w \in Workers : ~Working(e, w)',
           \A f \in Engines : \A x \in Workers :
              Working(f, x)' => Working(f, x) /\ Job(f, x)' = Job(f, x)
    PROVE  Owned'
  <1>0. /\ unacked' = [unacked EXCEPT ![e] = {}]
        /\ ready' = ready \cup unacked[e]
        /\ redelivered' = redelivered \cup unacked[e]
    BY DEF Requeue
  <1>1. Places'
    BY <1>0 DEF Owned, Places, Settled, Requeue, Typed, TypeOK
  <1> SUFFICES ASSUME NEW f \in Engines
               PROVE  (/\ connected[f] => Connected(f)
                       /\ ~connected[f] => Disconnected(f)
                       /\ proc[f] # "up" => ~connected[f]
                       /\ Disjoint(f)
                       /\ Bounded(f))'
    BY <1>1 DEF Owned
  <1>2. unacked[f]' = IF f = e THEN {} ELSE unacked[f]
    BY <1>0 DEF Typed, TypeOK
  <1>3. /\ connected[f]' => f # e /\ connected[f]
        /\ ~connected[f]' => f = e \/ ~connected[f]
    BY DEF Typed, TypeOK
  <1>4. (connected[f] => Connected(f))'
    BY <1>2, <1>3 DEF Owned, Connected
  <1>5. (~connected[f] => Disconnected(f))'
    <2>1. CASE f = e
      BY <2>1, <1>0, <1>2 DEF Owned, Connected, Disconnected
    <2>2. CASE f # e
      BY <2>2, <1>0, <1>2, <1>3 DEF Owned, Disconnected
    <2> QED
      BY <2>1, <2>2
  <1>6. (proc[f] # "up" => ~connected[f])'
    BY <1>3 DEF Owned
  <1>7. Bounded(f)'
    <2>1. Pending(f) \in SUBSET Submissions
      BY DEF Pending, InHand, Typed, TypeOK, HasJob
    <2>2. /\ Cardinality(Pending(f)') <= Cardinality(Pending(f))
          /\ Cardinality(Pending(f)') \in Nat
          /\ Cardinality(Pending(f)) \in Nat
      BY <2>1, FiniteSubset
    <2>3. Cardinality(unacked[f]') <= WorkerCount
      BY <1>2, WorkerCountNat, FS_EmptySet DEF Owned, Bounded
    <2> QED
      BY <2>2, <2>3, WorkerCountNat DEF Owned, Bounded
  <1> QED
    BY <1>4, <1>5, <1>6, <1>7

\* The empty hands of a process that ended.
LEMMA OwnedProcessEnds ==
    ASSUME Typed, Owned, Typed', NEW e \in Engines,
           NEW how \in {"exited", "crashed"}, ProcessEnds(e, how)
    PROVE  Owned'
  <1>1. \A f \in Engines :
          /\ Pending(f)' = IF f = e THEN {} ELSE Pending(f)
          /\ Disjoint(f)'
    BY DEF ProcessEnds, Pending, Disjoint, InHand, ConsumerAt, Owned, Typed, TypeOK
  <1>2. \A f \in Engines : \A x \in Workers :
          Working(f, x)' => f # e /\ Working(f, x) /\ Job(f, x)' = Job(f, x)
    BY DEF ProcessEnds, Working, Job, IdleWorkers, WorkerAt, Typed, TypeOK
  <1>3. \A f \in Engines : f # e => proc[f]' = proc[f]
    BY DEF ProcessEnds, Typed, TypeOK
  <1> QED
    BY <1>1, <1>2, <1>3, OwnedRequeues DEF ProcessEnds

LEMMA OwnedConsumer ==
    ASSUME Typed, Owned, Typed', NEW e \in Engines, Consumer(e)
    PROVE  Owned'
  <1> USE DEF ConsumerAt
  <1>1. ASSUME UNCHANGED <<broker, connected, proc, deliveries, jobQueue, worker>>,
               consumer[e].pc # "send",
               NEW pc \in ConsumerPC \ {"send"},
               consumer' = [consumer EXCEPT ![e] = ConsumerAt(pc, Nil)]
        PROVE  Owned'
    <2>1. \A f \in Engines : InHand(f)' = InHand(f)
      BY <1>1 DEF InHand, Typed, TypeOK
    <2>2. \A f \in Engines : Pending(f)' = Pending(f) /\ Disjoint(f)'
      BY <1>1, <2>1 DEF Pending, Disjoint, Owned
    <2>3. \A f \in Engines : \A x \in Workers :
            Working(f, x)' => Working(f, x) /\ Job(f, x)' = Job(f, x)
      BY <1>1 DEF Working, Job
    <2> QED
      BY <1>1, <2>2, <2>3, OwnedShrinks
  <1>2. CASE ConsumerSubscribe(e)
    BY <1>1, <1>2 DEF ConsumerSubscribe, ConsumerPC
  <1>3. CASE ConsumerSubscribeFails(e)
    BY <1>1, <1>3 DEF ConsumerSubscribeFails, ConsumerPC
  <1>4. CASE ConsumerStop(e)
    BY <1>1, <1>4 DEF ConsumerStop, ConsumerPC
  <1>5. CASE ConsumerEOF(e)
    BY <1>1, <1>5 DEF ConsumerEOF, ConsumerPC
  <1>6. CASE ConsumerReceive(e)
    <2>1. \A f \in Engines : \A x \in Workers :
            Working(f, x)' => Working(f, x) /\ Job(f, x)' = Job(f, x)
      BY <1>6 DEF ConsumerReceive, Working, Job
    <2>2. \A f \in Engines : Pending(f)' \subseteq Pending(f) /\ Disjoint(f)'
      BY <1>6 DEF ConsumerReceive, Pending, Disjoint, InHand, Owned, Typed, TypeOK
    <2> QED
      BY <1>6, <2>1, <2>2, OwnedShrinks DEF ConsumerReceive
  <1>7. CASE ConsumerSend(e)
    <2>1. \A f \in Engines : \A x \in Workers :
            Working(f, x)' => Working(f, x) /\ Job(f, x)' = Job(f, x)
      BY <1>7 DEF ConsumerSend, Working, Job
    <2>2. \A f \in Engines : Pending(f)' \subseteq Pending(f) /\ Disjoint(f)'
      BY <1>7 DEF ConsumerSend, Pending, Disjoint, InHand, Owned, Typed, TypeOK
    <2> QED
      BY <1>7, <2>1, <2>2, OwnedShrinks DEF ConsumerSend
  <1>8. CASE ConsumerReject(e)
    <2>1. PICK s \in deliveries[e] \cap Malformed :
            /\ deliveries' = [deliveries EXCEPT ![e] = @ \ {s}]
            /\ Discard(e, s)
      BY <1>8 DEF ConsumerReject
    <2>2. /\ s \in Submissions /\ s \in Pending(e)
          /\ UNCHANGED <<connected, proc, consumer, jobQueue, worker>>
          /\ consumer[e].pc = "select"
      BY <1>8, <2>1 DEF ConsumerReject, Pending
    <2>3. \A f \in Engines : Pending(f)' \subseteq Pending(f) /\ Disjoint(f)'
      BY <2>1, <2>2 DEF Pending, Disjoint, InHand, Owned, Typed, TypeOK
    <2>4. s \notin Pending(e)'
      BY <2>1, <2>2 DEF Pending, Disjoint, InHand, Owned, Typed, TypeOK
    <2>5. connected[e] => s \in unacked[e]
      BY <2>2 DEF Owned, Connected
    <2>6. \A f \in Engines : \A x \in Workers : Working(f, x)' =>
            /\ Working(f, x) /\ Job(f, x)' = Job(f, x)
            /\ f = e /\ connected[e] => Job(f, x) # s
      BY <2>2 DEF Working, Job, Owned, Connected
    <2> QED
      BY <2>1, <2>2, <2>3, <2>4, <2>5, <2>6, OwnedSettles
  <1>9. CASE ConsumerSendPanics(e)
    BY <1>9, OwnedProcessEnds DEF ConsumerSendPanics
  <1> QED
    BY <1>2, <1>3, <1>4, <1>5, <1>6, <1>7, <1>8, <1>9 DEF Consumer

\* A worker that goes on with its job, or gives it up, disturbs nobody.
LEMMA OwnedStep ==
    ASSUME Typed, Owned, Typed', NEW e \in Engines, NEW w \in Workers,
           NEW pc, NEW q \in WorkerPC, NEW s \in Submissions \cup {Nil},
           NEW v \in Verdicts \cup {Nil}, Step(e, w, pc, WorkerAt(q, s, v)),
           UNCHANGED <<broker, connected, proc, deliveries, consumer, jobQueue>>,
           \/ q \in {"select", "stopped", "log"}
           \/ Working(e, w) /\ s = Job(e, w)
    PROVE  Owned'
  <1>1. \A f \in Engines : Pending(f)' = Pending(f) /\ Disjoint(f)'
    BY DEF Pending, InHand, Disjoint, Owned
  <1>2. \A f \in Engines : \A x \in Workers :
          Working(f, x)' => Working(f, x) /\ Job(f, x)' = Job(f, x)
    BY DEF Step, Working, Job, WorkerAt, Typed, TypeOK
  <1> QED
    BY <1>1, <1>2, OwnedShrinks

\* Settling a job: Ack and Nack.
LEMMA OwnedSettleStep ==
    ASSUME Typed, Owned, Typed', NEW e \in Engines, NEW w \in Workers,
           NEW pc, pc \notin {"select", "stopped", "log"},
           Step(e, w, pc, WorkerAt("log", Job(e, w), Verdict(e, w))),
           Ack(e, Job(e, w)) \/ Discard(e, Job(e, w)),
           UNCHANGED <<connected, proc, deliveries, consumer, jobQueue>>
    PROVE  Owned'
  <1>1. Working(e, w) /\ Job(e, w) \in Submissions
    BY DEF Step, Working, Typed, HasJob
  <1>2. \A f \in Engines : Pending(f)' = Pending(f) /\ Disjoint(f)'
    BY DEF Pending, InHand, Disjoint, Owned
  <1>3. connected[e] => Job(e, w) \in unacked[e] /\ Job(e, w) \notin Pending(e)
    BY <1>1 DEF Owned, Connected
  <1>4. \A f \in Engines : \A x \in Workers : Working(f, x)' =>
          Working(f, x) /\ Job(f, x)' = Job(f, x) /\ (f # e \/ x # w)
    BY DEF Step, Working, Job, WorkerAt, Typed, TypeOK
  <1>5. \A x \in Workers :
          connected[e] /\ Working(e, x) /\ x # w => Job(e, x) # Job(e, w)
    BY <1>1 DEF Owned, Connected
  <1>6. \A f \in Engines : \A x \in Workers : Working(f, x)' =>
          /\ Working(f, x) /\ Job(f, x)' = Job(f, x)
          /\ f = e /\ connected[e] => Job(f, x) # Job(e, w)
    BY <1>4, <1>5
  <1>7. /\ \A f \in Engines : Pending(f)' \subseteq Pending(f) /\ Disjoint(f)'
        /\ Job(e, w) \notin Pending(e)' \/ ~connected[e]
    BY <1>2, <1>3
  <1> QED
    BY <1>1, <1>3, <1>6, <1>7, OwnedSettles

\* Taking a job moves it from JobQueue to the worker.
LEMMA OwnedTake ==
    ASSUME Typed, Owned, Typed', NEW e \in Engines, NEW w \in Workers,
           WorkerTake(e, w)
    PROVE  Owned'
  <1>1. PICK s \in jobQueue[e] :
          /\ Step(e, w, "select", WorkerAt("load", s, Nil))
          /\ jobQueue' = [jobQueue EXCEPT ![e] = @ \ {s}]
          /\ UNCHANGED <<broker, results, proc, ctxDone, closed, connected,
                         deliveries, consumer>>
    BY DEF WorkerTake
  <1>2. s \in Submissions /\ s \in Pending(e)
    BY DEF Pending, Typed, TypeOK
  <1>3. \A f \in Engines :
          /\ Pending(f)' = IF f = e THEN Pending(f) \ {s} ELSE Pending(f)
          /\ Disjoint(f)'
    BY <1>1, <1>2 DEF Pending, InHand, Disjoint, Owned, Typed, TypeOK
  <1>4. \A f \in Engines : \A x \in Workers :
          /\ f # e \/ x # w => (Working(f, x)' <=> Working(f, x))
                               /\ Job(f, x)' = Job(f, x)
          /\ f = e /\ x = w => Job(f, x)' = s
    BY <1>1 DEF Step, Working, Job, WorkerAt, Typed, TypeOK
  <1>5. Places'
    BY <1>1 DEF Owned, Places, broker, Settled
  <1>6. ASSUME NEW f \in Engines
        PROVE  (/\ connected[f] => Connected(f)
                /\ ~connected[f] => Disconnected(f)
                /\ proc[f] # "up" => ~connected[f]
                /\ Disjoint(f)
                /\ Bounded(f))'
    <2>1. (connected[f] => Connected(f))'
      <3> SUFFICES ASSUME connected[f] PROVE Connected(f)'
        BY <1>1
      <3>1. Connected(f) /\ UNCHANGED unacked
        BY <1>1 DEF Owned, broker
      <3>2. CASE f = e
        BY <3>1, <3>2, <1>2, <1>3, <1>4 DEF Connected
      <3>3. CASE f # e
        BY <3>1, <3>3, <1>3, <1>4 DEF Connected
      <3> QED
        BY <3>2, <3>3
    <2>2. (~connected[f] => Disconnected(f))'
      <3> SUFFICES ASSUME ~connected[f] PROVE Disconnected(f)'
        BY <1>1
      <3>1. Disconnected(f) /\ UNCHANGED <<unacked, redelivered, proc>>
        BY <1>1 DEF Owned, broker
      <3>2. proc[e] = "up"
        BY <1>1 DEF Step
      <3> QED
        BY <3>1, <3>2, <1>2, <1>3, <1>4 DEF Disconnected
    <2>3. Bounded(f)'
      <3>1. Pending(f) \in SUBSET Submissions
        BY DEF Pending, InHand, Typed, TypeOK, HasJob
      <3>2. /\ Cardinality(Pending(f)') <= Cardinality(Pending(f))
            /\ Cardinality(Pending(f)') \in Nat
            /\ Cardinality(Pending(f)) \in Nat
        BY <1>3, <3>1, FiniteSubset
      <3> QED
        BY <1>1, <3>2, WorkerCountNat DEF Owned, Bounded, broker
    <2> QED
      BY <1>1, <1>3, <2>1, <2>2, <2>3 DEF Owned
  <1> QED
    BY <1>5, <1>6 DEF Owned

LEMMA OwnedWorker ==
    ASSUME Typed, Owned, Typed', NEW e \in Engines, NEW w \in Workers,
           Worker(e, w)
    PROVE  Owned'
  <1>0. /\ Job(e, w) \in Submissions \cup {Nil}
        /\ Verdict(e, w) \in Verdicts \cup {Nil}
    BY DEF Typed, TypeOK, Job, Verdict
  <1>1. CASE WorkerStop(e, w)
    BY <1>1, OwnedStep DEF WorkerStop, WorkerPC
  <1>2. CASE WorkerTake(e, w)
    BY <1>2, OwnedTake
  <1>3. CASE WorkerLoad(e, w)
    BY <1>3, <1>0, OwnedStep DEF WorkerLoad, WorkerPC, Working, Step
  <1>4. CASE WorkerLoadFails(e, w)
    BY <1>4, <1>0, OwnedStep DEF WorkerLoadFails, WorkerPC, Working, Step
  <1>5. CASE WorkerJudge(e, w)
    <2>1. PICK v \in Verdicts : Step(e, w, "judge", WorkerAt("save", Job(e, w), v))
      BY <1>5 DEF WorkerJudge
    <2>2. Working(e, w)
      BY <2>1 DEF Step, Working
    <2> QED
      BY <1>5, <1>0, <2>1, <2>2, OwnedStep DEF WorkerJudge, WorkerPC
  <1>6. CASE WorkerSave(e, w)
    BY <1>6, <1>0, OwnedStep DEF WorkerSave, WorkerPC, Working, Step
  <1>7. CASE WorkerSaved(e, w)
    BY <1>7, <1>0, OwnedStep DEF WorkerSaved, WorkerPC, Working, Step
  <1>8. CASE WorkerSaveFails(e, w)
    BY <1>8, <1>0, OwnedStep DEF WorkerSaveFails, WorkerPC, Working, Step
  <1>9. CASE WorkerPublish(e, w)
    BY <1>9, <1>0, OwnedStep DEF WorkerPublish, WorkerPC, Working, Step
  <1>10. CASE WorkerAck(e, w)
    BY <1>10, OwnedSettleStep DEF WorkerAck
  <1>11. CASE WorkerNack(e, w)
    BY <1>11, OwnedSettleStep DEF WorkerNack
  <1>12. CASE WorkerLog(e, w)
    BY <1>12, OwnedStep DEF WorkerLog, WorkerPC
  <1>13. CASE WorkerLogPanics(e, w)
    BY <1>13, OwnedProcessEnds DEF WorkerLogPanics
  <1>14. CASE WorkerCheckerFails(e, w)
    <2>1. PICK v \in Verdicts : Step(e, w, "judge", WorkerAt("save", Job(e, w), v))
      BY <1>14 DEF WorkerCheckerFails
    <2>2. Working(e, w)
      BY <2>1 DEF Step, Working
    <2> QED
      BY <1>14, <1>0, <2>1, <2>2, OwnedStep DEF WorkerCheckerFails, WorkerPC
  <1>15. CASE WorkerHangs(e, w)
    BY <1>15, <1>0, OwnedStep DEF WorkerHangs, WorkerPC, Working, Step
  <1> QED
    BY <1>1, <1>2, <1>3, <1>4, <1>5, <1>6, <1>7, <1>8, <1>9, <1>10, <1>11,
       <1>12, <1>13,
       <1>14, <1>15 DEF Worker

LEMMA OwnedDeliver ==
    ASSUME Typed, Owned, Typed', NEW e \in Engines, Deliver(e)
    PROVE  Owned'
  <1>1. PICK s \in ready :
          /\ ready' = ready \ {s}
          /\ unacked' = [unacked EXCEPT ![e] = @ \cup {s}]
          /\ deliveries' = [deliveries EXCEPT ![e] = @ \cup {s}]
    BY DEF Deliver
  <1>2. /\ connected[e] /\ Cardinality(unacked[e]) < WorkerCount
        /\ UNCHANGED <<acked, dropped, redelivered, proc, connected, consumer,
                       jobQueue, worker>>
    BY DEF Deliver
  <1>3. s \in Submissions /\ s \notin unacked[e] /\ Connected(e)
    BY <1>2 DEF Owned, Places, Typed, TypeOK
  <1>4. \A f \in Engines :
          /\ unacked[f]' = IF f = e THEN unacked[f] \cup {s} ELSE unacked[f]
          /\ Pending(f)' = IF f = e THEN Pending(f) \cup {s} ELSE Pending(f)
    BY <1>1, <1>2 DEF Pending, InHand, Typed, TypeOK
  <1>5. \A f \in Engines : Disjoint(f)'
    BY <1>1, <1>2, <1>3 DEF Disjoint, Connected, Pending, InHand, Owned, Typed, TypeOK
  <1>6. Places'
    BY <1>1, <1>2, <1>3, <1>4 DEF Owned, Places, Settled
  <1>7. \A f \in Engines : \A x \in Workers :
          (Working(f, x)' <=> Working(f, x)) /\ Job(f, x)' = Job(f, x)
    BY <1>2 DEF Working, Job
  <1>8. Connected(e)'
    <2>1. Pending(e)' \subseteq unacked[e]'
      BY <1>3, <1>4 DEF Connected
    <2>2. ASSUME NEW w \in Workers, Working(e, w)'
          PROVE  /\ Job(e, w)' \in unacked[e]'
                 /\ Job(e, w)' \notin Pending(e)'
                 /\ \A x \in Workers :
                      Working(e, x)' /\ Job(e, x)' = Job(e, w)' => x = w
      <3>1. Working(e, w) /\ Job(e, w)' = Job(e, w)
        BY <2>2, <1>7
      <3>2. Job(e, w) \in unacked[e] /\ Job(e, w) \notin Pending(e)
        BY <3>1, <1>3 DEF Connected
      <3>3. \A x \in Workers :
              Working(e, x)' /\ Job(e, x)' = Job(e, w)' => x = w
        BY <3>1, <1>3, <1>7 DEF Connected
      <3> QED
        BY <3>1, <3>2, <3>3, <1>3, <1>4
    <2> QED
      BY <2>1, <2>2 DEF Connected
  <1>9. Bounded(e)'
    <2>1. unacked[e] \in SUBSET Submissions /\ unacked[e]' \in SUBSET Submissions
      BY <1>3, <1>4 DEF Typed, TypeOK
    <2>2. Cardinality(unacked[e] \cup {s}) = Cardinality(unacked[e]) + 1
      BY <2>1, <1>3, FiniteSubset, FS_AddElement
    <2>3. Pending(e)' \in SUBSET unacked[e]'
      BY <1>8 DEF Connected
    <2>4. /\ Cardinality(Pending(e)') <= Cardinality(unacked[e]')
          /\ Cardinality(Pending(e)') \in Nat
          /\ Cardinality(unacked[e]) \in Nat
      BY <2>1, <2>3, FiniteSubset
    <2> QED
      BY <1>2, <1>4, <2>2, <2>4, WorkerCountNat DEF Bounded
  <1>10. ASSUME NEW f \in Engines, f # e
         PROVE  (/\ connected[f] => Connected(f)
                 /\ ~connected[f] => Disconnected(f)
                 /\ proc[f] # "up" => ~connected[f]
                 /\ Bounded(f))'
    <2>1. unacked[f]' = unacked[f] /\ Pending(f)' = Pending(f)
      BY <1>4, <1>10
    <2>2. ASSUME connected[f] PROVE Connected(f)'
      BY <2>1, <2>2, <1>7 DEF Owned, Connected
    <2>3. ASSUME ~connected[f] PROVE Disconnected(f)'
      BY <2>1, <2>3, <1>2, <1>7 DEF Owned, Disconnected
    <2>4. Bounded(f)'
      BY <2>1 DEF Owned, Bounded
    <2> QED
      BY <1>2, <2>2, <2>3, <2>4 DEF Owned
  <1> QED
    BY <1>2, <1>5, <1>6, <1>8, <1>9, <1>10 DEF Owned

LEMMA OwnedLoseConnection ==
    ASSUME Typed, Owned, Typed', NEW e \in Engines, LoseConnection(e)
    PROVE  Owned'
  <1>1. PICK kept \in SUBSET deliveries[e] :
          deliveries' = [deliveries EXCEPT ![e] = kept]
    BY DEF LoseConnection
  <1>2. /\ UNCHANGED <<proc, consumer, jobQueue, worker>>
        /\ proc[e] = "up"
        /\ connected' = [connected EXCEPT ![e] = FALSE]
        /\ Requeue(e)
    BY DEF LoseConnection
  <1>3. \A f \in Engines : Pending(f)' \subseteq Pending(f) /\ Disjoint(f)'
    BY <1>1, <1>2 DEF Pending, InHand, Disjoint, Owned, Typed, TypeOK
  <1>4. \A f \in Engines : \A x \in Workers :
          Working(f, x)' => Working(f, x) /\ Job(f, x)' = Job(f, x)
    BY <1>2 DEF Working, Job
  <1> QED
    BY <1>2, <1>3, <1>4, OwnedRequeues

LEMMA OwnedRestart ==
    ASSUME Typed, Owned, Typed', NEW e \in Engines, Restart(e)
    PROVE  Owned'
  <1>1. /\ proc[e] # "up" /\ ~connected[e] /\ Disconnected(e)
        /\ UNCHANGED <<ready, unacked, acked, dropped, redelivered, deliveries,
                       consumer, jobQueue, worker>>
        /\ proc' = [proc EXCEPT ![e] = "up"]
        /\ connected' = [connected EXCEPT ![e] = TRUE]
    BY DEF Restart, broker, Owned
  <1>2. Places'
    BY <1>1 DEF Owned, Places, Settled
  <1>3. \A f \in Engines :
          Pending(f)' = Pending(f) /\ (Disjoint(f)' <=> Disjoint(f))
    BY <1>1 DEF Pending, InHand, Disjoint
  <1>4. \A f \in Engines : \A x \in Workers :
          (Working(f, x)' <=> Working(f, x)) /\ Job(f, x)' = Job(f, x)
    BY <1>1 DEF Working, Job
  <1>5. (Connected(e) /\ Bounded(e))' /\ connected[e]' /\ proc[e]' = "up"
    BY <1>1, <1>3, <1>4
       DEF Owned, Connected, Disconnected, Bounded, Typed, TypeOK
  <1>6. ASSUME NEW f \in Engines, f # e
        PROVE  (/\ connected[f] => Connected(f)
                /\ ~connected[f] => Disconnected(f)
                /\ proc[f] # "up" => ~connected[f]
                /\ Bounded(f))'
    <2>1. UNCHANGED <<connected[f], proc[f]>>
      BY <1>1, <1>6 DEF Typed, TypeOK
    <2>2. ASSUME connected[f] PROVE Connected(f)'
      BY <1>1, <1>3, <1>4, <2>2 DEF Owned, Connected
    <2>3. ASSUME ~connected[f] PROVE Disconnected(f)'
      BY <1>1, <1>3, <1>4, <2>1, <2>3 DEF Owned, Disconnected
    <2>4. Bounded(f)'
      BY <1>1, <1>3 DEF Owned, Bounded
    <2> QED
      BY <2>1, <2>2, <2>3, <2>4 DEF Owned
  <1> QED
    BY <1>2, <1>3, <1>5, <1>6 DEF Owned

LEMMA InitOwned == Init => Owned
  <1> SUFFICES ASSUME Init PROVE Owned
    OBVIOUS
  <1>1. \A e \in Engines : unacked[e] = {} /\ Pending(e) = {}
    BY DEF Init, Pending, InHand, ConsumerAt
  <1>2. \A e \in Engines : Bounded(e)
    BY <1>1, FS_EmptySet, WorkerCountNat DEF Bounded
  <1> QED
    BY <1>1, <1>2 DEF Init, Owned, Places, Connected, Disconnected, Disjoint,
       InHand, Settled, ConsumerAt, Working, IdleWorkers, WorkerAt

LEMMA OwnedStutters ==
    ASSUME Typed, Owned, Typed',
           UNCHANGED <<broker, connected, proc, deliveries, consumer, jobQueue,
                       worker>>
    PROVE  Owned'
  <1>1. \A f \in Engines : Pending(f)' = Pending(f) /\ Disjoint(f)'
    BY DEF Pending, InHand, Disjoint, Owned
  <1>2. \A f \in Engines : \A x \in Workers :
          Working(f, x)' => Working(f, x) /\ Job(f, x)' = Job(f, x)
    BY DEF Working, Job
  <1> QED
    BY <1>1, <1>2, OwnedShrinks

LEMMA NextOwned == Typed /\ Owned /\ [Next]_vars => Owned'
  <1> SUFFICES ASSUME Typed, Owned, [Next]_vars PROVE Owned'
    OBVIOUS
  <1>0. Typed'
    BY NextTyped
  <1>1. CASE UNCHANGED vars
    BY <1>0, <1>1, OwnedStutters DEF vars, memory
  <1>2. ASSUME NEW e \in Engines, MainCloseQueue(e) \/ Sigterm(e) PROVE Owned'
    BY <1>0, <1>2, OwnedStutters DEF MainCloseQueue, Sigterm, memory
  <1>3. ASSUME NEW e \in Engines, MainExit(e) \/ Kill(e) PROVE Owned'
    BY <1>0, <1>3, OwnedProcessEnds DEF MainExit, Kill
  <1>4. CASE Quiescent
    BY <1>1, <1>4 DEF Quiescent
  <1> QED
    BY <1>0, <1>1, <1>2, <1>3, <1>4, OwnedDeliver, OwnedConsumer, OwnedWorker,
       OwnedLoseConnection, OwnedRestart DEF Next, Main

LEMMA OwnedInvariance == Spec => [](Typed /\ Owned)
  <1>1. Init => Typed /\ Owned
    BY InitTyped, InitOwned
  <1>2. Typed /\ Owned /\ [Next]_vars => (Typed /\ Owned)'
    BY NextTyped, NextOwned
  <1> QED
    BY <1>1, <1>2, PTL DEF Spec

\* The consumer's send never waits: prefetch = cap(JobQueue) = number of
\* workers (engine.go:29, 47) keeps that promise through crashes and lost
\* connections.
THEOREM PoolIsSafe == Spec => []JobQueueNeverBlocks
  BY OwnedGivesRoom, OwnedInvariance, PTL

\* Nobody takes up a submission that a connected engine already has in hand:
\* the broker hands an unacknowledged message to one consumer, and an engine
\* gives it up only by settling it, by losing its connection or by dying.
THEOREM OneJudgePerSubmission == Spec => []ExclusiveJudging
  BY OwnedIsExclusive, OwnedInvariance, PTL

----------------------------------------------------------------------------
(* What the database and the leaderboard know.                             *)

\* A submission nobody redelivered is judged from one pair of hands only, so
\* until its verdict is stored it has none, and afterwards nobody holds it.
Fresh(s) ==
    stored[s] # {} =>
        /\ s \notin ready
        /\ \A e \in Engines : s \notin Pending(e)
        /\ \A e \in Engines : \A w \in Workers :
              worker[e][w].pc \in {"load", "judge", "save", "saving"} => Job(e, w) # s

Recorded ==
    /\ \A s \in Submissions :
          /\ stored[s] = {} => status[s] = "QUEUE"
          /\ stored[s] # {} => status[s] \in stored[s]
          /\ s \notin redelivered => stored[s] \subseteq {status[s]} /\ Fresh(s)
    /\ \A s \in acked : stored[s] # {}
    /\ \A p \in published : p[2] \in stored[p[1]]
    /\ \A e \in Engines : \A w \in Workers :
          worker[e][w].pc \in {"publish", "ack"} => Verdict(e, w) \in stored[Job(e, w)]

LEMMA InitRecorded == Init => Recorded
  BY DEF Init, Recorded, Fresh, IdleWorkers, WorkerAt

\* Steps that write no verdict, publish nothing and acknowledge nothing.
LEMMA RecordedKept ==
    ASSUME Typed, Typed', Recorded,
           UNCHANGED <<status, stored, published, acked>>,
           redelivered \subseteq redelivered',
           \A s \in Submissions \ redelivered' : Fresh(s) => Fresh(s)',
           \A e \in Engines : \A w \in Workers :
              worker'[e][w].pc \in {"publish", "ack"} =>
                 /\ worker[e][w].pc \in {"publish", "ack"}
                 /\ worker'[e][w].job = worker[e][w].job
                 /\ worker'[e][w].verdict = worker[e][w].verdict
    PROVE  Recorded'
  <1>1. \A s \in Submissions :
          (/\ stored[s] = {} => status[s] = "QUEUE"
           /\ stored[s] # {} => status[s] \in stored[s]
           /\ s \notin redelivered => stored[s] \subseteq {status[s]} /\ Fresh(s))'
    BY DEF Recorded
  <1>2. (/\ \A s \in acked : stored[s] # {}
         /\ \A p \in published : p[2] \in stored[p[1]])'
    BY DEF Recorded
  <1>3. (\A e \in Engines : \A w \in Workers : worker[e][w].pc \in {"publish", "ack"}
            => Verdict(e, w) \in stored[Job(e, w)])'
    BY DEF Recorded, Job, Verdict
  <1> QED
    BY <1>1, <1>2, <1>3 DEF Recorded

\* A process that ends or loses its connection marks what it held.
LEMMA RecordedRequeues ==
    ASSUME Typed, Typed', Owned, Recorded, NEW e \in Engines,
           Requeue(e), UNCHANGED <<status, stored, published>>,
           \A f \in Engines : Pending(f)' \subseteq Pending(f),
           \A f \in Engines : \A x \in Workers :
              worker'[f][x] = worker[f][x] \/ worker'[f][x].pc = "select"
    PROVE  Recorded'
  <1>1. /\ acked' = acked /\ redelivered \subseteq redelivered'
        /\ \A s \in Submissions \ redelivered' : s \notin unacked[e]
        /\ ready' = ready \cup unacked[e]
    BY DEF Requeue
  <1>2. \A s \in Submissions \ redelivered' : Fresh(s) => Fresh(s)'
    BY <1>1 DEF Fresh, Job
  <1> QED
    BY <1>1, <1>2, RecordedKept

LEMMA RecordedProcessEnds ==
    ASSUME Typed, Typed', Owned, Recorded, NEW e \in Engines,
           NEW how \in {"exited", "crashed"}, ProcessEnds(e, how)
    PROVE  Recorded'
  <1>1. \A f \in Engines : Pending(f)' \subseteq Pending(f)
    BY DEF ProcessEnds, Pending, InHand, ConsumerAt, Typed, TypeOK
  <1>2. \A f \in Engines : \A x \in Workers :
          worker'[f][x] = worker[f][x] \/ worker'[f][x].pc = "select"
    BY DEF ProcessEnds, IdleWorkers, WorkerAt, Typed, TypeOK
  <1> QED
    BY <1>1, <1>2, RecordedRequeues DEF ProcessEnds, results

\* Steps of the broker, the consumer and main.
LEMMA RecordedElsewhere ==
    ASSUME Typed, Typed', Owned, Recorded, NEW e \in Engines,
           \/ Deliver(e)
           \/ Consumer(e)
           \/ Main(e)
           \/ Sigterm(e) \/ Kill(e) \/ LoseConnection(e) \/ Restart(e)
    PROVE  Recorded'
  <1>1. ASSUME UNCHANGED <<ready, acked, redelivered, results, worker>>,
               \A f \in Engines : Pending(f)' \subseteq Pending(f)
        PROVE  Recorded'
    BY <1>1, RecordedKept DEF results, Fresh, Job
  <1> USE DEF Pending, InHand, ConsumerAt
  <1>2. CASE Deliver(e)
    <2>1. PICK s \in ready :
            /\ ready' = ready \ {s}
            /\ deliveries' = [deliveries EXCEPT ![e] = @ \cup {s}]
      BY <1>2 DEF Deliver
    <2>2. UNCHANGED <<acked, redelivered, results, worker, consumer, jobQueue>>
      BY <1>2 DEF Deliver
    <2>3. \A f \in Engines : Pending(f)' \subseteq Pending(f) \cup {s}
      BY <2>1, <2>2 DEF Typed, TypeOK
    <2>4. \A t \in Submissions \ redelivered' : Fresh(t) => Fresh(t)'
      <3> HIDE DEF Pending
      <3> QED BY <2>1, <2>2, <2>3 DEF Fresh, Job, results
    <2> QED
      BY <2>2, <2>4, RecordedKept DEF results
  <1>3. CASE ConsumerSubscribe(e)
    BY <1>1, <1>3 DEF ConsumerSubscribe, broker, Typed, TypeOK
  <1>4. CASE ConsumerSubscribeFails(e)
    BY <1>1, <1>4 DEF ConsumerSubscribeFails, broker, Typed, TypeOK
  <1>5. CASE ConsumerStop(e)
    BY <1>1, <1>5 DEF ConsumerStop, broker, Typed, TypeOK
  <1>6. CASE ConsumerReceive(e)
    BY <1>1, <1>6 DEF ConsumerReceive, broker, Typed, TypeOK
  <1>7. CASE ConsumerReject(e)
    BY <1>1, <1>7 DEF ConsumerReject, Discard, Typed, TypeOK
  <1>8. CASE ConsumerEOF(e)
    BY <1>1, <1>8 DEF ConsumerEOF, broker, Typed, TypeOK
  <1>9. CASE ConsumerSend(e)
    BY <1>1, <1>9 DEF ConsumerSend, broker, Typed, TypeOK
  <1>10. CASE MainCloseQueue(e) \/ Sigterm(e) \/ Restart(e)
    BY <1>1, <1>10 DEF MainCloseQueue, Sigterm, Restart, broker, memory
  <1>11. CASE ConsumerSendPanics(e) \/ MainExit(e) \/ Kill(e)
    BY <1>11, RecordedProcessEnds DEF ConsumerSendPanics, MainExit, Kill
  <1>12. CASE LoseConnection(e)
    <2>1. \A f \in Engines : Pending(f)' \subseteq Pending(f)
      BY <1>12 DEF LoseConnection, Typed, TypeOK
    <2> QED
      BY <1>12, <2>1, RecordedRequeues DEF LoseConnection, results
  <1> QED
    BY <1>2, <1>3, <1>4, <1>5, <1>6, <1>7, <1>8, <1>9, <1>10, <1>11, <1>12
       DEF Consumer, Main

\* What a worker is about to store has no verdict yet, unless it was
\* redelivered, and nobody else is about to store one.
LEMMA StoresFirst ==
    ASSUME Typed, Owned, Recorded, NEW e \in Engines, NEW w \in Workers,
           worker[e][w].pc = "saving", Job(e, w) \notin redelivered
    PROVE  /\ stored[Job(e, w)] = {}
           /\ Job(e, w) \in unacked[e]
           /\ Job(e, w) \notin ready
           /\ \A f \in Engines : Job(e, w) \notin Pending(f)
           /\ \A f \in Engines : \A x \in Workers :
                 Working(f, x) /\ Job(f, x) = Job(e, w) => f = e /\ x = w
  <1>1. Working(e, w) /\ Job(e, w) \in Submissions
    BY DEF Working, Typed, HasJob
  <1>2. stored[Job(e, w)] = {}
    BY <1>1 DEF Recorded, Fresh
  <1>3. Connected(e)
    BY <1>1 DEF Owned, Disconnected
  <1>4. Job(e, w) \in unacked[e] /\ Job(e, w) \notin Pending(e)
    BY <1>1, <1>3 DEF Connected
  <1>5. ASSUME NEW f \in Engines, f # e
        PROVE  /\ Job(e, w) \notin Pending(f)
               /\ \A x \in Workers : Working(f, x) => Job(f, x) # Job(e, w)
    <2>1. Job(e, w) \notin unacked[f]
      BY <1>4, <1>5 DEF Owned, Places
    <2>2. CASE connected[f]
      BY <2>1, <2>2 DEF Owned, Connected
    <2>3. CASE ~connected[f]
      BY <2>3 DEF Owned, Disconnected
    <2> QED
      BY <2>2, <2>3
  <1>6. \A x \in Workers : Working(e, x) /\ Job(e, x) = Job(e, w) => x = w
    BY <1>1, <1>3 DEF Connected
  <1>7. Job(e, w) \notin ready
    BY <1>4 DEF Owned, Places
  <1> QED
    BY <1>2, <1>4, <1>5, <1>6, <1>7

LEMMA RecordedStores ==
    ASSUME Typed, Typed', Owned, Recorded, NEW e \in Engines, NEW w \in Workers,
           NEW q \in {"publish", "nack"},
           Step(e, w, "saving", WorkerAt(q, Job(e, w), Verdict(e, w))),
           Store(Job(e, w), Verdict(e, w)),
           UNCHANGED <<broker, published, deliveries, consumer, jobQueue>>
    PROVE  Recorded'
  <1> DEFINE j == Job(e, w)
             v == Verdict(e, w)
  <1>1. /\ j \in Submissions /\ v \in Verdicts
        /\ worker[e][w].pc = "saving"
        /\ UNCHANGED <<ready, unacked, acked, redelivered>>
    BY DEF Step, Typed, HasJob, broker
  <1>2. \A s \in Submissions :
          /\ status'[s] = IF s = j THEN v ELSE status[s]
          /\ stored'[s] = IF s = j THEN stored[s] \cup {v} ELSE stored[s]
    <2>1. /\ status' = [status EXCEPT ![j] = v]
          /\ stored' = [stored EXCEPT ![j] = @ \cup {v}]
      BY DEF Store
    <2>2. /\ status \in [Submissions -> Verdicts \cup {"QUEUE"}]
          /\ stored \in [Submissions -> SUBSET Verdicts]
      BY DEF Typed, TypeOK
    <2> HIDE DEF j, v
    <2> QED
      BY <2>1, <2>2, <1>1
  <1>3. \A f \in Engines : Pending(f)' = Pending(f)
    BY DEF Pending, InHand
  <1>4. \A f \in Engines : \A x \in Workers :
          /\ f # e \/ x # w => worker'[f][x] = worker[f][x]
          /\ worker'[e][w] = WorkerAt(q, j, v)
    BY DEF Step, Typed, TypeOK
  <1>5. ASSUME NEW s \in Submissions
        PROVE  (/\ stored[s] = {} => status[s] = "QUEUE"
                /\ stored[s] # {} => status[s] \in stored[s]
                /\ s \notin redelivered => stored[s] \subseteq {status[s]} /\ Fresh(s))'
    <2>1. CASE s # j
      <3>0. \A f \in Engines : \A x \in Workers :
              worker'[f][x].pc \in {"load", "judge", "save", "saving"}
              => worker'[f][x] = worker[f][x]
        BY <1>4 DEF WorkerAt
      <3>1. ASSUME Fresh(s) PROVE Fresh(s)'
        <4>1. stored'[s] = stored[s] /\ ready' = ready
          BY <2>1, <1>1, <1>2
        <4>2. ASSUME stored[s] # {}, NEW f \in Engines, NEW x \in Workers,
                     worker'[f][x].pc \in {"load", "judge", "save", "saving"}
              PROVE  worker'[f][x].job # s
          BY <3>0, <3>1, <4>2 DEF Fresh, Job
        <4> QED
          BY <3>1, <4>1, <4>2, <1>3 DEF Fresh, Job
      <3> QED
        BY <2>1, <1>1, <1>2, <3>1 DEF Recorded
    <2>2. CASE s = j /\ s \in redelivered
      BY <2>2, <1>1, <1>2
    <2>3. CASE s = j /\ s \notin redelivered
      <3>1. Fresh(s)'
        <4>1. /\ s \notin ready'
              /\ \A f \in Engines : s \notin Pending(f)'
          BY <2>3, <1>1, <1>3, StoresFirst
        <4>2. ASSUME NEW f \in Engines, NEW x \in Workers,
                     worker'[f][x].pc \in {"load", "judge", "save", "saving"}
              PROVE  Job(f, x)' # s
          <5>1. f # e \/ x # w
            BY <4>2, <1>4 DEF WorkerAt
          <5>2. Working(f, x) /\ Job(f, x)' = Job(f, x)
            BY <4>2, <5>1, <1>4 DEF Working, Job
          <5> QED
            BY <2>3, <5>1, <5>2, <1>1, StoresFirst
        <4> QED
          BY <4>1, <4>2 DEF Fresh
      <3>2. stored[s] = {}
        BY <2>3, <1>1, StoresFirst
      <3> QED
        BY <2>3, <1>2, <3>1, <3>2
    <2> QED
      BY <2>1, <2>2, <2>3
  <1>6. (\A s \in acked : stored[s] # {})'
    <2>1. \A s \in acked : s \in Submissions
      BY DEF Typed, TypeOK
    <2>2. \A s \in acked : stored[s] # {}
      BY DEF Recorded
    <2>3. \A s \in Submissions : stored[s] \subseteq stored'[s]
      BY ONLY <1>2
    <2> QED
      BY ONLY <1>1, <2>1, <2>2, <2>3
  <1>7. (\A p \in published : p[2] \in stored[p[1]])'
    <2>1. \A p \in published : p[1] \in Submissions /\ p[2] \in stored[p[1]]
      BY DEF Recorded, Typed, TypeOK
    <2>2. \A s \in Submissions : stored[s] \subseteq stored'[s]
      BY ONLY <1>2
    <2> QED
      BY <2>1, <2>2
  <1>8. (\A f \in Engines : \A x \in Workers : worker[f][x].pc \in {"publish", "ack"}
            => Verdict(f, x) \in stored[Job(f, x)])'
    <2>1. ASSUME NEW f \in Engines, NEW x \in Workers,
                 worker'[f][x].pc \in {"publish", "ack"}
          PROVE  worker'[f][x].verdict \in stored'[worker'[f][x].job]
      <3>1. CASE f = e /\ x = w
        <4>1. worker'[f][x].job = j /\ worker'[f][x].verdict = v
          BY <3>1, <1>4 DEF WorkerAt
        <4>2. v \in stored'[j]
          BY <1>1, <1>2
        <4> QED
          BY <4>1, <4>2
      <3>2. CASE f # e \/ x # w
        <4>1. worker'[f][x] = worker[f][x]
          BY <3>2, <1>4
        <4>2. Job(f, x) \in Submissions /\ Verdict(f, x) \in stored[Job(f, x)]
          BY <2>1, <4>1 DEF Recorded, Typed, HasJob
        <4> QED
          BY <4>1, <4>2, <1>2 DEF Job, Verdict
      <3> QED
        BY <3>1, <3>2
    <2> QED
      BY <2>1 DEF Job, Verdict
  <1> QED
    BY <1>5, <1>6, <1>7, <1>8 DEF Recorded

\* A worker's step that neither stores, publishes nor acknowledges.
LEMMA RecordedStep ==
    ASSUME Typed, Typed', Owned, Recorded, NEW e \in Engines, NEW w \in Workers,
           NEW pc, NEW q \in WorkerPC \ {"publish", "ack"},
           NEW s \in Submissions \cup {Nil}, NEW v \in Verdicts \cup {Nil},
           Step(e, w, pc, WorkerAt(q, s, v)),
           UNCHANGED <<status, stored, published, ready, acked, redelivered,
                       deliveries, consumer>>,
           \A f \in Engines : jobQueue'[f] \subseteq jobQueue[f],
           \/ q \notin {"load", "judge", "save", "saving"}
           \/ s \in jobQueue[e]
           \/ pc \in {"load", "judge", "save", "saving"} /\ s = Job(e, w)
    PROVE  Recorded'
  <1>1. \A f \in Engines : Pending(f)' \subseteq Pending(f)
    BY DEF Pending, InHand
  <1>2. \A f \in Engines : \A x \in Workers :
          worker'[f][x] = IF f = e /\ x = w THEN WorkerAt(q, s, v) ELSE worker[f][x]
    BY DEF Step, Typed, TypeOK
  <1>3. jobQueue[e] \subseteq Pending(e) /\ worker[e][w].pc = pc
    BY DEF Pending, Step
  <1>4. \A t \in Submissions \ redelivered' : Fresh(t) => Fresh(t)'
    BY <1>1, <1>2, <1>3 DEF Fresh, Job, WorkerAt
  <1> QED
    BY <1>1, <1>2, <1>4, RecordedKept DEF WorkerAt

LEMMA RecordedWorker ==
    ASSUME Typed, Typed', Owned, Recorded, NEW e \in Engines, NEW w \in Workers,
           Worker(e, w)
    PROVE  Recorded'
  <1>1. /\ Job(e, w) \in Submissions \cup {Nil}
        /\ Verdict(e, w) \in Verdicts \cup {Nil}
    BY DEF Typed, TypeOK, Job, Verdict
  <1> USE DEF WorkerPC
  <1>2. CASE WorkerStop(e, w)
    BY <1>1, <1>2, RecordedStep DEF WorkerStop, broker, results
  <1>3. CASE WorkerTake(e, w)
    <2>1. PICK s \in jobQueue[e] :
            /\ Step(e, w, "select", WorkerAt("load", s, Nil))
            /\ jobQueue' = [jobQueue EXCEPT ![e] = @ \ {s}]
            /\ UNCHANGED <<broker, results, proc, ctxDone, closed, connected,
                           deliveries, consumer>>
      BY <1>3 DEF WorkerTake
    <2>2. s \in Submissions /\ \A f \in Engines : jobQueue'[f] \subseteq jobQueue[f]
      BY <2>1 DEF Typed, TypeOK
    <2> QED
      BY <2>1, <2>2, RecordedStep DEF broker, results
  <1>4. CASE WorkerLoad(e, w)
    BY <1>1, <1>4, RecordedStep DEF WorkerLoad, broker, results
  <1>5. CASE WorkerLoadFails(e, w)
    BY <1>1, <1>5, RecordedStep DEF WorkerLoadFails, broker, results
  <1>6. CASE WorkerJudge(e, w)
    <2>1. PICK v \in Verdicts : Step(e, w, "judge", WorkerAt("save", Job(e, w), v))
      BY <1>6 DEF WorkerJudge
    <2> QED
      BY <1>1, <1>6, <2>1, RecordedStep DEF WorkerJudge, broker, results
  <1>7. CASE WorkerSave(e, w)
    BY <1>1, <1>7, RecordedStep DEF WorkerSave, broker, results
  <1>8. CASE WorkerSaved(e, w)
    BY <1>8, RecordedStores DEF WorkerSaved
  <1>9. CASE WorkerSaveFails(e, w)
    <2>1. CASE Store(Job(e, w), Verdict(e, w))
      BY <1>9, <2>1, RecordedStores DEF WorkerSaveFails
    <2>2. CASE UNCHANGED <<status, stored>>
      BY <1>1, <1>9, <2>2, RecordedStep DEF WorkerSaveFails, broker
    <2> QED
      BY <1>9, <2>1, <2>2 DEF WorkerSaveFails
  <1>10. CASE WorkerPublish(e, w)
    <2>1. /\ Verdict(e, w) \in stored[Job(e, w)]
          /\ UNCHANGED <<status, stored, ready, acked, redelivered>>
      BY <1>10 DEF WorkerPublish, Step, Recorded, broker
    <2>2. published' \subseteq published \cup {<<Job(e, w), Verdict(e, w)>>}
      BY <1>10 DEF WorkerPublish
    <2>3. \A f \in Engines : \A x \in Workers :
            worker'[f][x] = IF f = e /\ x = w
                            THEN WorkerAt("ack", Job(e, w), Verdict(e, w))
                            ELSE worker[f][x]
      BY <1>10 DEF WorkerPublish, Step, Typed, TypeOK
    <2>4. \A f \in Engines : Pending(f)' = Pending(f)
      BY <1>10 DEF WorkerPublish, Pending, InHand
    <2>5. \A s \in Submissions : Fresh(s) => Fresh(s)'
      BY <2>1, <2>3, <2>4 DEF Fresh, Job, WorkerAt
    <2>6. (\A f \in Engines : \A x \in Workers : worker[f][x].pc \in {"publish", "ack"}
              => Verdict(f, x) \in stored[Job(f, x)])'
      BY <2>1, <2>3 DEF Recorded, Job, Verdict, WorkerAt
    <2>7. (\A p \in published : p[2] \in stored[p[1]])'
      BY <2>1, <2>2 DEF Recorded
    <2> QED
      BY <2>1, <2>5, <2>6, <2>7 DEF Recorded
  <1>11. CASE WorkerAck(e, w)
    <2>1. /\ Verdict(e, w) \in stored[Job(e, w)]
          /\ UNCHANGED <<status, stored, published, ready, redelivered>>
          /\ acked' \subseteq acked \cup {Job(e, w)}
      BY <1>11 DEF WorkerAck, Step, Ack, Recorded, results
    <2>2. \A f \in Engines : \A x \in Workers :
            worker'[f][x] = IF f = e /\ x = w
                            THEN WorkerAt("log", Job(e, w), Verdict(e, w))
                            ELSE worker[f][x]
      BY <1>11 DEF WorkerAck, Step, Typed, TypeOK
    <2>3. \A f \in Engines : Pending(f)' = Pending(f)
      BY <1>11 DEF WorkerAck, Pending, InHand
    <2>4. \A s \in Submissions : Fresh(s) => Fresh(s)'
      BY <2>1, <2>2, <2>3 DEF Fresh, Job, WorkerAt
    <2>5. (\A f \in Engines : \A x \in Workers : worker[f][x].pc \in {"publish", "ack"}
              => Verdict(f, x) \in stored[Job(f, x)])'
      BY <2>1, <2>2 DEF Recorded, Job, Verdict, WorkerAt
    <2> QED
      BY <2>1, <2>4, <2>5 DEF Recorded
  <1>12. CASE WorkerNack(e, w)
    BY <1>1, <1>12, RecordedStep DEF WorkerNack, Discard, results
  <1>13. CASE WorkerLog(e, w)
    BY <1>1, <1>13, RecordedStep DEF WorkerLog, broker, results
  <1>14. CASE WorkerLogPanics(e, w)
    BY <1>14, RecordedProcessEnds DEF WorkerLogPanics
  <1>15. CASE WorkerCheckerFails(e, w)
    <2>1. PICK v \in Verdicts : Step(e, w, "judge", WorkerAt("save", Job(e, w), v))
      BY <1>15 DEF WorkerCheckerFails
    <2> QED
      BY <1>1, <1>15, <2>1, RecordedStep DEF WorkerCheckerFails, broker, results
  <1>16. CASE WorkerHangs(e, w)
    BY <1>1, <1>16, RecordedStep DEF WorkerHangs, broker, results
  <1> QED
    BY <1>2, <1>3, <1>4, <1>5, <1>6, <1>7, <1>8, <1>9, <1>10, <1>11, <1>12,
       <1>13, <1>14,
       <1>15, <1>16 DEF Worker

Inv == Typed /\ Owned /\ Recorded

LEMMA InitInv == Init => Inv
  BY InitTyped, InitOwned, InitRecorded DEF Inv

LEMMA NextInv == Inv /\ [Next]_vars => Inv'
  <1> SUFFICES ASSUME Inv, [Next]_vars PROVE Inv'
    OBVIOUS
  <1>1. Typed' /\ Owned'
    BY NextTyped, NextOwned DEF Inv
  <1>2. CASE UNCHANGED vars
    BY <1>1, <1>2, RecordedKept
       DEF Inv, vars, broker, results, memory, Fresh, Pending, InHand, Job
  <1>3. ASSUME NEW e \in Engines, NEW w \in Workers, Worker(e, w)
        PROVE  Recorded'
    BY <1>1, <1>3, RecordedWorker DEF Inv
  <1>4. CASE Quiescent
    BY <1>2, <1>4 DEF Quiescent, Inv
  <1> QED
    BY <1>1, <1>2, <1>3, <1>4, RecordedElsewhere DEF Next, Inv

LEMMA Invariance == Spec => []Inv
  BY InitInv, NextInv, PTL DEF Spec

\* An acknowledged submission has its verdict in the database: the worker
\* acknowledges only after UpdateStatus has returned (worker.go).
THEOREM ResultsAreSound == Spec => []AckedIsStored
  <1>1. ASSUME Inv PROVE AckedIsStored
    <2>1. ASSUME NEW s \in acked PROVE status[s] # "QUEUE"
      BY <1>1 DEF Inv, Typed, TypeOK, Recorded
    <2> QED
      BY <2>1 DEF AckedIsStored
  <1> QED
    BY <1>1, Invariance, PTL

\* The leaderboard is told only what a row held, and the row still holds it
\* unless the submission was delivered again and judged anew.
THEOREM PublishedWasStored == Spec => []PublishedIsStored
  <1>1. ASSUME Inv PROVE PublishedIsStored
    <2>1. ASSUME NEW p \in published
          PROVE  /\ p[2] \in stored[p[1]]
                 /\ p[1] \notin redelivered => status[p[1]] = p[2]
      BY <1>1 DEF Inv, Typed, TypeOK, Recorded
    <2> QED
      BY <2>1 DEF PublishedIsStored
  <1> QED
    BY <1>1, Invariance, PTL

----------------------------------------------------------------------------
(* The refinement: every step of the engines is a step of SubmissionJudging *)
(* or leaves its variables alone.                                           *)

Out == [s \in Submissions |-> OutcomeOf(s)]

\* The steps that SubmissionJudging does not see.
Silent == UNCHANGED <<acked, dropped, redelivered, stored, status, published>>

LEMMA SilentStutters == Silent => UNCHANGED Promise!vars
  BY DEF Silent, Promise!vars, OutcomeOf

LEMMA RequeueRedelivers ==
    ASSUME Inv, NEW e \in Engines, Requeue(e), UNCHANGED results
    PROVE  Promise!Next
  <1>1. /\ unacked[e] \in SUBSET Submissions
        /\ \A s \in unacked[e] : s \notin acked /\ s \notin dropped
    BY DEF Inv, Typed, TypeOK, Owned, Places, Settled
  <1>2. Promise!Redeliver(unacked[e])
    BY <1>1 DEF Promise!Redeliver, Requeue, results, OutcomeOf
  <1> QED
    BY <1>1, <1>2 DEF Promise!Next

LEMMA DiscardDrops ==
    ASSUME Inv, NEW e \in Engines, NEW s \in Submissions, Discard(e, s),
           UNCHANGED results, connected[e] => s \in unacked[e]
    PROVE  Promise!Next \/ UNCHANGED Promise!vars
  <1>1. CASE connected[e]
    <2>1. s \notin acked /\ s \notin dropped /\ dropped' = dropped \cup {s}
      BY <1>1 DEF Inv, Owned, Places, Settled, Discard
    <2>2. \A t \in Submissions :
            OutcomeOf(t)' = IF t = s THEN "dropped" ELSE OutcomeOf(t)
      BY <2>1 DEF OutcomeOf, Discard
    <2>3. Promise!Drop(s)
      BY <2>1, <2>2 DEF Promise!Drop, OutcomeOf, Discard, results
    <2> QED
      BY <2>3 DEF Promise!Next
  <1>2. CASE ~connected[e]
    BY <1>2, SilentStutters DEF Silent, Discard, results
  <1> QED
    BY <1>1, <1>2

LEMMA AckAcknowledges ==
    ASSUME Inv, NEW e \in Engines, NEW s \in Submissions, Ack(e, s),
           UNCHANGED results, connected[e] => s \in unacked[e], stored[s] # {}
    PROVE  Promise!Next \/ UNCHANGED Promise!vars
  <1>1. CASE connected[e]
    <2>1. s \notin acked /\ s \notin dropped /\ acked' = acked \cup {s}
      BY <1>1 DEF Inv, Owned, Places, Settled, Ack
    <2>2. \A t \in Submissions :
            OutcomeOf(t)' = IF t = s THEN "acked" ELSE OutcomeOf(t)
      BY <2>1 DEF OutcomeOf, Ack
    <2>3. Promise!Acknowledge(s)
      BY <2>1, <2>2 DEF Promise!Acknowledge, OutcomeOf, Ack, results
    <2> QED
      BY <2>3 DEF Promise!Next
  <1>2. CASE ~connected[e]
    BY <1>2, SilentStutters DEF Silent, Ack, results
  <1> QED
    BY <1>1, <1>2

LEMMA StoreStores ==
    ASSUME Inv, NEW e \in Engines, NEW w \in Workers,
           worker[e][w].pc = "saving", Store(Job(e, w), Verdict(e, w)),
           UNCHANGED <<broker, published>>
    PROVE  Promise!Next
  <1> DEFINE j == Job(e, w)
             v == Verdict(e, w)
  <1>1. j \in Submissions /\ v \in Verdicts
    BY DEF Inv, Typed, HasJob
  <1>2. (j \notin acked /\ j \notin dropped) \/ j \in redelivered
    <2>1. CASE j \in redelivered
      BY <2>1
    <2>2. CASE j \notin redelivered
      <3>1. j \in unacked[e]
        BY <2>2, StoresFirst DEF Inv
      <3> QED
        BY <3>1 DEF Inv, Owned, Places, Settled
    <2> QED
      BY <2>1, <2>2
  <1>3. status[j] \in {"QUEUE", v} \/ j \in redelivered
    <2>1. ASSUME j \notin redelivered PROVE stored[j] = {}
      BY <2>1, StoresFirst DEF Inv
    <2> QED
      BY <1>1, <2>1 DEF Inv, Recorded
  <1>4. UNCHANGED <<acked, dropped, redelivered, published>>
    BY DEF broker
  <1>5. Out' = Out
    BY <1>4 DEF Out, OutcomeOf
  <1>6. Promise!Store(j, v)
    BY <1>1, <1>2, <1>3, <1>4, <1>5 DEF Promise!Store, Store, OutcomeOf, Out
  <1> QED
    BY <1>1, <1>6 DEF Promise!Next

LEMMA WorkerRefines ==
    ASSUME Inv, NEW e \in Engines, NEW w \in Workers, Worker(e, w)
    PROVE  Promise!Next \/ UNCHANGED Promise!vars
  <1>1. CASE WorkerStop(e, w)
    BY <1>1, SilentStutters DEF WorkerStop, Silent, broker, results
  <1>2. CASE WorkerTake(e, w)
    BY <1>2, SilentStutters DEF WorkerTake, Silent, broker, results
  <1>3. CASE WorkerLoad(e, w)
    BY <1>3, SilentStutters DEF WorkerLoad, Silent, broker, results
  <1>4. CASE WorkerLoadFails(e, w)
    BY <1>4, SilentStutters DEF WorkerLoadFails, Silent, broker, results
  <1>5. CASE WorkerJudge(e, w)
    BY <1>5, SilentStutters DEF WorkerJudge, Silent, broker, results
  <1>6. CASE WorkerSave(e, w)
    BY <1>6, SilentStutters DEF WorkerSave, Silent, broker, results
  <1>7. CASE WorkerSaved(e, w)
    BY <1>7, StoreStores DEF WorkerSaved, Step
  <1>8. CASE WorkerSaveFails(e, w)
    BY <1>8, StoreStores, SilentStutters
       DEF WorkerSaveFails, Step, Silent, broker
  <1>9. CASE WorkerPublish(e, w)
    <2>1. /\ Job(e, w) \in Submissions /\ Verdict(e, w) \in Verdicts
          /\ Verdict(e, w) \in stored[Job(e, w)]
          /\ UNCHANGED <<acked, dropped, redelivered, stored, status>>
      BY <1>9 DEF WorkerPublish, Step, broker, Inv, Typed, HasJob, Recorded
    <2>2. CASE UNCHANGED published
      BY <2>1, <2>2, SilentStutters DEF Silent
    <2>3. CASE /\ Job(e, w) \in Rated
               /\ published' = published \cup {<<Job(e, w), Verdict(e, w)>>}
      <3>1. Promise!Publish(Job(e, w), Verdict(e, w))
        BY <2>1, <2>3 DEF Promise!Publish, OutcomeOf
      <3> QED
        BY <2>1, <3>1 DEF Promise!Next
    <2> QED
      BY <1>9, <2>2, <2>3 DEF WorkerPublish
  <1>10. CASE WorkerAck(e, w)
    <2>1. /\ Job(e, w) \in Submissions
          /\ Verdict(e, w) \in stored[Job(e, w)]
          /\ connected[e] => Job(e, w) \in unacked[e]
      BY <1>10 DEF WorkerAck, Step, Inv, Typed, HasJob, Recorded, Owned,
                   Connected, Working
    <2> QED
      BY <1>10, <2>1, AckAcknowledges DEF WorkerAck
  <1>11. CASE WorkerNack(e, w)
    <2>1. /\ Job(e, w) \in Submissions
          /\ connected[e] => Job(e, w) \in unacked[e]
      BY <1>11 DEF WorkerNack, Step, Inv, Typed, HasJob, Owned, Connected, Working
    <2> QED
      BY <1>11, <2>1, DiscardDrops DEF WorkerNack
  <1>12. CASE WorkerLog(e, w)
    BY <1>12, SilentStutters DEF WorkerLog, Silent, broker, results
  <1>13. CASE WorkerLogPanics(e, w)
    BY <1>13, RequeueRedelivers DEF WorkerLogPanics, ProcessEnds
  <1>14. CASE WorkerCheckerFails(e, w)
    BY <1>14, SilentStutters DEF WorkerCheckerFails, Silent, broker, results
  <1>15. CASE WorkerHangs(e, w)
    BY <1>15, SilentStutters DEF WorkerHangs, Silent, broker, results
  <1> QED
    BY <1>1, <1>2, <1>3, <1>4, <1>5, <1>6, <1>7, <1>8, <1>9, <1>10, <1>11,
       <1>12, <1>13,
       <1>14, <1>15 DEF Worker

LEMMA ConsumerRefines ==
    ASSUME Inv, NEW e \in Engines, Consumer(e)
    PROVE  Promise!Next \/ UNCHANGED Promise!vars
  <1>1. CASE ConsumerReject(e)
    <2>1. PICK s \in deliveries[e] \cap Malformed :
            /\ deliveries' = [deliveries EXCEPT ![e] = @ \ {s}]
            /\ Discard(e, s)
      BY <1>1 DEF ConsumerReject
    <2>2. s \in Submissions /\ (connected[e] => s \in unacked[e])
      BY <2>1 DEF Inv, Typed, TypeOK, Owned, Connected, Pending
    <2> QED
      BY <1>1, <2>1, <2>2, DiscardDrops DEF ConsumerReject
  <1>2. CASE ConsumerSendPanics(e)
    BY <1>2, RequeueRedelivers DEF ConsumerSendPanics, ProcessEnds
  <1>3. ASSUME ~ConsumerReject(e), ~ConsumerSendPanics(e) PROVE Silent
    BY <1>3 DEF Consumer, ConsumerSubscribe, ConsumerSubscribeFails,
       ConsumerStop, ConsumerReceive, ConsumerEOF, ConsumerSend, Silent,
       broker, results
  <1> QED
    BY <1>1, <1>2, <1>3, SilentStutters

LEMMA NextRefines == Inv /\ [Next]_vars => [Promise!Next]_(Promise!vars)
  <1> SUFFICES ASSUME Inv, [Next]_vars
               PROVE  Promise!Next \/ UNCHANGED Promise!vars
    OBVIOUS
  <1>1. CASE UNCHANGED vars
    BY <1>1, SilentStutters DEF vars, broker, results, Silent
  <1>2. ASSUME NEW e \in Engines,
               Deliver(e) \/ MainCloseQueue(e) \/ Sigterm(e) \/ Restart(e)
        PROVE  Silent
    BY <1>2 DEF Deliver, MainCloseQueue, Sigterm, Restart, Silent, broker, results
  <1>3. ASSUME NEW e \in Engines, MainExit(e) \/ Kill(e) \/ LoseConnection(e)
        PROVE  Requeue(e) /\ UNCHANGED results
    BY <1>3 DEF MainExit, Kill, LoseConnection, ProcessEnds
  <1>4. CASE Quiescent
    BY <1>1, <1>4 DEF Quiescent
  <1> QED
    BY <1>1, <1>2, <1>3, <1>4, SilentStutters, RequeueRedelivers,
       WorkerRefines, ConsumerRefines DEF Next, Main

LEMMA InitRefines == Init => Promise!Init
  BY DEF Init, Promise!Init, OutcomeOf

\* The engines implement SubmissionJudging, however many there are and
\* whatever fails: a settled message stays settled, an Ack follows a stored
\* verdict, and a verdict is replaced only after a redelivery.
THEOREM Refines == Spec => JudgesAsPromised
  BY InitRefines, NextRefines, Invariance, PTL
     DEF Spec, JudgesAsPromised, Promise!Spec

\* A stored verdict never changes unless the broker redelivered the message:
\* every submission is written once per delivery (worker.go:110).
THEOREM VerdictsAreStable == Spec => VerdictStable
  <1> DEFINE Stable == \A s \in Submissions :
          status[s] # "QUEUE" /\ status'[s] # status[s] => s \in redelivered
  <1>1. ASSUME Inv, Promise!Next PROVE Stable
    <2>1. UNCHANGED status \/ \E s \in Submissions, v \in Verdicts : Promise!Store(s, v)
      BY <1>1 DEF Promise!Next, Promise!Publish, Promise!Acknowledge,
                  Promise!Drop, Promise!Redeliver
    <2>2. ASSUME NEW s \in Submissions, NEW v \in Verdicts, Promise!Store(s, v)
          PROVE  Stable
      BY <1>1, <2>2 DEF Promise!Store, Inv, Typed, TypeOK
    <2> QED
      BY <2>1, <2>2
  <1>2. ASSUME UNCHANGED Promise!vars PROVE Stable
    BY <1>2 DEF Promise!vars
  <1>3. Inv /\ [Next]_vars => [Stable]_vars
    BY <1>1, <1>2, NextRefines
  <1> QED
    BY <1>3, Invariance, PTL DEF Spec, VerdictStable

----------------------------------------------------------------------------
(* Nothing is acknowledged before the leaderboard was told.                *)

\* A worker about to acknowledge a RATED submission has published it.
Told ==
    "io" \notin Faults =>
        /\ \A s \in acked \cap Rated : \E v \in Verdicts : <<s, v>> \in published
        /\ \A e \in Engines : \A w \in Workers :
              worker[e][w].pc = "ack" /\ Job(e, w) \in Rated
              => <<Job(e, w), Verdict(e, w)>> \in published

\* What is acknowledged and published stays, and no worker reaches "ack".
LEMMA ToldKept ==
    ASSUME Told, published \subseteq published', acked' = acked,
           \A e \in Engines : \A w \in Workers :
              worker'[e][w].pc = "ack" => worker'[e][w] = worker[e][w]
    PROVE  Told'
  BY DEF Told, Job, Verdict

\* A worker's move to any other place.
LEMMA ToldStep ==
    ASSUME Typed, Told, published \subseteq published', acked' = acked,
           NEW e \in Engines, NEW w \in Workers, NEW pc, NEW q \in WorkerPC \ {"ack"},
           NEW s, NEW v, Step(e, w, pc, WorkerAt(q, s, v))
    PROVE  Told'
  <1>1. \A f \in Engines : \A x \in Workers :
          worker'[f][x] = IF f = e /\ x = w THEN WorkerAt(q, s, v) ELSE worker[f][x]
    BY DEF Step, Typed, TypeOK
  <1> QED
    BY <1>1, ToldKept DEF WorkerAt

LEMMA ToldProcessEnds ==
    ASSUME Typed, Told, NEW e \in Engines, NEW how, ProcessEnds(e, how)
    PROVE  Told'
  <1>1. \A f \in Engines : worker'[f] = IF f = e THEN IdleWorkers ELSE worker[f]
    BY DEF ProcessEnds, Typed, TypeOK
  <1>2. \A w \in Workers : IdleWorkers[w].pc = "select"
    BY DEF IdleWorkers, WorkerAt
  <1>3. acked' = acked /\ published' = published
    BY DEF ProcessEnds, Requeue, results
  <1> QED
    BY <1>1, <1>2, <1>3, ToldKept

LEMMA ToldWorker ==
    ASSUME Typed, Told, NEW e \in Engines, NEW w \in Workers, Worker(e, w)
    PROVE  Told'
  <1> USE DEF WorkerPC
  <1>1. CASE WorkerStop(e, w)
    BY <1>1, ToldStep DEF WorkerStop, broker, results
  <1>2. CASE WorkerTake(e, w)
    BY <1>2, ToldStep DEF WorkerTake, broker, results
  <1>3. CASE WorkerLoad(e, w)
    BY <1>3, ToldStep DEF WorkerLoad, broker, results
  <1>4. CASE WorkerLoadFails(e, w)
    BY <1>4, ToldStep DEF WorkerLoadFails, broker, results
  <1>5. CASE WorkerJudge(e, w)
    BY <1>5, ToldStep DEF WorkerJudge, broker, results
  <1>6. CASE WorkerSave(e, w)
    BY <1>6, ToldStep DEF WorkerSave, broker, results
  <1>7. CASE WorkerSaved(e, w)
    BY <1>7, ToldStep DEF WorkerSaved, broker
  <1>8. CASE WorkerSaveFails(e, w)
    BY <1>8, ToldStep DEF WorkerSaveFails, broker
  <1>9. CASE WorkerPublish(e, w)
    <2>1. \A f \in Engines : \A x \in Workers :
            worker'[f][x] = IF f = e /\ x = w
                            THEN WorkerAt("ack", Job(e, w), Verdict(e, w))
                            ELSE worker[f][x]
      BY <1>9 DEF WorkerPublish, Step, Typed, TypeOK
    <2>2. /\ acked' = acked
          /\ published \subseteq published'
          /\ "io" \notin Faults /\ Job(e, w) \in Rated
             => <<Job(e, w), Verdict(e, w)>> \in published'
      BY <1>9 DEF WorkerPublish, broker
    <2> SUFFICES ASSUME "io" \notin Faults PROVE Told'
      BY DEF Told
    <2>3. \A s \in acked' \cap Rated : \E v \in Verdicts : <<s, v>> \in published'
      BY <2>2 DEF Told
    <2>4. ASSUME NEW f \in Engines, NEW x \in Workers,
                 worker'[f][x].pc = "ack", worker'[f][x].job \in Rated
          PROVE  <<worker'[f][x].job, worker'[f][x].verdict>> \in published'
      <3>1. CASE f = e /\ x = w
        <4>1. /\ worker'[f][x].job = Job(e, w)
              /\ worker'[f][x].verdict = Verdict(e, w)
          BY <2>1, <3>1 DEF WorkerAt
        <4> QED
          BY <2>2, <2>4, <4>1
      <3>2. CASE ~(f = e /\ x = w)
        BY <2>1, <2>2, <2>4, <3>2 DEF Told, Job, Verdict
      <3> QED
        BY <3>1, <3>2
    <2> QED
      BY <2>3, <2>4 DEF Told, Job, Verdict
  <1>10. CASE WorkerAck(e, w)
    <2>1. \A f \in Engines : \A x \in Workers :
            worker'[f][x] = IF f = e /\ x = w
                            THEN WorkerAt("log", Job(e, w), Verdict(e, w))
                            ELSE worker[f][x]
      BY <1>10 DEF WorkerAck, Step, Typed, TypeOK
    <2>2. /\ worker[e][w].pc = "ack"
          /\ Verdict(e, w) \in Verdicts
          /\ published' = published
          /\ acked' \subseteq acked \cup {Job(e, w)}
      BY <1>10 DEF WorkerAck, Step, Ack, results, Typed, HasJob
    <2> SUFFICES ASSUME "io" \notin Faults PROVE Told'
      BY DEF Told
    <2>3. ASSUME NEW s \in acked' \cap Rated
          PROVE  \E v \in Verdicts : <<s, v>> \in published'
      <3>1. CASE s \in acked
        BY <2>2, <2>3, <3>1 DEF Told
      <3>2. CASE s = Job(e, w)
        <4>1. <<s, Verdict(e, w)>> \in published
          BY <2>2, <2>3, <3>2 DEF Told
        <4> QED
          BY <2>2, <4>1
      <3> QED
        BY <2>2, <2>3, <3>1, <3>2
    <2>4. ASSUME NEW f \in Engines, NEW x \in Workers,
                 worker'[f][x].pc = "ack", worker'[f][x].job \in Rated
          PROVE  <<worker'[f][x].job, worker'[f][x].verdict>> \in published'
      BY <2>1, <2>2, <2>4 DEF Told, Job, Verdict, WorkerAt
    <2> QED
      BY <2>3, <2>4 DEF Told, Job, Verdict
  <1>11. CASE WorkerNack(e, w)
    BY <1>11, ToldStep DEF WorkerNack, Discard, results
  <1>12. CASE WorkerLog(e, w)
    BY <1>12, ToldStep DEF WorkerLog, broker, results
  <1>13. CASE WorkerLogPanics(e, w)
    BY <1>13, ToldProcessEnds DEF WorkerLogPanics
  <1>14. CASE WorkerCheckerFails(e, w)
    BY <1>14, ToldStep DEF WorkerCheckerFails, broker, results
  <1>15. CASE WorkerHangs(e, w)
    BY <1>15, ToldStep DEF WorkerHangs, broker, results
  <1> QED
    BY <1>1, <1>2, <1>3, <1>4, <1>5, <1>6, <1>7, <1>8, <1>9, <1>10, <1>11,
       <1>12, <1>13,
       <1>14, <1>15 DEF Worker

\* Without I/O errors an acknowledged RATED submission was published: the
\* message leaves the broker after the verdict reached the leaderboard queue
\* (worker.go:73-77 after 163-165).
THEOREM NothingAckedUntold == Spec => []AckedIsPublished
  <1>1. Init => Told
    BY DEF Init, Told, IdleWorkers, WorkerAt
  <1>2. ASSUME Typed, Told, [Next]_vars PROVE Told'
    <2>1. CASE UNCHANGED vars
      BY <1>2, <2>1, ToldKept DEF vars, broker, results, memory
    <2>2. ASSUME NEW e \in Engines, NEW w \in Workers, Worker(e, w) PROVE Told'
      BY <1>2, <2>2, ToldWorker
    <2>3. ASSUME NEW e \in Engines,
                 \/ ConsumerSendPanics(e) \/ MainExit(e) \/ Kill(e)
          PROVE  Told'
      BY <1>2, <2>3, ToldProcessEnds DEF ConsumerSendPanics, MainExit, Kill
    <2>4. ASSUME NEW e \in Engines, Consumer(e), ~ConsumerSendPanics(e)
          PROVE  UNCHANGED <<acked, published, worker>>
      BY <2>4 DEF Consumer, ConsumerSubscribe, ConsumerSubscribeFails,
         ConsumerStop, ConsumerReceive, ConsumerReject, ConsumerEOF,
         ConsumerSend, Discard, broker, results
    <2>5. ASSUME NEW e \in Engines,
                 \/ Deliver(e) \/ MainCloseQueue(e) \/ Sigterm(e)
                 \/ LoseConnection(e) \/ Restart(e)
          PROVE  UNCHANGED <<acked, published, worker>>
      BY <2>5 DEF Deliver, MainCloseQueue, Sigterm, LoseConnection, Restart,
         Requeue, broker, results, memory
    <2>6. CASE Quiescent
      BY <2>1, <2>6 DEF Quiescent
    <2> QED
      BY <1>2, <2>1, <2>2, <2>3, <2>4, <2>5, <2>6, ToldKept DEF Next, Main
  <1>3. Told => AckedIsPublished
    BY DEF Told, AckedIsPublished
  <1>4. Inv => Typed
    BY DEF Inv
  <1> QED
    BY <1>1, <1>2, <1>3, <1>4, Invariance, PTL DEF Spec
============================================================================
