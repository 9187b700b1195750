---------------------------- MODULE StatusBoard ----------------------------
(***************************************************************************)
(* The status service next to the engine: the hash of running submissions  *)
(* that the subscriber keeps for the status pages (status-service/src).    *)
(***************************************************************************)
EXTENDS Judging

VARIABLES
    active,  \* the hash active_submissions: [Submissions -> status or "nil"]
    final,   \* history: the final update of the last judging is "applied",
             \* "lost", or "none" of them yet
    late     \* history: submissions with an update applied after the final

boardVars == <<active, final, late>>
vars == <<importVars, judgeVars, boardVars>>

Init ==
    /\ ImportInit /\ JudgeInit
    /\ active = [s \in Submissions |-> "nil"]
    /\ final = [s \in Submissions |-> "none"]
    /\ late = {}

\* Mutant: the hash keeps whatever was sent last.
KeepFinal(s, m) == active' = [active EXCEPT ![s] = m.status]

\* hSet or hDel of the subscriber.
Apply(s, m) ==
    active' = [active EXCEPT ![s] = IF m.running THEN m.status ELSE "nil"]

\* The goroutines of two updates may run in either order.
Receive(s, m) ==
    /\ Apply(s, m)
    /\ inFlight' = [inFlight EXCEPT ![s] = @ \ {m}]
    /\ final' = [final EXCEPT ![s] = IF m.running THEN @ ELSE "applied"]
    /\ late' = IF m.running /\ final[s] = "applied" THEN late \cup {s} ELSE late
    /\ UNCHANGED <<importVars, queue, row, job, crashes>>

\* Redis is away, or the status service is not subscribed at the time.
Lose(s, m) ==
    /\ inFlight' = [inFlight EXCEPT ![s] = @ \ {m}]
    /\ final' = [final EXCEPT ![s] = IF m.running THEN @ ELSE "lost"]
    /\ UNCHANGED <<importVars, queue, row, job, crashes, active, late>>

Next ==
    \/ ImportNext /\ UNCHANGED <<judgeVars, boardVars>>
    \/ \E s \in Submissions :
          \/ /\ JudgeStep(s)
             /\ final' = [final EXCEPT ![s] =
                            IF job'[s].at = "started" THEN "none" ELSE @]
             /\ late' = IF job'[s].at = "started" THEN late \ {s} ELSE late
             /\ UNCHANGED <<importVars, active>>
          \/ \E m \in inFlight[s] : Receive(s, m) \/ Lose(s, m)

Spec == Init /\ [][Next]_vars

-----------------------------------------------------------------------------
(* Properties.                                                             *)

Running == {"Running", "Compiling", "Testing"}
Verdicts == {"AC", "CE", "WA", "TLE", "SIGSEGV", "SIGXFSZ", "SIGFPE",
             "SIGABRT", "RE", "NZEC", "FAIL", "INT"}

\* Every variable keeps its type; the hash holds no final status.
TypeOK ==
    /\ \A i \in Imports : import[i].files \subseteq Names
    /\ problems \subseteq Imports /\ workDirs \subseteq Imports
    /\ row \in [Submissions -> Verdicts \cup {"QUEUE"}]
    /\ \A s \in Submissions : \A m \in inFlight[s] :
          m \in [status : Running \cup Verdicts, test : Nat, running : BOOLEAN]
    /\ active \in [Submissions -> Running \cup {"nil"}]

\* A submission that was acknowledged leaves the hash once its updates have
\* arrived, unless the final one was lost or overtaken by an older one, which
\* does leave the submission there: the flag of the final update and the two
\* commands of the subscriber must fit.
FinishedLeavesTheHash ==
    \A s \in Submissions :
        job[s].at = "acked" /\ inFlight[s] = {} /\ active[s] # "nil" =>
            final[s] = "lost" \/ s \in late
=============================================================================
