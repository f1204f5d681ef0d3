------------------------- MODULE AuthorizationScheduler -------------------------
(***************************************************************************)
(* The host's authorization scheduler                                      *)
(* (packages/authorization/authorization-scheduler/src/index.ts): two      *)
(* pools, each with a limit on concurrent provider evaluations and a       *)
(* bounded FIFO queue.  A caller is answered once: by the provider, by its *)
(* own abort, by the deadline, by shutdown, or by a refusal at the door.   *)
(*                                                                         *)
(* A job's remaining time is counted in units of which Floor make up the   *)
(* 50 ms an evaluation needs and Cap the longest a job may have; it only   *)
(* shrinks, each job's at its own pace, since a caller's own budget may    *)
(* shrink faster than the clock.  A timer may be delivered late.  The      *)
(* provider is external: it may answer, reject, or never do either,        *)
(* whatever its abort signal says.                                         *)
(***************************************************************************)
EXTENDS Naturals, SequencesExt

CONSTANTS
    Pools,      \* foreground and background
    Jobs,       \* the authorization requests of a run
    PoolOf,     \* the pool of each job
    Traffic,    \* which jobs may come together: one of these sets of jobs
    Limit,      \* pool.limit
    Waiting,    \* pool.waitingLimit
    Floor,      \* the least remaining time worth an evaluation (50 ms)
    Cap         \* the longest remaining time granted (2000 ms)

ASSUME SchedulerConstants ==
    /\ IsFiniteSet(Jobs) /\ Traffic \subseteq SUBSET Jobs
    /\ PoolOf \in [Jobs -> Pools]
    /\ Limit \in [Pools -> Nat \ {0}]
    /\ Waiting \in [Pools -> Nat]
    /\ Floor \in Nat \ {0} /\ Cap \in Nat /\ Floor <= Cap

VARIABLES
    callers,    \* the jobs that come in this run
    closed,     \* shutdown has been called
    queue,      \* each pool's queue
    active,     \* the jobs in the pools' active sets
    result,     \* what each caller has been told; "none" before it calls
    aborted,    \* the callers whose signal is aborted
    left,       \* each admitted job's remaining time
    evaluation  \* how far the provider's evaluation of a job has got

vars == <<callers, closed, queue, active, result, aborted, left, evaluation>>

Answers == {"decision", "malformed_result", "rejected"}
Failures == {"shutdown", "cancelled", "budget_exhausted", "invalid_facts", "overflow"}

\* Every variable stays in its range, and a job queues once, in its own pool.
TypeOK ==
    /\ callers \in Traffic
    /\ closed \in BOOLEAN
    /\ queue \in [Pools -> Seq(Jobs)]
    /\ \A p \in Pools : \A i, k \in DOMAIN queue[p] :
        /\ PoolOf[queue[p][i]] = p
        /\ queue[p][i] = queue[p][k] => i = k
    /\ active \subseteq Jobs
    /\ result \in [Jobs -> Answers \cup Failures \cup {"none", "waiting"}]
    /\ aborted \subseteq Jobs
    /\ left \in [Jobs -> 0..Cap]
    /\ evaluation \in [Jobs -> {"none", "running", "validating", "over", "released"}]

Init ==
    /\ callers \in Traffic
    /\ closed = FALSE
    /\ queue = [p \in Pools |-> <<>>]
    /\ active = {}
    /\ result = [j \in Jobs |-> "none"]
    /\ aborted = {}
    /\ left = [j \in Jobs |-> 0]
    /\ evaluation = [j \in Jobs |-> "none"]

ActiveIn(p, act) == {j \in act : PoolOf[j] = p}
Full(p) == Cardinality(ActiveIn(p, active)) >= Limit[p]

Queued(j) == \E i \in DOMAIN queue[PoolOf[j]] : queue[PoolOf[j]][i] = j

\* settle splices its job out of the queue, if it is still there.
Spliced(q, j) ==
    LET at == {i \in DOMAIN q : q[i] = j}
    IN  IF at = {} THEN q ELSE RemoveAt(q, CHOOSE i \in at : TRUE)

\* finish: the first result settles the job and leaves its slot alone.
Finished(j, r) == [result EXCEPT ![j] = IF @ = "waiting" THEN r ELSE @]

Finish(j, r) ==
    /\ result' = Finished(j, r)
    /\ queue' = [queue EXCEPT ![PoolOf[j]] = Spliced(@, j)]

\* The results a caller's own abort and deadline take precedence with.
Outlived(j) == j \in aborted \/ left[j] = 0
Reason(j) == IF j \in aborted THEN "cancelled" ELSE "budget_exhausted"

\* The free slots of pool p, when act is active; none after shutdown.
Free(p, act) == IF closed THEN 0 ELSE Limit[p] - Cardinality(ActiveIn(p, act))

\* Draining from the wrong end.
Popped(q, n) ==
    [taken |-> {q[i] : i \in (Len(q) - n + 1)..Len(q)}, rest |-> SubSeq(q, 1, Len(q) - n)]

\* The jobs that n shifts take from a queue, and what they leave of it.
Shifted(q, n) == [taken |-> {q[i] : i \in 1..n}, rest |-> SubSeq(q, n + 1, Len(q))]

\* drain(p) when its queue is q, act are active, evs are the evaluations and
\* lft the times: shift job after job while a slot is free, drop what was
\* aborted or has too little time, start the rest.
Drain(p, q, act, evs, lft, res) ==
    LET fit == {j \in Jobs : j \notin aborted /\ lft[j] >= Floor}
        Started(n) == Shifted(q, n).taken \cap fit
        Goes(n) == n < Len(q) /\ Cardinality(Started(n)) < Free(p, act)
    IN  \E n \in 0..Len(q) :
        /\ ~Goes(n) /\ \A m \in 0..(n - 1) : Goes(m)
        /\ queue' = [queue EXCEPT ![p] = Shifted(q, n).rest]
        /\ active' = act \cup Started(n)
        /\ evaluation' = [j \in Jobs |-> IF j \in Started(n) THEN "running" ELSE evs[j]]
        /\ result' = [j \in Jobs |->
                IF j \in Shifted(q, n).taken \ fit THEN Reason(j) ELSE res[j]]

\* One waiting place too many.
OverflowsLate(p) == Full(p) /\ Len(queue[p]) > Waiting[p]

Overflows(p) == Full(p) /\ Len(queue[p]) >= Waiting[p]

\* authorize, up to its promise: what refuses a request at once.
Refuse(j, r) ==
    /\ j \in callers /\ result[j] = "none"
    /\ CASE r = "shutdown" -> closed
         [] r = "cancelled" -> ~closed /\ j \in aborted
         [] r \in {"budget_exhausted", "invalid_facts"} -> ~closed /\ j \notin aborted
         [] r = "overflow" -> ~closed /\ j \notin aborted /\ Overflows(PoolOf[j])
    /\ result' = [result EXCEPT ![j] = r]
    /\ UNCHANGED <<callers, closed, queue, active, aborted, left, evaluation>>

\* One queue for all traffic.
SharedPool(j) == CHOOSE p \in Pools : TRUE

\* port(pool): each traffic class enters by a port of its own.
Port(j) == PoolOf[j]

\* authorize admits the request with time t: queue it, then drain the pool.
Admit(j, t) ==
    /\ j \in callers /\ result[j] = "none" /\ ~closed /\ j \notin aborted /\ ~Overflows(PoolOf[j])
    /\ left' = [left EXCEPT ![j] = t]
    /\ Drain(Port(j), Append(queue[Port(j)], j), active, evaluation, left',
             [result EXCEPT ![j] = "waiting"])
    /\ UNCHANGED <<callers, closed, aborted>>

\* Time passes for a waiting job.
Pass(j) ==
    /\ result[j] = "waiting"
    /\ \E t \in 0..Cap : t < left[j] /\ left' = [left EXCEPT ![j] = t]
    /\ UNCHANGED <<callers, closed, queue, active, result, aborted, evaluation>>

\* A deadline watched only once the job is dispatched.
DueIfActive(j) == result[j] = "waiting" /\ left[j] = 0 /\ j \in active

Due(j) == result[j] = "waiting" /\ left[j] = 0

\* The timer armed at admission, delivered at the deadline or later.
Timer(j) ==
    /\ Due(j)
    /\ Finish(j, "budget_exhausted")
    /\ UNCHANGED <<callers, closed, active, aborted, left, evaluation>>

\* The caller aborts; its signal says so before its listeners have run.
Abort(j) ==
    /\ j \in callers \ aborted /\ result[j] \in {"none", "waiting"}
    /\ aborted' = aborted \cup {j}
    /\ UNCHANGED <<callers, closed, queue, active, result, left, evaluation>>

\* The abort listener.
AbortHeard(j) ==
    /\ result[j] = "waiting" /\ j \in aborted
    /\ Finish(j, "cancelled")
    /\ UNCHANGED <<callers, closed, active, aborted, left, evaluation>>

\* What the provider says, published without looking again.
VerdictUnchecked(j, answer) == answer

\* What the provider says, unless the caller aborted or ran out of time.
Verdict(j, answer) == IF Outlived(j) THEN Reason(j) ELSE answer

\* The provider answers: a job that is done, aborted or out of time is not
\* even validated.
EvaluationAnswers(j) ==
    /\ evaluation[j] = "running"
    /\ IF result[j] # "waiting" \/ Outlived(j)
       THEN /\ evaluation' = [evaluation EXCEPT ![j] = "over"]
            /\ Finish(j, Reason(j))
       ELSE /\ evaluation' = [evaluation EXCEPT ![j] = "validating"]
            /\ UNCHANGED <<queue, result>>
    /\ UNCHANGED <<callers, closed, active, aborted, left>>

\* Validating may run the answer's getters, so that time passes, or the
\* caller aborts or the host shuts down meanwhile; everything is checked again.
Validated(j, answer) ==
    /\ evaluation[j] = "validating"
    /\ evaluation' = [evaluation EXCEPT ![j] = "over"]
    /\ Finish(j, Verdict(j, answer))
    /\ UNCHANGED <<callers, closed, active, aborted, left>>

\* The provider's promise rejects.
EvaluationRejects(j) ==
    /\ evaluation[j] = "running"
    /\ evaluation' = [evaluation EXCEPT ![j] = "over"]
    /\ Finish(j, Verdict(j, "rejected"))
    /\ UNCHANGED <<callers, closed, active, aborted, left>>

\* The evaluation's last callback gives the slot back and drains the pool.
Release(j) ==
    /\ evaluation[j] = "over"
    /\ Drain(PoolOf[j], queue[PoolOf[j]], active \ {j},
             [evaluation EXCEPT ![j] = "released"], left, result)
    /\ UNCHANGED <<callers, closed, aborted, left>>

Clients == {j \in Jobs : result[j] = "waiting" /\ (Queued(j) \/ j \in active)}

\* shutdown settles every client at once and stops no evaluation.
Shutdown ==
    /\ ~closed
    /\ closed' = TRUE
    /\ result' = [j \in Jobs |-> IF j \in Clients THEN "shutdown" ELSE result[j]]
    /\ queue' = [p \in Pools |-> <<>>]
    /\ UNCHANGED <<callers, active, aborted, left, evaluation>>

Next ==
    \/ \E j \in Jobs :
        \/ \E r \in Failures : Refuse(j, r)
        \/ \E t \in Floor..Cap : Admit(j, t)
        \/ Pass(j) \/ Timer(j) \/ Abort(j) \/ AbortHeard(j)
        \/ EvaluationAnswers(j)
        \/ \E answer \in {"decision", "malformed_result"} : Validated(j, answer)
        \/ EvaluationRejects(j) \/ Release(j)
    \/ Shutdown

Spec == Init /\ [][Next]_vars

\* Time passes, timers and abort listeners are delivered, and a settled
\* evaluation's callbacks run.  The provider need never answer.  No job goes
\* through the same state twice, so one condition serves all of them.
Progress == \E j \in Jobs : Pass(j) \/ Timer(j) \/ AbortHeard(j) \/ Release(j)

FairSpec == Spec /\ WF_vars(Progress)

--------------------------------------------------------------------------------

Evaluating(j) == evaluation[j] \in {"running", "validating", "over"}

\* "Noncooperative evaluations remain observed until settlement": an evaluation
\* keeps its slot until it is over, whatever its caller was told meanwhile, so
\* the provider never sees more than the pool's limit at once.  No slot is left
\* idle while a job queues, and no queue outgrows its waiting limit.
SlotsAreEvaluations ==
    /\ active = {j \in Jobs : Evaluating(j)}
    /\ \A p \in Pools :
        /\ Cardinality(ActiveIn(p, {j \in Jobs : Evaluating(j)})) <= Limit[p]
        /\ queue[p] # <<>> => Full(p)
        /\ Len(queue[p]) <= Waiting[p]

\* A caller is told once, and what the provider says is told only to a caller
\* that has neither aborted nor run out of time, before any shutdown.
NoLateAnswer ==
    [][\A j \in Jobs : result'[j] # result[j] =>
        /\ result[j] \in {"none", "waiting"}
        /\ result'[j] \in Answers => ~Outlived(j) /\ ~closed]_vars

\* Evaluations start in the order of arrival: no job starts while one that
\* was ahead of it still queues.
FirstComeFirstServed ==
    [][\A p \in Pools : \A i, k \in DOMAIN queue[p] :
        i < k /\ evaluation'[queue[p][k]] # evaluation[queue[p][k]] =>
            \A n \in DOMAIN queue'[p] : queue'[p][n] # queue[p][i]]_vars

\* Every admitted caller is answered, even by a provider that never settles.
CallersAreAnswered ==
    \A j \in Jobs : (result[j] = "waiting") ~> (result[j] # "waiting")

================================================================================
