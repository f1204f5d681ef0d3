------------------------------ MODULE CurationRun ------------------------------
(***************************************************************************)
(* A maintenance run under its coordinator: the durable workflow, its task *)
(* handlers and the receipts of its assessments                            *)
(* (packages/knowledge/nightloom/src/index.ts), the batches the knowledge  *)
(* store leases to it (sqlite-knowledge/src/index.ts), and the provider    *)
(* that assesses them (codex-assessment/src/index.ts).                     *)
(*                                                                         *)
(* A run leases a batch of the backlog, has it assessed, sleeps while the  *)
(* assessment is running and asks again, and publishes what it proposed.   *)
(* The request of an assessment is its batch.  While a run sleeps, a       *)
(* listener of the host waits for the run's cancellation; cancelling is a  *)
(* process of its own, and writes the same receipt as the task that asks.  *)
(*                                                                         *)
(* The orchestrator keeps a run across a crash of the host and either      *)
(* dispatches its task again, for recovery, or fails the run.  Closing the *)
(* host ("suspension") forgets what a crash forgets.                       *)
(***************************************************************************)
EXTENDS CurationCoordinator

CONSTANTS
    MaxBatches, \* bound on the batches ever leased
    Scenes      \* what a run of this model may meet

\* A scene: the work units of the backlog, the size of a batch, and what is not
\* quiet: the coordinator's clock, callers and answers, the host, the runs'
\* owners, or the policy.
Upsets == {"coordinator", "crash", "abort", "denial"}
Scene == [units : Nat, limit : {1, 2}, upsets : SUBSET Upsets]

ASSUME RunConstants ==
    /\ MaxBatches \in Nat \ {0}
    /\ Scenes \subseteq Scene

VARIABLES
    scene,      \* the scene of this run
    backlog,    \* the work units that are not completed
    lease,      \* the batch that is leased
    size,       \* the units of each batch ever leased
    published,  \* the batches that were published
    flow,       \* the workflow of each run
    aborted,    \* the runs that were cancelled
    task,       \* the assess-batch handler working for each run
    receipt,    \* the assessment receipt of each batch
    fresh,      \* who holds the receipt's present revision
    late,       \* the deadline saved in the receipt has passed
    listener,   \* the run whose cancellation the batch's owner listens to
    cancel,     \* cancelOwned, for each batch
    work,       \* the assessment at the provider
    submitted,  \* how often the handler called assess
    crashed     \* the host has died once

store == <<backlog, lease, size, published>>
owner == <<listener, cancel>>
receipts == <<receipt, fresh, late>>
provider == <<work, submitted>>
keeper == <<day, saved, call, reserved>>
vars == <<coordinator, scene, store, flow, aborted, task, receipts, owner, provider, crashed>>

Batches == 1..MaxBatches
NoBatch == 0
Owner == 0      \* holds a revision beside the tasks of the runs

ReceiptStates == {"none", "intent", "running", "uncertain", "completed", "cancelled", "failed"}
Answers == {"none", "running", "uncertain", "completed", "cancelled", "refused"}
WorkStates == {"none", "asked", "live", "done", "refused", "stopped"}

NoTask == [at |-> "none", may |-> FALSE, submits |-> FALSE, answer |-> "none"]
NoCancel == [at |-> "none", answer |-> "none"]

\* Every variable stays in its range; only one run's task works on a batch, and
\* nobody writes a receipt that was never created.
TypeOK ==
    /\ CoordinatorTypeOK
    /\ scene \in Scenes
    /\ backlog \in 0..scene.units /\ lease \in Batches \cup {NoBatch}
    /\ size \in [Batches -> 0..2] /\ published \subseteq Batches
    /\ flow \in [Runs -> [at : {"pending", "assess", "sleep", "release", "publish", "over"},
                          limit : {1, 2}, batch : Batches \cup {NoBatch}, tried : BOOLEAN]]
    /\ aborted \subseteq Runs
    /\ task \in [Runs -> [at : {"none", "begin", "recall", "asking", "waiting", "apply",
                                "joined", "hold", "stop"},
                          may : BOOLEAN, submits : BOOLEAN, answer : Answers]]
    /\ receipt \in [Batches -> ReceiptStates] /\ late \subseteq Batches
    /\ fresh \in [Batches -> SUBSET (Runs \cup {Owner})]
    /\ listener \in [Batches -> Runs \cup {0}]
    /\ cancel \in [Batches -> [at : {"none", "load", "hold", "ask", "reconcile", "apply"},
                               answer : Answers]]
    /\ work \in [Batches -> WorkStates] /\ submitted \in [Batches -> Nat]
    /\ crashed \in BOOLEAN
    /\ \A b \in Batches :
        /\ Cardinality({r \in Runs : task[r] # NoTask /\ flow[r].batch = b}) <= 1
        /\ receipt[b] = "none" => cancel[b] = NoCancel /\ work[b] = "none"

Init ==
    /\ CoordinatorInit
    /\ scene \in Scenes
    /\ backlog = scene.units /\ lease = NoBatch
    /\ size = [b \in Batches |-> 0] /\ published = {}
    /\ flow = [r \in Runs |-> [at |-> "pending", limit |-> scene.limit,
                               batch |-> NoBatch, tried |-> FALSE]]
    /\ aborted = {} /\ task = [r \in Runs |-> NoTask]
    /\ receipt = [b \in Batches |-> "none"]
    /\ fresh = [b \in Batches |-> {}] /\ late = {}
    /\ listener = [b \in Batches |-> 0] /\ cancel = [b \in Batches |-> NoCancel]
    /\ work = [b \in Batches |-> "none"] /\ submitted = [b \in Batches |-> 0]
    /\ crashed = FALSE

--------------------------------------------------------------------------------
(* The workflow and the store's leases.                                       *)

At(r, place) == run[r] = "running" /\ flow[r].at = place /\ task[r] = NoTask

Onto(r, place) == flow' = [flow EXCEPT ![r].at = place, ![r].tried = FALSE]

\* The run is over: completed with a result, or failed, cancelled or deferred.
Closes(r, verdict) ==
    /\ run' = [run EXCEPT ![r] = verdict]
    /\ Onto(r, "over")

\* Only the workflow and its run move.
Only == UNCHANGED <<keeper, scene, aborted, task, receipts, owner, provider, crashed>>

\* pending is denied, unavailable, or too large for a batch of one.
PendingEnds(r) ==
    /\ At(r, "pending") /\ Closes(r, "done")
    /\ UNCHANGED store /\ Only

\* A batch that is too large, as issued or as leased before, is asked for again
\* with half the limit.
PendingHalves(r) ==
    /\ At(r, "pending") /\ flow[r].limit > 1
    /\ lease = NoBatch => backlog > 0
    /\ flow' = [flow EXCEPT ![r].limit = 1]
    /\ UNCHANGED <<run, store>> /\ Only

\* The batch that is leased is issued again, whoever leased it.
PendingReissues(r) ==
    /\ At(r, "pending") /\ lease # NoBatch /\ size[lease] <= flow[r].limit
    /\ flow' = [flow EXCEPT ![r].at = "assess", ![r].batch = lease]
    /\ UNCHANGED <<run, store>> /\ Only

\* A new batch takes up to the limit of the backlog.
PendingIssues(r, b) ==
    /\ At(r, "pending") /\ lease = NoBatch /\ backlog > 0
    /\ size[b] = 0 /\ \A c \in 1..(b - 1) : size[c] > 0
    /\ lease' = b
    /\ size' = [size EXCEPT ![b] = IF backlog < flow[r].limit THEN backlog ELSE flow[r].limit]
    /\ flow' = [flow EXCEPT ![r].at = "assess", ![r].batch = b]
    /\ UNCHANGED <<run, backlog, published>> /\ Only

\* A lease that outlives its batch.
KeepsLease == UNCHANGED lease

DropsLease == lease' = NoBatch

\* Release drops the lease, and the workflow goes on with half the units; or
\* the store refuses, and the run ends.
Releases(r) ==
    /\ At(r, "release") /\ lease = flow[r].batch
    /\ DropsLease
    /\ \/ flow' = [flow EXCEPT ![r] = [@ EXCEPT !.at = "pending", !.limit = 1, !.batch = NoBatch]]
          /\ UNCHANGED run
       \/ "crash" \in scene.upsets /\ Closes(r, "held")
    /\ UNCHANGED <<backlog, size, published>> /\ Only

\* Publication completes the batch's units; if one of them was replaced
\* meanwhile, it drops the lease and conflicts.
Publishes(r) ==
    /\ At(r, "publish") /\ lease = flow[r].batch
    /\ DropsLease
    /\ \/ /\ backlog' = backlog - size[lease] /\ published' = published \cup {lease}
          /\ \/ Closes(r, "done")
             \/ "crash" \in scene.upsets /\ Closes(r, "held")
       \/ /\ Closes(r, "done")
          /\ UNCHANGED <<backlog, published>>
    /\ UNCHANGED size /\ Only

\* Release and publish are denied, unavailable, or in conflict.
StoreRefuses(r) ==
    /\ At(r, "release") \/ At(r, "publish")
    /\ Closes(r, "done")
    /\ UNCHANGED store /\ Only

SleepEnds(r) ==
    /\ At(r, "sleep") /\ Onto(r, "assess")
    /\ UNCHANGED <<run, store>> /\ Only

\* The host that had a step has died, or could not be reached: the run fails
\* with the step unresolved.
Interrupted(r) ==
    /\ "crash" \in scene.upsets
    /\ run[r] = "running" /\ flow[r].at # "sleep" /\ task[r] = NoTask
    /\ Closes(r, "held")
    /\ UNCHANGED store /\ Only

--------------------------------------------------------------------------------
(* The assess-batch handler.  A task holds its copy of the receipt from the    *)
(* step that loads it; a write with an old revision throws, unless the receipt *)
(* says already what it would write.                                           *)

B(r) == flow[r].batch

\* What the workflow does with the result of assess-batch.
Onward(r, result) ==
    CASE result = "completed" -> "publish"
      [] result = "running" -> "sleep"
      [] result = "too_large" /\ size[B(r)] > 1 -> "release"
      [] OTHER -> "over"

Verdict(result) == IF result \in {"uncertain", "thrown"} THEN "held" ELSE "done"

\* The tasks of rs return result to their workflows, if those still run.
Finish(rs, result) ==
    LET going == {r \in rs : run[r] = "running"} IN
    /\ task' = [r \in Runs |-> IF r \in rs THEN NoTask ELSE task[r]]
    /\ flow' = [r \in Runs |-> IF r \in going
                  THEN [flow[r] EXCEPT !.at = Onward(r, result), !.tried = FALSE] ELSE flow[r]]
    /\ run' = [r \in Runs |-> IF r \in going /\ Onward(r, result) = "over"
                 THEN Verdict(result) ELSE run[r]]

Continue(r, place) ==
    /\ task' = [task EXCEPT ![r].at = place]
    /\ UNCHANGED <<run, flow>>

\* A write whatever the revision.
WritesOver(b, who) == TRUE

\* writeReceipt's compareAndSet.
Holds(b, who) == who \in fresh[b]

CanWrite(b, who, state) == Holds(b, who) \/ receipt[b] = state

\* A write makes every other copy old; it makes none old if it changes nothing.
Write(b, who, state, copies) ==
    /\ receipt' = [receipt EXCEPT ![b] = state]
    /\ fresh' = [fresh EXCEPT ![b] = (IF Holds(b, who) THEN {} ELSE @) \cup copies]
    /\ UNCHANGED late

Loads(b, who) == fresh' = [fresh EXCEPT ![b] = @ \cup {who}]
Forgets(b, who) == fresh' = [fresh EXCEPT ![b] = @ \ {who}]

Same == UNCHANGED <<keeper, scene, store, aborted, crashed>>

\* The sidecar dispatches the step; a step whose intent is on disk is dispatched
\* for recovery.  A cancelled run dispatches nothing.
Dispatch(r) ==
    /\ At(r, "assess")
    /\ task' = [task EXCEPT ![r] = [NoTask EXCEPT !.at = "begin", !.may = ~flow[r].tried]]
    /\ flow' = [flow EXCEPT ![r].tried = TRUE]
    /\ UNCHANGED <<run, receipts, owner, provider>> /\ Same

\* A fresh task of a cancelled run throws; recovery leaves a receipt that is
\* settled or was never written, and cancels the assessment of any other.
BeginsAborted(r) ==
    /\ task[r].at = "begin" /\ r \in aborted
    /\ IF task[r].may \/ receipt[B(r)] \in {"none", "completed", "cancelled"}
       THEN Finish({r}, "thrown") /\ UNCHANGED fresh
       ELSE Continue(r, "hold") /\ Loads(B(r), r)
    /\ UNCHANGED <<receipt, late, owner, provider>> /\ Same

HoldsAborted(r) ==
    /\ task[r].at = "hold"
    /\ IF CanWrite(B(r), r, "uncertain")
       THEN Write(B(r), r, "uncertain", {r}) /\ Continue(r, "stop")
       ELSE Finish({r}, "thrown") /\ UNCHANGED receipts
    /\ UNCHANGED <<owner, provider>> /\ Same

\* The evidence is gathered anew for each poll, before the receipt is looked at.
Gathers(r) ==
    /\ task[r].at = "begin" /\ r \notin aborted
    /\ \/ Continue(r, "recall")
       \/ Finish({r}, "too_large")
       \/ "denial" \in scene.upsets /\ Finish({r}, "blocked")
    /\ UNCHANGED <<receipts, owner, provider>> /\ Same

\* A submission whenever the handler may submit.
Anyhow(r) == TRUE

CreatesIntent(r) == receipt[B(r)] = "none"

AsksNext(r) ==
    /\ task' = [task EXCEPT ![r].at = "asking", ![r].submits = task[r].may /\ CreatesIntent(r)]
    /\ UNCHANGED <<run, flow>>

\* The request is submitted by the task that wrote its intent, and by no other.
Recalls(r) ==
    /\ task[r].at = "recall"
    /\ \/ /\ receipt[B(r)] = "none" /\ task[r].may
          /\ Write(B(r), r, "intent", {r}) /\ AsksNext(r)
       \/ /\ receipt[B(r)] = "none" /\ ~task[r].may
          /\ Finish({r}, "thrown") /\ UNCHANGED receipts
       \/ /\ receipt[B(r)] = "completed"
          /\ Finish({r}, "completed") /\ UNCHANGED receipts
       \/ /\ receipt[B(r)] \notin {"none", "completed"}
          /\ AsksNext(r) /\ Loads(B(r), r)
          /\ UNCHANGED <<receipt, late>>
       \/ /\ receipt[B(r)] # "none" /\ "denial" \in scene.upsets   \* other evidence now
          /\ Finish({r}, "blocked") /\ UNCHANGED receipts
    /\ UNCHANGED <<owner, provider>> /\ Same

\* A wait that lasts as long as the run is not cancelled.
OnlyAborted(r) == r \in aborted

\* bounded: a wait ends with the deadline in the receipt, or with the run.
OutOfTime(r) == B(r) \in late \/ r \in aborted

\* The provider is called, unless it is too late; the permission may be gone.
AsksProvider(r) ==
    /\ task[r].at = "asking" /\ ~OutOfTime(r)
    /\ Continue(r, "waiting")
    /\ IF task[r].submits
       THEN /\ submitted' = [submitted EXCEPT ![B(r)] = @ + 1]
            /\ work' = [work EXCEPT ![B(r)] = "asked"]
       ELSE UNCHANGED provider
    /\ UNCHANGED <<receipts, owner>> /\ Same

\* What may be heard of a batch: the answer to assess says no more than that the
\* work was accepted; a policy may refuse to answer at all.
Replies(b, submits) ==
    {"uncertain"}
    \cup (IF work[b] = "live" \/ (submits /\ work[b] \in {"done", "stopped"}) THEN {"running"} ELSE {})
    \cup (IF work[b] = "done" /\ ~submits THEN {"completed"} ELSE {})
    \cup (IF work[b] = "stopped" /\ ~submits THEN {"cancelled"} ELSE {})
    \cup (IF work[b] = "refused" \/ (~submits /\ "denial" \in scene.upsets) THEN {"refused"} ELSE {})

Hears(r) ==
    /\ task[r].at = "waiting"
    /\ \E answer \in Replies(B(r), task[r].submits) :
        task' = [task EXCEPT ![r].at = "apply", ![r].answer = answer]
    /\ UNCHANGED <<run, flow, receipts, owner, provider>> /\ Same

Cancelling(b) ==
    cancel' = [cancel EXCEPT ![b] = IF @ = NoCancel THEN [@ EXCEPT !.at = "load"] ELSE @]

\* The wait ends without an answer: the task joins cancelOwned.
GivesUp(r) ==
    /\ task[r].at \in {"asking", "waiting"} /\ OutOfTime(r)
    /\ Continue(r, "joined") /\ Forgets(B(r), r) /\ Cancelling(B(r))
    /\ UNCHANGED <<receipt, late, listener, provider>> /\ Same

\* applyAssessment: what a receipt says after an answer, and the task's result.
Applied(answer) == IF answer = "refused" THEN "failed" ELSE answer
Result(answer) == IF answer \in {"cancelled", "refused"} THEN "blocked" ELSE answer
Final(answer) == answer \in {"completed", "cancelled", "refused"}

\* A final answer detaches the listener; after "running", a task without an
\* owner leaves a listener behind, which cancels at once if the run is over.
Applies(r) ==
    LET b == B(r)  answer == task[r].answer IN
    /\ task[r].at = "apply"
    /\ IF CanWrite(b, r, Applied(answer))
       THEN Write(b, r, Applied(answer), {}) /\ Finish({r}, Result(answer))
       ELSE Finish({r}, "thrown") /\ UNCHANGED receipts
    /\ IF Final(answer) THEN listener' = [listener EXCEPT ![b] = 0] /\ UNCHANGED cancel
       ELSE IF /\ answer = "running" /\ CanWrite(b, r, "running")
               /\ listener[b] = 0 /\ cancel[b] = NoCancel
            THEN IF r \in aborted THEN Cancelling(b) /\ UNCHANGED listener
                 ELSE listener' = [listener EXCEPT ![b] = r] /\ UNCHANGED cancel
            ELSE UNCHANGED owner
    /\ UNCHANGED provider /\ Same

--------------------------------------------------------------------------------
(* Cancelling an assessment, and the provider.                                *)

\* What cancel may answer and leave the work as.  A submission of which the
\* provider knows no turn is either cancelled before it is made or left open;
\* an interrupt may be confirmed, or have its effect all the same.
Stops(b, answer, after) ==
    \/ answer = "cancelled" /\ work[b] \in {"asked", "live", "stopped"} /\ after = "stopped"
    \/ answer = "too_late" /\ work[b] \in {"done", "refused"} /\ after = work[b]
    \/ answer = "uncertain" /\ after \in {work[b]} \cup (IF work[b] = "live" THEN {"stopped"} ELSE {})

StopAnswers == {"cancelled", "too_late", "uncertain"}

\* The recovery of a cancelled run asks the provider to cancel, and believes
\* nothing but its confirmation.
StopsAborted(r) ==
    /\ task[r].at = "stop"
    /\ \E answer \in StopAnswers, after \in WorkStates :
        /\ Stops(B(r), answer, after)
        /\ work' = [work EXCEPT ![B(r)] = after]
        /\ IF answer = "cancelled" /\ CanWrite(B(r), r, "cancelled")
           THEN Write(B(r), r, "cancelled", {}) /\ Finish({r}, "blocked")
           ELSE Finish({r}, "uncertain") /\ Forgets(B(r), r) /\ UNCHANGED <<receipt, late>>
    /\ UNCHANGED <<submitted, owner>> /\ Same

CancelAt(b, place) == cancel[b].at = place

CancelGoes(b, place, answer) ==
    /\ cancel' = [cancel EXCEPT ![b] = [at |-> place, answer |-> answer]]
    /\ UNCHANGED <<run, flow, task>>

\* cancelOwned settles, for every task that joined it.
CancelEnds(b, result) ==
    /\ cancel' = [cancel EXCEPT ![b] = NoCancel]
    /\ Finish({r \in Runs : task[r].at = "joined" /\ B(r) = b}, result)

\* It detaches the listener and loads the receipt.
CancelLoads(b) ==
    /\ CancelAt(b, "load")
    /\ listener' = [listener EXCEPT ![b] = 0]
    /\ IF receipt[b] \in {"completed", "cancelled"}
       THEN CancelEnds(b, Result(receipt[b])) /\ UNCHANGED fresh
       ELSE CancelGoes(b, "hold", "none") /\ Loads(b, Owner)
    /\ UNCHANGED <<receipt, late, provider>> /\ Same

\* "Publish uncertainty BEFORE awaiting cancellation."
CancelHolds(b) ==
    /\ CancelAt(b, "hold")
    /\ IF CanWrite(b, Owner, "uncertain")
       THEN Write(b, Owner, "uncertain", {Owner}) /\ CancelGoes(b, "ask", "none")
       ELSE CancelEnds(b, "thrown") /\ UNCHANGED receipts
    /\ UNCHANGED <<listener, provider>> /\ Same

\* An answer that does not come within a second is an uncertain one.
CancelAsks(b) ==
    /\ CancelAt(b, "ask")
    /\ \E answer \in StopAnswers, after \in WorkStates :
        /\ Stops(b, answer, after)
        /\ work' = [work EXCEPT ![b] = after]
        /\ IF answer = "too_late" THEN CancelGoes(b, "reconcile", "none")
           ELSE CancelGoes(b, "apply", answer)
    /\ UNCHANGED <<submitted, listener, receipts>> /\ Same

CancelReconciles(b) ==
    /\ CancelAt(b, "reconcile")
    /\ \E answer \in Replies(b, FALSE) :
        CancelGoes(b, "apply", IF answer \in {"completed", "cancelled"} THEN answer ELSE "uncertain")
    /\ UNCHANGED <<listener, receipts, provider>> /\ Same

CancelApplies(b) ==
    LET answer == cancel[b].answer IN
    /\ CancelAt(b, "apply")
    /\ listener' = IF Final(answer) THEN [listener EXCEPT ![b] = 0] ELSE listener
    /\ IF CanWrite(b, Owner, Applied(answer))
       THEN Write(b, Owner, Applied(answer), {}) /\ CancelEnds(b, Result(answer))
       ELSE CancelEnds(b, "thrown") /\ UNCHANGED receipts
    /\ UNCHANGED provider /\ Same

\* The run is cancelled: its signal aborts, and the listener cancels what the
\* run left at the provider.
Abort(r) ==
    /\ "abort" \in scene.upsets
    /\ run[r] = "running" /\ r \notin aborted
    /\ aborted' = aborted \cup {r}
    /\ run' = [run EXCEPT ![r] = "held"]
    /\ LET listening == {b \in Batches : listener[b] = r} IN
       /\ cancel' = [b \in Batches |-> IF b \in listening /\ cancel[b] = NoCancel
                       THEN [NoCancel EXCEPT !.at = "load"] ELSE cancel[b]]
       /\ listener' = [b \in Batches |-> IF b \in listening THEN 0 ELSE listener[b]]
    /\ UNCHANGED <<keeper, scene, store, flow, task, receipts, provider, crashed>>

\* The provider: the submission is accepted or refused, and the work ends.
Accepts(b) == work[b] = "asked" /\ work' = [work EXCEPT ![b] = "live"]
Refuses(b) == work[b] \in {"asked", "live"} /\ work' = [work EXCEPT ![b] = "refused"]
Completes(b) == work[b] = "live" /\ work' = [work EXCEPT ![b] = "done"]
Provides(b) ==
    /\ Accepts(b) \/ Refuses(b) \/ Completes(b)
    /\ UNCHANGED <<run, flow, task, submitted, receipts, owner>> /\ Same

Expires(b) ==
    /\ receipt[b] # "none" /\ b \notin late
    /\ late' = late \cup {b}
    /\ UNCHANGED <<run, flow, task, receipt, fresh, owner, provider>> /\ Same

Crash ==
    /\ "crash" \in scene.upsets /\ ~crashed
    /\ crashed' = TRUE
    /\ call' = Idle
    /\ task' = [r \in Runs |-> NoTask] /\ cancel' = [b \in Batches |-> NoCancel]
    /\ listener' = [b \in Batches |-> 0] /\ fresh' = [b \in Batches |-> {}]
    /\ UNCHANGED <<day, saved, run, reserved, scene, store, flow, aborted, receipt, late, provider>>

\* In a quiet scene the coordinator is asked by hand, and every answer comes.
Coordinator ==
    /\ IF "coordinator" \in scene.upsets THEN Coordinates
       ELSE Asks("override") \/ Looks \/ Decides \/ Reserves \/ Dispatches(TRUE) \/ Records
    /\ UNCHANGED <<scene, store, flow, aborted, task, receipts, owner, provider, crashed>>

Workflow(r) ==
    \/ PendingEnds(r) \/ PendingHalves(r) \/ PendingReissues(r)
    \/ \E b \in Batches : PendingIssues(r, b)
    \/ Releases(r) \/ Publishes(r) \/ StoreRefuses(r) \/ SleepEnds(r) \/ Interrupted(r)

Handler(r) ==
    \/ Dispatch(r) \/ BeginsAborted(r) \/ HoldsAborted(r) \/ StopsAborted(r)
    \/ Gathers(r) \/ Recalls(r) \/ AsksProvider(r) \/ Hears(r) \/ GivesUp(r) \/ Applies(r)

Cancels(b) ==
    CancelLoads(b) \/ CancelHolds(b) \/ CancelAsks(b) \/ CancelReconciles(b) \/ CancelApplies(b)

Progress ==
    \/ \E r \in Runs : Workflow(r) \/ Handler(r)
    \/ \E b \in Batches : Cancels(b)

Next ==
    \/ Progress \/ Coordinator \/ Crash
    \/ \E r \in Runs : Abort(r)
    \/ \E b \in Batches : Provides(b) \/ Expires(b)

Spec == Init /\ [][Next]_vars

\* The host and the orchestrator go on, time passes, and a call of the provider
\* returns by its own deadline, be it as "uncertain" (Hears; withinDeadline of
\* codex-assessment).  Nobody has to accept or finish an assessment, to ask for a
\* run or to cancel one.
FairSpec == Spec /\ WF_vars(Progress) /\ \A b \in Batches : WF_vars(Expires(b))

--------------------------------------------------------------------------------

\* "rather than resubmitted": whatever is lost, repeated or cancelled, in one
\* run or in the next that finds the batch still leased, a batch is submitted
\* to the provider once.
NeverSubmittedTwice == \A b \in Batches : submitted[b] <= 1

\* A receipt says completed only of work that is done, and cancelled only of
\* work that is stopped; a completed one is never written again, whichever of
\* the task and the cancellation comes last; and what is published is completed.
ReceiptsAreProven ==
    [][\A b \in Batches :
        /\ receipt'[b] # receipt[b] =>
            /\ receipt[b] # "completed"
            /\ receipt'[b] = "completed" => work'[b] = "done"
            /\ receipt'[b] = "cancelled" => work'[b] = "stopped"
        /\ b \in published' \ published => receipt[b] = "completed"]_vars

\* The deadline saved in the receipt bounds every wait and poll: a run ends,
\* though the provider never answers.
RunsEnd == \A r \in Runs : run[r] = "running" ~> run[r] # "running"

================================================================================
