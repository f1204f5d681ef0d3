------------------------------ MODULE WorkflowRun ------------------------------
(***************************************************************************)
(* One durable run, end to end: executeWorkflow (temporal-orchestration/   *)
(* src/workflow.ts) in Temporal, the activities of the sidecar             *)
(* (sidecar.ts), the dispatch and cancel requests it posts to the host     *)
(* (index.ts, receipts.ts), dispatchAgentTask (agent-task-host.ts), and    *)
(* the run's agent bridge (AgentBridge).                                   *)
(*                                                                         *)
(* The program of the run is any program: it calls steps once the steps    *)
(* they need have completed, and may throw at any time.  Every step has    *)
(* one attempt (TaskReceipts has the attempts of a step and its receipt on *)
(* disk).  Temporal is external and keeps the run across crashes of the    *)
(* host, whose sidecar dies with it; an activity it lost times out.  A     *)
(* child run is only its life; a wait is an input or a sleep.              *)
(***************************************************************************)
EXTENDS AgentBridge

CONSTANTS
    Programs,   \* the sets of steps a program may call
    Stoppable,  \* those that may be cancelled and may throw; the others return
    FailuresOf, \* what may go wrong beside each
    Needs       \* the steps whose results a step's input is made of

NoStep == "no step"

ASSUME RunConstants ==
    /\ NoStep \notin Steps
    /\ Programs \subseteq SUBSET Steps
    /\ Stoppable \subseteq Programs
    /\ FailuresOf \in [Programs -> SUBSET FailureKinds]
    /\ Needs \in [Steps -> SUBSET Steps]

VARIABLES
    program,    \* the steps this run may call
    status,     \* the run; "cleaning" and "stopping" are the catch of executeWorkflow
    cancelled,  \* the error that ended the program was a cancellation
    scopeOff,   \* the cancellation scope of the program is cancelled
    step,       \* the record of each step
    pending,    \* nativeOperations: the step that left an operation open
    unresolved, \* unresolvedEffects; "cleanup" is cleanup-unknown
    missed,     \* history: steps answered too late to be told apart at the end
    child,      \* child runs
    handles,    \* children whose start the run has seen
    activity,   \* a step's activity in Temporal and the sidecar; "adrift" is
                \* closed with its dispatch still on the way to the host
    answer,     \* what the sidecar reported of it
    posted,     \* cancel requests on their way to the host
    task,       \* the dispatcher's promise for a step
    outcome,    \* what it settles with
    bound,      \* some agent task has listened to the run's cancellation
    runOff,     \* the run's cancellation in the dispatcher
    cleanup,    \* the cleanup activity
    listed      \* what it answered

dispatcher == <<task, outcome, bound, runOff>>
temporal == <<activity, answer, posted, cleanup, listed>>
record == <<status, cancelled, scopeOff, step, pending, unresolved, missed, child, handles>>
runVars == <<program, record, temporal, dispatcher>>
vars == <<bridgeVars, runVars>>

Ended == status \in {"completed", "cancelled", "failed"}
Reports == Answers \cup {Refusal("cancelled"), Refusal("timeout"), Nothing}
InDoubt == {"cancelled", "timeout", "unknown"}

\* Every variable of the run and of its bridge stays in its range.
TypeOK ==
    /\ BridgeTypeOK
    /\ program \in Programs
    /\ status \in {"running", "cleaning", "stopping", "completed", "cancelled", "failed"}
    /\ cancelled \in BOOLEAN /\ scopeOff \in BOOLEAN
    /\ step \in [Steps -> {"new", "running", "completed", "failed"}]
    /\ pending \in [Operations -> Steps \cup {NoStep}]
    /\ unresolved \subseteq Steps \cup {"cleanup"} /\ missed \subseteq Steps
    /\ child \in [Steps -> {"none", "initiated", "running", "ended", "terminated"}]
    /\ handles \subseteq Steps
    /\ activity \in [Steps -> {"none", "scheduled", "posted", "adrift", "lost", "closed"}]
    /\ answer \in [Steps -> Reports]
    /\ posted \subseteq Steps
    /\ task \in [Steps -> {"none", "intent", "handling", "ending", "ended"}]
    /\ outcome \in [Steps -> Answers \cup {Nothing}]
    /\ bound \in BOOLEAN /\ runOff \in BOOLEAN
    /\ cleanup \in {"none", "sent", "answered", "failed"}
    /\ listed \subseteq Steps

Init ==
    /\ BridgeInit
    /\ program \in Programs /\ mayFail = FailuresOf[program]
    /\ status = "running" /\ cancelled = FALSE /\ scopeOff = FALSE
    /\ step = [st \in Steps |-> "new"]
    /\ pending = [o \in Operations |-> NoStep]
    /\ unresolved = {} /\ missed = {}
    /\ child = [st \in Steps |-> "none"] /\ handles = {}
    /\ activity = [st \in Steps |-> "none"]
    /\ answer = [st \in Steps |-> Nothing]
    /\ posted = {}
    /\ task = [st \in Steps |-> "none"]
    /\ outcome = [st \in Steps |-> Nothing]
    /\ bound = FALSE /\ runOff = FALSE
    /\ cleanup = "none" /\ listed = {}

--------------------------------------------------------------------------------
\* The program and the steps it calls

\* A step's record is kept from its first call; a step called after the scope
\* was cancelled fails at once, a task among them as an effect in doubt.
CallStep(st) ==
    LET kind == KindOf[st]
    IN  /\ status \in {"running", "cleaning", "stopping"}
        /\ st \in program /\ step[st] = "new"
        /\ \A need \in Needs[st] : step[need] = "completed"
        /\ IF scopeOff
           THEN /\ step' = [step EXCEPT ![st] = "failed"]
                /\ unresolved' = unresolved \cup ({st} \cap Agents)
                /\ UNCHANGED <<activity, child>>
           ELSE /\ step' = [step EXCEPT ![st] = "running"]
                /\ activity' = IF st \in Agents THEN [activity EXCEPT ![st] = "scheduled"]
                               ELSE activity
                /\ child' = IF kind = "child" THEN [child EXCEPT ![st] = "initiated"] ELSE child
                /\ unresolved' = unresolved
        /\ UNCHANGED <<bridgeVars, program, status, cancelled, scopeOff, pending, missed, handles,
                       answer, posted, cleanup, listed, dispatcher>>

\* The run hears of a task: a value completes the step, and an operation it
\* leaves open is remembered; a cancellation, a timeout or an unknown outcome
\* is an effect in doubt.
Hear(st) ==
    LET told == answer[st]
        o == OperationIn[st]
    IN  /\ ~Ended /\ step[st] = "running" /\ told # Nothing
        /\ IF told.ok
           THEN /\ step' = [step EXCEPT ![st] = "completed"]
                /\ pending' = IF KindOf[st] = "create" THEN pending
                              ELSE [pending EXCEPT ![o] =
                                      IF told.is \in Final \cup {"denied"} THEN NoStep ELSE st]
                /\ unresolved' = unresolved
           ELSE /\ step' = [step EXCEPT ![st] = "failed"]
                /\ unresolved' = unresolved \cup (IF told.is \in InDoubt THEN {st} ELSE {})
                /\ pending' = pending
        /\ missed' = IF status # "running" /\ told.ok THEN missed \cup {st} ELSE missed
        /\ UNCHANGED <<bridgeVars, program, status, cancelled, scopeOff, child, handles, temporal,
                       dispatcher>>

stepRest == <<bridgeVars, program, status, cancelled, scopeOff, pending, unresolved, missed,
              temporal, dispatcher>>

\* An input is answered, a timer fires; a cancelled scope ends both.
WaitEnds(st) ==
    /\ KindOf[st] = "wait" /\ step[st] = "running" /\ ~Ended
    /\ step' = [step EXCEPT ![st] = IF scopeOff THEN "failed" ELSE "completed"]
    /\ UNCHANGED <<stepRest, child, handles>>

\* The child is running at once; the run learns its handle and then its end.
ChildStarts(st) ==
    /\ child[st] = "initiated" /\ ~Ended
    /\ child' = [child EXCEPT ![st] = "running"]
    /\ UNCHANGED <<stepRest, step, handles>>

ChildSeen(st) ==
    /\ child[st] \in {"running", "ended"} /\ st \notin handles /\ ~Ended
    /\ handles' = handles \cup {st}
    /\ UNCHANGED <<stepRest, step, child>>

ChildEnds(st) ==
    /\ child[st] = "running"
    /\ child' = [child EXCEPT ![st] = "ended"]
    /\ UNCHANGED <<stepRest, step, handles>>

ChildHeard(st) ==
    /\ st \in handles /\ child[st] = "ended" /\ step[st] = "running" /\ ~Ended
    /\ \E how \in {"completed", "failed"} : step' = [step EXCEPT ![st] = how]
    /\ UNCHANGED <<stepRest, child, handles>>

--------------------------------------------------------------------------------
\* The end of the run

endRest == <<bridgeVars, program, step, pending, handles, activity, answer, posted, dispatcher>>

\* The operator cancels the run.
Cancel ==
    /\ ~Ended /\ ~scopeOff /\ program \in Stoppable
    /\ scopeOff' = TRUE
    /\ UNCHANGED <<endRest, status, cancelled, unresolved, missed, child, cleanup, listed>>

\* The program returns once what it called is settled.
Complete ==
    /\ status = "running"
    /\ \A st \in Steps : step[st] # "running"
    /\ status' = "completed"
    /\ UNCHANGED <<endRest, cancelled, scopeOff, unresolved, missed, child, cleanup, listed>>

\* An error that forgets what is open.
LeavesNothing == {}

\* nativeOperations: the steps whose operations are open.
LeftOpen == {pending[o] : o \in Operations} \ {NoStep}

\* The program throws: what submit left open is in doubt, and whatever the
\* program still has under way is cancelled.
Throw ==
    /\ status = "running" /\ program \in Stoppable
    /\ status' = "cleaning"
    /\ \E why \in {scopeOff, FALSE} : cancelled' = why
    /\ scopeOff' = TRUE
    /\ unresolved' = unresolved \cup LeftOpen
    /\ UNCHANGED <<endRest, missed, child, cleanup, listed>>

\* The children whose handles it has end first.
CleanUp ==
    /\ status = "cleaning"
    /\ \A st \in handles : child[st] = "ended"
    /\ status' = "stopping" /\ cleanup' = "sent"
    /\ UNCHANGED <<endRest, cancelled, scopeOff, unresolved, missed, child, listed>>

\* The answer of the cleanup, or its failure, ends the run.  Temporal
\* terminates the children it still has.
End ==
    /\ status = "stopping" /\ cleanup \in {"answered", "failed"}
    /\ unresolved' = unresolved \cup (IF cleanup = "failed" THEN {"cleanup"} ELSE listed)
    /\ status' = IF cancelled THEN "cancelled" ELSE "failed"
    /\ child' = [st \in Steps |->
                   IF child[st] \in {"initiated", "running"} THEN "terminated" ELSE child[st]]
    /\ UNCHANGED <<endRest, cancelled, scopeOff, missed, cleanup, listed>>

--------------------------------------------------------------------------------
\* The sidecar's activities

wireRest == <<bridgeVars, program, record, dispatcher, cleanup, listed>>

PickUp(st) ==
    /\ activity[st] = "scheduled" /\ ~Ended
    /\ activity' = [activity EXCEPT ![st] = "posted"]
    /\ UNCHANGED <<wireRest, answer, posted>>

Report(st, report, place) ==
    /\ answer' = [answer EXCEPT ![st] = report]
    /\ activity' = [activity EXCEPT ![st] = place]

\* The dispatcher's answer comes back, or the connection fails and nobody
\* knows what it was.
Reply(st) ==
    /\ activity[st] = "posted"
    /\ \/ task[st] = "ended" /\ Report(st, outcome[st], "closed") /\ mayFail' = mayFail
       \/ task[st] # "none" /\ Report(st, Refusal("unknown"), "closed") /\ Fault("answer")
    /\ posted' = posted
    /\ UNCHANGED <<bridgeMemory, storeVars, providerVars, program, record, dispatcher, cleanup,
                   listed>>

\* A cancelled activity that was picked up reports so and posts a cancel of
\* the whole run; a heartbeat also learns that the run has ended.  Its dispatch
\* is not aborted.
CancelActivity(st) ==
    /\ scopeOff \/ Ended
    /\ activity[st] \in {"scheduled", "posted"}
    /\ Report(st, Refusal("cancelled"),
              IF activity[st] = "posted" /\ task[st] = "none" THEN "adrift" ELSE "closed")
    /\ posted' = IF activity[st] = "posted" /\ closing = "no" THEN posted \cup {st} ELSE posted
    /\ UNCHANGED wireRest

\* What a dead host's sidecar had picked up misses its heartbeats.
TimeOut(st) ==
    /\ activity[st] = "lost"
    /\ Report(st, Refusal("timeout"), "closed")
    /\ UNCHANGED <<wireRest, posted>>

--------------------------------------------------------------------------------
\* The dispatcher and dispatchAgentTask

taskRest == <<program, record, temporal>>

\* Still in the dispatcher's map of active steps.
Active(st) == task[st] \in {"intent", "handling", "ending"}

\* A dispatch arrives, its activity waiting for it or not.  A run once
\* cancelled, and a host closing, refuse it.
Arrive(st) ==
    /\ activity[st] \in {"posted", "adrift"} /\ task[st] = "none"
    /\ activity' = [activity EXCEPT ![st] = IF @ = "adrift" THEN "closed" ELSE @]
    /\ IF runOff \/ closing # "no"
       THEN /\ task' = [task EXCEPT ![st] = "ended"]
            /\ outcome' = [outcome EXCEPT ![st] = Refusal("unknown")]
       ELSE /\ task' = [task EXCEPT ![st] = "intent"]
            /\ outcome' = outcome
    /\ UNCHANGED <<bridgeVars, program, record, answer, posted, cleanup, listed, bound, runOff>>

\* Its intent is on disk and the handler is called.
Handle(st) ==
    /\ task[st] = "intent"
    /\ task' = [task EXCEPT ![st] = "handling"]
    /\ bound' = TRUE
    /\ CASE KindOf[st] = "create" -> Create(st)
         [] KindOf[st] = "submit" -> Submit(st)
         [] OTHER -> Look(st)
    /\ UNCHANGED <<taskRest, outcome, runOff>>

\* The handler returns.  One the dispatcher has given up asks once more for
\* the cancellation, which reaches what was opened since.
HandlerReturns(st) ==
    /\ said[st] # Nothing
    /\ said' = [said EXCEPT ![st] = Nothing]
    /\ IF task[st] = "handling"
       THEN /\ task' = [task EXCEPT ![st] = "ending"]
            /\ outcome' = [outcome EXCEPT ![st] = said[st]]
            /\ request' = request
       ELSE /\ IF closing = "no" THEN RequestCancellation ELSE request' = request
            /\ UNCHANGED <<task, outcome>>
    /\ UNCHANGED <<opening, sessionState, memory, at, saving, pumpVars, closeVars, storeVars,
                   providerVars, mayFail, taskRest, bound, runOff>>

bridgeButRequest == <<opening, sessionState, memory, at, saving, said, pumpVars, closeVars,
                      storeVars, providerVars, mayFail>>

\* A step given up is answered "unknown", whatever its handler still does.
Abort(steps) ==
    /\ task' = [st \in Steps |->
                  IF st \in steps /\ task[st] \in {"intent", "handling"} THEN "ending" ELSE task[st]]
    /\ outcome' = [st \in Steps |->
                     IF st \in steps /\ task[st] \in {"intent", "handling"}
                     THEN Refusal("unknown") ELSE outcome[st]]

\* A task past its time is aborted, and its abort asks the bridge to cancel.
TaskTimesOut(st) ==
    /\ task[st] = "handling" /\ closing = "no"
    /\ Fault("time")
    /\ Abort({st})
    /\ RequestCancellation
    /\ UNCHANGED <<opening, sessionState, memory, at, saving, said, pumpVars, closeVars,
                   storeVars, providerVars, taskRest, bound, runOff>>

\* The receipt is written and the step leaves the map of active steps.
TaskEnds(st) ==
    /\ task[st] = "ending"
    /\ task' = [task EXCEPT ![st] = "ended"]
    /\ UNCHANGED <<bridgeVars, taskRest, outcome, bound, runOff>>

\* A cancel of the run: a run no dispatch has named is not known and nothing
\* is kept of it.
DispatcherCancel ==
    /\ closing = "no"
    /\ runOff' = (runOff \/ \E st \in Steps : task[st] # "none")
    /\ Abort(Steps)
    /\ IF bound THEN RequestCancellation ELSE request' = request

DeliverCancel(st) ==
    /\ st \in posted
    /\ posted' = posted \ {st}
    /\ DispatcherCancel
    /\ UNCHANGED <<bridgeButRequest, program, record, activity, answer, cleanup, listed, bound>>

\* The cleanup is such a cancel, answered with the steps that were active.
CleanupArrives ==
    /\ cleanup = "sent"
    /\ cleanup' = "answered"
    /\ listed' = {st \in Steps : Active(st)}
    /\ missed' = missed \cup {st \in Agents : step[st] = "running" /\ ~Active(st)}
    /\ DispatcherCancel
    /\ UNCHANGED <<bridgeButRequest, program, status, cancelled, scopeOff, step, pending,
                   unresolved, child, handles, activity, answer, posted, bound>>

\* One attempt and ten seconds: without a host, or with its answer lost, fails.
CleanupFails ==
    /\ cleanup \in {"sent", "answered"} /\ status = "stopping"
    /\ IF cleanup = "sent" /\ closing # "no" THEN mayFail' = mayFail ELSE Fault("answer")
    /\ cleanup' = "failed"
    /\ UNCHANGED <<bridgeMemory, storeVars, providerVars, program, record, activity, answer,
                   posted, listed, dispatcher>>

--------------------------------------------------------------------------------
\* The host

\* The host closes: it answers the sidecar no more, its steps are paused,
\* which is no cancellation, and the bridge closes.
HostCloses ==
    /\ closing = "no"
    /\ "close" \in mayFail
    /\ mayFail' = IF FaultsRecur THEN mayFail ELSE mayFail \cap {"release"}
    /\ closing' = "openings"
    /\ Abort(Steps)
    /\ posted' = {}
    /\ UNCHANGED <<opening, sessionState, memory, at, saving, said, pumpVars, request, toClose,
                   unclosed, storeVars, providerVars, program, record, activity, answer, cleanup, listed, bound, runOff>>

\* The host ends, closed or not, and another takes its place with nothing but
\* the store.  What its sidecar had picked up is lost.
HostRestarts ==
    /\ \/ closing \in {"ok", "failed"} /\ mayFail' = mayFail
       \/ Fault("end")
    /\ BridgeLost
    /\ task' = [st \in Steps |-> "none"]
    /\ outcome' = [st \in Steps |-> Nothing]
    /\ bound' = FALSE /\ runOff' = FALSE
    /\ activity' = [st \in Steps |->
                      CASE activity[st] = "posted" -> "lost"
                        [] activity[st] = "adrift" -> "closed"
                        [] OTHER -> activity[st]]
    /\ posted' = {}
    /\ UNCHANGED <<program, record, answer, cleanup, listed>>

Next ==
    \/ Bridge /\ UNCHANGED runVars
    \/ \E st \in Steps :
        \/ CallStep(st) \/ Hear(st) \/ WaitEnds(st)
        \/ ChildStarts(st) \/ ChildSeen(st) \/ ChildEnds(st) \/ ChildHeard(st)
        \/ PickUp(st) \/ Reply(st) \/ CancelActivity(st) \/ TimeOut(st)
        \/ Arrive(st) \/ Handle(st) \/ HandlerReturns(st) \/ TaskTimesOut(st) \/ TaskEnds(st)
        \/ DeliverCancel(st)
    \/ Cancel \/ Complete \/ Throw \/ CleanUp \/ End
    \/ CleanupArrives \/ CleanupFails \/ HostCloses \/ HostRestarts

Spec == Init /\ [][Next]_vars

\* What runs goes on running: the bridge, the host, the sidecar, Temporal, and
\* a cancelled program or child.  Nobody has to call, to cancel, to fail, to
\* answer an input or to finish an operation.  One condition is enough: every
\* step is taken a bounded number of times, so none can starve another.
Progress ==
    \/ /\ UNCHANGED runVars
       /\ \/ \E s \in Sessions :
              \/ OpeningReads(s) \/ OpeningMarks(s) \/ OpeningAnswered(s) \/ OpeningLeaves(s)
              \/ PumpSaves(s) \/ PumpEnds(s) \/ ProviderInterrupts(s) \/ ProviderCloses(s)
          \/ \E st \in Agents :
              \/ CreateReturns(st) \/ SubmitLooks(st) \/ SubmitRecords(st)
              \/ SubmitAnswered(st) \/ SubmitSettles(st) \/ Inspects(st) \/ InspectReads(st)
          \/ \E o \in Operations : PumpReads(o)
    \/ \E st \in Steps :
        \/ Hear(st) \/ HandlerReturns(st) \/ TaskEnds(st)
        \/ ChildStarts(st) \/ ChildSeen(st) \/ (scopeOff /\ ChildEnds(st))
    \/ (scopeOff /\ Throw) \/ CleanUp \/ End \/ CleanupArrives
    \/ (closing # "no" /\ CleanupFails)

FairSpec == Spec /\ WF_vars(Progress)

--------------------------------------------------------------------------------
\* Properties

\* A session has at most one operation in doubt, in this process and across a
\* restart, and the bridge holds the session of one it started itself:
\* submit's guards, and what frees state.active.
Unsettled(s) == {o \in asked : HomeOf[o] = s /\ native[o] \in {"none", "running"}}
OneOperationInDoubt ==
    \A s \in Sessions :
        /\ Cardinality(Unsettled(s)) <= 1
        /\ s \in owned => \A o \in Unsettled(s) : active[s] = o

\* A definite receipt, in memory, on disk or on its way to the run, is what
\* became of the operation: whatever the order saves land in, the store
\* fails, or the host restarts.
ToldOf(st) == {m \in {said[st], outcome[st], answer[st]} : m.ok}
ReceiptsAreTrue ==
    \A o \in Operations :
        \A word \in {memory[o], disk[o]}
                        \cup {m.is : m \in UNION {ToldOf(st) : st \in {t \in Agents : OperationIn[t] = o}}} :
            /\ word \in Final => native[o] = word
            /\ word = "denied" => o \notin asked

\* An operation the provider may still carry out, and of which neither a step
\* nor the cleanup is in unresolvedEffects.
Unaccounted(o) ==
    /\ o \in asked /\ native[o] \in {"none", "running"}
    /\ \A st \in Agents : OperationIn[st] = o => st \notin unresolved
    /\ "cleanup" \notin unresolved

\* "unresolvedEffects records work whose external outcome remains uncertain":
\* the end of a run that did not complete accounts for every operation the
\* provider may still carry out.  executeWorkflow misses some.
DoubtIsReported ==
    status \in {"cancelled", "failed"} => \A o \in Operations : ~Unaccounted(o)

\* What it misses are the operations answered too late, and no others: a step
\* of each was answered after the program had thrown, or with nothing of it in
\* the dispatcher when the cleanup asked.
OnlyLateAnswersAreMissed ==
    status \in {"cancelled", "failed"} =>
        \A o \in Operations :
            Unaccounted(o) => \E st \in missed : OperationIn[st] = o

\* A host that closed has given back every session a provider opened for it,
\* an opening under way when it closed among them, or says it could not.
ClosedLeavesNothing ==
    closing = "ok" => \A s \in Sessions : provider[s] # "open"

\* Nothing waits for ever: a cancelled run ends, whatever its steps, its children
\* and its host do, and a result task returns once its operation has ended,
\* unless a save or the session's signals failed or the session was cancelled
\* (Forgotten tells that nothing failed only where faults do not recur).
Forgotten(st) ==
    /\ at[st] = "waiting" /\ native[OperationIn[st]] \in Final
    /\ mayFail = FailuresOf[program] /\ request[SessionIn[st]] = "none"
NothingWaitsForEver ==
    <>[]((scopeOff => Ended) /\ \A st \in Agents : ~Forgotten(st))

================================================================================
