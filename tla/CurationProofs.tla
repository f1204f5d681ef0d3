---------------------------- MODULE CurationProofs ----------------------------
(***************************************************************************)
(* What the coordinator and its runs promise, for any number of runs and   *)
(* batches, any backlog, any settings and every scene.                     *)
(*                                                                         *)
(* The coordinator's part stands by itself: RunsInv for what it remembers  *)
(* of its runs, and BudgetInv for what it has spent.  From it follows that *)
(* at most one task works at any time, and on that AssessInv rests: what   *)
(* a task or a cancellation may still do, given the receipt of its batch.  *)
(***************************************************************************)
EXTENDS CurationRun, FiniteSetTheorems, TLAPS

\* What the coordinator remembers covers every run that may still be going on.
RunsInv ==
    /\ CoordinatorTypeOK
    /\ saved.active < saved.next
    /\ \A r \in Runs : r >= saved.next => run[r] = "none"
    /\ call.at = "admitting" => saved.active = NoRun
    /\ call.at \in {"dispatching", "recording"} => saved.active # NoRun
    /\ OneRunAtATime

Counted(d) == {k \in Runs : reserved[k].counted /\ reserved[k].day = d}

\* The starts of the saved day cover every counted reservation of that day, and
\* no reservation is of a later one.
BudgetInv ==
    /\ saved.day <= day
    /\ \A k \in Runs : reserved[k].day <= saved.day
    /\ Cardinality(Counted(saved.day)) <= saved.starts

\* The variables' ranges.
RunTypes ==
    /\ flow \in [Runs -> [at : {"pending", "assess", "sleep", "release", "publish", "over"},
                          limit : {1, 2}, batch : Batches \cup {NoBatch}, tried : BOOLEAN]]
    /\ task \in [Runs -> [at : {"none", "begin", "recall", "asking", "waiting", "apply",
                                "joined", "hold", "stop"},
                          may : BOOLEAN, submits : BOOLEAN, answer : Answers]]
    /\ aborted \subseteq Runs
StoreTypes ==
    /\ scene \in Scenes /\ crashed \in BOOLEAN
    /\ backlog \in 0..scene.units /\ lease \in Batches \cup {NoBatch}
    /\ size \in [Batches -> 0..2] /\ published \subseteq Batches
    /\ lease # NoBatch => size[lease] <= backlog
ReceiptTypes ==
    /\ receipt \in [Batches -> ReceiptStates] /\ late \subseteq Batches
    /\ fresh \in [Batches -> SUBSET (Runs \cup {Owner})]
    /\ listener \in [Batches -> Runs \cup {0}]
    /\ cancel \in [Batches -> [at : {"none", "load", "hold", "ask", "reconcile", "apply"},
                               answer : Answers]]
    /\ work \in [Batches -> WorkStates] /\ submitted \in [Batches -> Nat]

\* An answer that may be written into the receipt of b.
Proven(b, answer) ==
    /\ answer \in Answers \ {"none"}
    /\ answer = "completed" => work[b] = "done"
    /\ answer = "cancelled" => work[b] = "stopped"

\* A task belongs to a run that the coordinator remembers, and whoever is past
\* the receipt has seen one.
TaskOK(r) ==
    /\ task[r].at = "none" => task[r] = NoTask
    /\ task[r] # NoTask => run[r] \in {"running", "held"} /\ flow[r].at = "assess"
    /\ task[r].at \in {"asking", "waiting", "apply", "joined", "hold", "stop"} =>
        receipt[B(r)] # "none"
    /\ task[r].at = "asking" /\ task[r].submits => submitted[B(r)] = 0
    /\ task[r].at = "apply" => Proven(B(r), task[r].answer)

FlowOK(r) ==
    /\ flow[r].at \in {"assess", "sleep", "release", "publish"} => flow[r].batch \in Batches
    /\ flow[r].at = "publish" => receipt[B(r)] = "completed"

\* Nothing is done about a batch before its intent is written, and a completed
\* receipt has no copy left to overwrite it with.
BatchOK(b) ==
    /\ receipt[b] = "none" =>
        cancel[b] = NoCancel /\ listener[b] = 0 /\ submitted[b] = 0
    /\ submitted[b] <= 1
    /\ submitted[b] = 0 => work[b] = "none"
    /\ receipt[b] = "completed" => fresh[b] = {}
    /\ cancel[b].at = "apply" => Proven(b, cancel[b].answer)

Types == RunTypes /\ StoreTypes /\ ReceiptTypes
TasksOK == \A r \in Runs : TaskOK(r)
FlowsOK == \A r \in Runs : FlowOK(r)
BatchesOK == \A b \in Batches : BatchOK(b)

AssessInv == Types /\ TasksOK /\ FlowsOK /\ BatchesOK

CurationInv == RunsInv /\ BudgetInv /\ AssessInv

--------------------------------------------------------------------------------
(* The coordinator and the runs it remembers.                                  *)

\* All that a step outside the coordinator does to it: runs end, and the
\* operation under way may be lost.
RunsEndOnly ==
    /\ UNCHANGED <<day, saved, reserved>>
    /\ call' \in {call, Idle}
    /\ run' \in [Runs -> RunStates]
    /\ \A r \in Runs : run'[r] = run[r] \/ (run[r] = "running" /\ run'[r] \in {"done", "held"})

\* RunsEndOnly is nothing to the coordinator's invariants.
LEMMA EndKeepsRuns ==
    ASSUME RunsInv, RunsEndOnly PROVE RunsInv'
<1>1. CoordinatorTypeOK'
  BY DEF RunsInv, RunsEndOnly, CoordinatorTypeOK, Idle, Modes
<1>2. OneRunAtATime'
  BY DEF RunsInv, RunsEndOnly, OneRunAtATime
<1>3. \A r \in Runs : r >= saved'.next => run'[r] = "none"
  BY DEF RunsInv, RunsEndOnly
<1> QED
  BY <1>1, <1>2, <1>3 DEF RunsInv, RunsEndOnly, Idle

\* Nor is it anything to what it has charged.
LEMMA EndKeepsBudget ==
    ASSUME BudgetInv, RunsEndOnly PROVE BudgetInv'
  BY DEF BudgetInv, RunsEndOnly, Counted

\* Every step of the coordinator keeps what it remembers of its runs.
LEMMA CoordinatesKeepsRuns ==
    ASSUME RunsInv, Coordinates PROVE RunsInv'
<1> USE CoordinatorConstants DEF RunsInv, CoordinatorTypeOK, OneRunAtATime, Runs, NoRun,
                                 Modes, Idle, RunStates
<1>1. ASSUME NEW mode \in Modes, Asks(mode) PROVE RunsInv'
  BY <1>1 DEF Asks
<1>2. CASE Looks
  BY <1>2 DEF Looks, Goes
<1>3. CASE Decides
  <2>1. UNCHANGED <<day, run, reserved>>
    BY <1>3 DEF Decides
  <2>2. CASE UNCHANGED saved /\ call' = Idle
    BY <2>1, <2>2
  <2>3. CASE UNCHANGED saved /\ saved.active = NoRun /\ call' = [call EXCEPT !.at = "admitting"]
    BY <2>1, <2>3
  <2>4. CASE UNCHANGED saved /\ saved.active # NoRun /\ call' = [call EXCEPT !.at = "dispatching"]
    BY <2>1, <2>4
  <2>5. CASE /\ saved' = [saved EXCEPT !.active = NoRun, !.started = FALSE]
             /\ run[saved.active] = "done" /\ call' = [call EXCEPT !.at = "admitting"]
    <3>1. /\ saved'.active = NoRun /\ saved'.next = saved.next
          /\ saved' \in [paused : BOOLEAN, limit : Limits, day : 1..LastDay, starts : Nat,
                        next : 1..(MaxRuns + 1), active : Runs \cup {NoRun},
                        started : BOOLEAN]
      BY <2>5
    <3>2. OneRunAtATime'
      BY <2>1, <2>5
    <3>3. CoordinatorTypeOK'
      BY <2>1, <2>5, <3>1
    <3> QED
      BY <2>1, <2>5, <3>1, <3>2, <3>3
  <2> QED
    BY <1>3, <2>2, <2>3, <2>4, <2>5 DEF Decides, Goes, Returns, ProvenOver
<1>4. CASE Reserves
  <2>1. /\ saved.active = NoRun /\ saved.next \in Runs /\ UNCHANGED <<day, run>>
        /\ call' = [call EXCEPT !.at = "dispatching"]
    BY <1>4 DEF Reserves, Goes
  <2>2. Charged \in Nat /\ UsesBudget \in BOOLEAN
    BY DEF Charged, UsesBudget
  <2>3. saved' = [saved EXCEPT !.active = saved.next, !.started = FALSE,
                               !.next = saved.next + 1, !.starts = Charged]
    BY <1>4 DEF Reserves
  <2>4. /\ saved'.active = saved.next /\ saved'.next = saved.next + 1
        /\ saved' \in [paused : BOOLEAN, limit : Limits, day : 1..LastDay, starts : Nat,
                      next : 1..(MaxRuns + 1), active : Runs \cup {NoRun}, started : BOOLEAN]
    <3>1. saved' = [paused |-> saved.paused, limit |-> saved.limit, day |-> saved.day,
                    starts |-> Charged, next |-> saved.next + 1, active |-> saved.next,
                    started |-> FALSE]
      BY <2>3
    <3>2. saved.next + 1 \in 1..(MaxRuns + 1)
      BY <2>1
    <3> QED
      BY <2>1, <2>2, <3>1, <3>2
  <2>5. reserved' \in [Runs -> [day : 0..LastDay, counted : BOOLEAN]]
    <3>1. reserved' = [reserved EXCEPT ![saved.next] =
                         [day |-> saved.day, counted |-> UsesBudget]]
      BY <1>4 DEF Reserves
    <3> QED
      BY <2>1, <2>2, <3>1
  <2>6. call' \in [mode : Modes, at : {"idle", "looking", "deciding", "admitting",
                                     "dispatching", "recording"}] /\ call'.at = "dispatching"
    BY <2>1
  <2>7. OneRunAtATime'
    BY <2>1, <2>4
  <2>8. CoordinatorTypeOK'
    BY <2>1, <2>4, <2>5, <2>6
  <2> QED
    BY <2>1, <2>4, <2>6, <2>7, <2>8
<1>5. CASE Declines
  BY <1>5 DEF Declines, Returns
<1>6. CASE Records
  BY <1>6 DEF Records, Returns
<1>7. ASSUME NEW answered \in BOOLEAN, Dispatches(answered) PROVE RunsInv'
  BY <1>7 DEF Dispatches, Goes, Returns
<1>8. ASSUME NEW paused \in BOOLEAN, SetPaused(paused) PROVE RunsInv'
  BY <1>8 DEF SetPaused
<1>9. ASSUME NEW limit \in Limits, Configure(limit) PROVE RunsInv'
  BY <1>9 DEF Configure
<1>10. CASE Midnight
  BY <1>10 DEF Midnight
<1> QED
  BY <1>1, <1>2, <1>3, <1>4, <1>5, <1>6, <1>7, <1>8, <1>9, <1>10 DEF Coordinates

\* A day's counted reservations are finitely many.
LEMMA CountedFinite ==
    ASSUME NEW d PROVE IsFiniteSet(Counted(d)) /\ Cardinality(Counted(d)) \in Nat
<1>1. IsFiniteSet(Runs)
  BY CoordinatorConstants, FS_Interval DEF Runs
<1>2. Counted(d) \subseteq Runs
  BY DEF Counted
<1> QED
  BY <1>1, <1>2, FS_Subset, FS_CardinalityType

\* One more element is one more at most.
LEMMA OneMore ==
    ASSUME NEW S, NEW x, IsFiniteSet(S)
    PROVE  IsFiniteSet(S \cup {x}) /\ Cardinality(S \cup {x}) <= Cardinality(S) + 1
<1>1. /\ IsFiniteSet(S \cup {x})
      /\ Cardinality(S \cup {x}) = IF x \in S THEN Cardinality(S) ELSE Cardinality(S) + 1
  BY FS_AddElement
<1>2. Cardinality(S) \in Nat
  BY FS_CardinalityType
<1> QED
  BY <1>1, <1>2

\* Every step of the coordinator keeps within what it has charged.
LEMMA CoordinatesKeepsBudget ==
    ASSUME RunsInv, BudgetInv, Coordinates PROVE BudgetInv'
<1> USE CoordinatorConstants
<1>1. CASE Looks
  <2>1. CASE saved.day = day
    BY <1>1, <2>1 DEF Looks, BudgetInv, Counted
  <2>2. CASE saved.day # day
    <3>1. saved'.day = day /\ saved'.starts = 0 /\ reserved' = reserved /\ day' = day
      BY <1>1, <2>2 DEF Looks, RunsInv, CoordinatorTypeOK
    <3>2. \A k \in Runs : reserved[k].day < day
      BY <2>2 DEF BudgetInv, RunsInv, CoordinatorTypeOK
    <3>3. Counted(day)' = {}
      BY <3>1, <3>2 DEF Counted, RunsInv, CoordinatorTypeOK
    <3>4. Cardinality(Counted(saved.day))' = 0
      BY <3>1, <3>3, FS_EmptySet DEF Counted
    <3> QED
      BY <3>1, <3>2, <3>4 DEF BudgetInv, RunsInv, CoordinatorTypeOK
  <2> QED
    BY <2>1, <2>2
<1>2. CASE Reserves
  <2> DEFINE before == Counted(saved.day)
             after == Counted(saved.day)'
  <2>1. /\ saved'.day = saved.day /\ saved'.starts = Charged /\ day' = day
        /\ saved.next \in Runs
        /\ reserved' = [reserved EXCEPT ![saved.next] =
                           [day |-> saved.day, counted |-> UsesBudget]]
    BY <1>2 DEF Reserves, RunsInv, CoordinatorTypeOK, Runs
  <2>2. \A k \in Runs : reserved'[k].day <= saved.day
    BY <2>1 DEF BudgetInv, RunsInv, CoordinatorTypeOK
  <2>3. IsFiniteSet(before) /\ Cardinality(before) \in Nat
    BY CountedFinite
  <2>4. CASE UsesBudget
    <3>1. after \subseteq before \cup {saved.next}
      BY <2>1 DEF Counted, RunsInv, CoordinatorTypeOK
    <3>2. /\ IsFiniteSet(before \cup {saved.next})
          /\ Cardinality(before \cup {saved.next}) <= Cardinality(before) + 1
      BY <2>3, OneMore
    <3>3. Cardinality(after) <= Cardinality(before \cup {saved.next})
      BY <3>1, <3>2, FS_Subset
    <3>4. Cardinality(after) \in Nat /\ Cardinality(before \cup {saved.next}) \in Nat
      BY <3>1, <3>2, FS_Subset, FS_CardinalityType
    <3>5. saved'.starts = saved.starts + 1 /\ saved.starts \in Nat
      BY <2>1, <2>4 DEF Charged, RunsInv, CoordinatorTypeOK
    <3>6. Cardinality(after) <= saved'.starts
      BY <2>3, <3>2, <3>3, <3>4, <3>5 DEF BudgetInv
    <3> QED
      BY <2>1, <2>2, <3>6 DEF BudgetInv
  <2>5. CASE ~UsesBudget
    <3>1. after \subseteq before
      BY <2>1, <2>5 DEF Counted, RunsInv, CoordinatorTypeOK
    <3>2. Cardinality(after) <= Cardinality(before) /\ Cardinality(after) \in Nat
      BY <2>3, <3>1, FS_Subset, FS_CardinalityType
    <3>3. saved'.starts = saved.starts /\ saved.starts \in Nat
      BY <2>1, <2>5 DEF Charged, RunsInv, CoordinatorTypeOK
    <3>4. Cardinality(after) <= saved'.starts
      BY <2>3, <3>2, <3>3 DEF BudgetInv
    <3> QED
      BY <2>1, <2>2, <3>4 DEF BudgetInv
  <2> QED
    BY <2>4, <2>5
<1>3. CASE Midnight
  <2>1. reserved' = reserved /\ saved' = saved /\ saved.day <= day'
    BY <1>3 DEF Midnight, BudgetInv, RunsInv, CoordinatorTypeOK
  <2> QED
    BY <2>1 DEF BudgetInv, Counted
<1>4. ASSUME UNCHANGED <<day, reserved>>, saved'.day = saved.day, saved'.starts = saved.starts
      PROVE BudgetInv'
  BY <1>4 DEF BudgetInv, Counted
<1>5. CASE Decides
  BY <1>5, <1>4 DEF Decides, RunsInv, CoordinatorTypeOK
<1>6. ASSUME NEW paused \in BOOLEAN, SetPaused(paused) PROVE BudgetInv'
  BY <1>6, <1>4 DEF SetPaused, RunsInv, CoordinatorTypeOK
<1>7. ASSUME NEW limit \in Limits, Configure(limit) PROVE BudgetInv'
  BY <1>7, <1>4 DEF Configure, RunsInv, CoordinatorTypeOK
<1>8. CASE Records
  BY <1>8, <1>4 DEF Records, RunsInv, CoordinatorTypeOK
<1> QED
  BY <1>1, <1>2, <1>3, <1>4, <1>5, <1>6, <1>7, <1>8
  DEF Coordinates, Asks, Declines, Dispatches

--------------------------------------------------------------------------------
(* The workflow.                                                               *)

\* What an action of a run's workflow leaves behind: another place for the run,
\* never "publish", which only a task's result leads to.
WorkflowMoves(r) ==
    /\ UNCHANGED <<keeper, scene, aborted, task, receipts, owner, provider, crashed>>
    /\ run[r] = "running" /\ task[r] = NoTask
    /\ run' \in {run, [run EXCEPT ![r] = "done"], [run EXCEPT ![r] = "held"]}
    /\ flow'[r] \in [at : {"pending", "assess", "sleep", "release", "over"},
                     limit : {1, 2}, batch : Batches \cup {NoBatch}, tried : BOOLEAN]
    /\ flow' = [flow EXCEPT ![r] = flow'[r]]
    /\ flow'[r].at \in {"assess", "sleep", "release"} => flow'[r].batch \in Batches

\* A release that succeeds sends the run back to ask for half the units.
LEMMA ReleaseHalves ==
    ASSUME RunTypes, NEW r \in Runs, Releases(r)
    PROVE  \/ /\ flow' = [flow EXCEPT ![r] = flow'[r]] /\ UNCHANGED run
              /\ flow'[r] = [at |-> "pending", limit |-> 1, batch |-> NoBatch,
                             tried |-> flow[r].tried]
           \/ Closes(r, "held")
<1>1. flow \in [Runs -> [at : {"pending", "assess", "sleep", "release", "publish", "over"},
                         limit : {1, 2}, batch : Batches \cup {NoBatch}, tried : BOOLEAN]]
  BY DEF RunTypes
<1> QED
  BY <1>1 DEF Releases

\* Every action of the workflow is such a move, and keeps the store's ranges.
LEMMA WorkflowIsMove ==
    ASSUME AssessInv, RunsInv, NEW r \in Runs, Workflow(r)
    PROVE  WorkflowMoves(r) /\ StoreTypes'
<1> USE DEF AssessInv, FlowsOK, Types, RunTypes, StoreTypes, FlowOK, WorkflowMoves, Only, At, store
<1>0. /\ flow[r] \in [at : {"pending", "assess", "sleep", "release", "publish", "over"},
                      limit : {1, 2}, batch : Batches \cup {NoBatch}, tried : BOOLEAN]
      /\ flow[r].at \in {"assess", "sleep", "release", "publish"} => flow[r].batch \in Batches
      /\ scene.units \in Nat /\ NoBatch \notin Batches
  BY RunConstants DEF Scene, NoBatch, Batches
<1>1. CASE PendingEnds(r)
  BY <1>0, <1>1 DEF PendingEnds, Closes, Onto
<1>2. CASE PendingHalves(r)
  BY <1>0, <1>2 DEF PendingHalves
<1>3. CASE PendingReissues(r)
  BY <1>0, <1>3 DEF PendingReissues
<1>4. ASSUME NEW b \in Batches, PendingIssues(r, b) PROVE WorkflowMoves(r) /\ StoreTypes'
  <2>1. WorkflowMoves(r)
    BY <1>0, <1>4 DEF PendingIssues
  <2> DEFINE units == IF backlog < flow[r].limit THEN backlog ELSE flow[r].limit
  <2>2. units \in 0..2 /\ units <= backlog
    BY <1>0
  <2>3. /\ lease' = b /\ UNCHANGED <<backlog, published, scene, crashed>>
        /\ size' = [size EXCEPT ![b] = units]
    BY <1>4 DEF PendingIssues
  <2> QED
    BY <2>1, <2>2, <2>3
<1>5. CASE Releases(r)
  <2>1. /\ lease' = NoBatch /\ UNCHANGED <<backlog, size, published, scene, crashed>>
        /\ run[r] = "running" /\ task[r] = NoTask /\ Only
    BY <1>5 DEF Releases, DropsLease
  <2>2. StoreTypes'
    BY <1>0, <2>1
  <2>3. CASE /\ flow' = [flow EXCEPT ![r] = flow'[r]] /\ UNCHANGED run
             /\ flow'[r] = [at |-> "pending", limit |-> 1, batch |-> NoBatch,
                            tried |-> flow[r].tried]
    BY <1>0, <2>1, <2>3
  <2>4. CASE Closes(r, "held")
    BY <1>0, <2>1, <2>4 DEF Closes, Onto
  <2> QED
    BY <1>5, <2>2, <2>3, <2>4, ReleaseHalves
<1>6. CASE Publishes(r)
  BY <1>0, <1>6 DEF Publishes, DropsLease, Closes, Onto
<1>7. CASE StoreRefuses(r)
  BY <1>0, <1>7 DEF StoreRefuses, Closes, Onto
<1>8. CASE SleepEnds(r)
  BY <1>0, <1>8 DEF SleepEnds, Onto
<1>9. CASE Interrupted(r)
  BY <1>0, <1>9 DEF Interrupted, Closes, Onto
<1> QED
  BY <1>1, <1>2, <1>3, <1>4, <1>5, <1>6, <1>7, <1>8, <1>9 DEF Workflow

\* A move of the workflow keeps what tasks and cancellations rest on.
LEMMA WorkflowKeeps ==
    ASSUME AssessInv, RunsInv, NEW r \in Runs, Workflow(r)
    PROVE  AssessInv' /\ RunsEndOnly
<1>1. WorkflowMoves(r) /\ StoreTypes'
  BY WorkflowIsMove
<1>2. RunsEndOnly
  BY <1>1 DEF WorkflowMoves, RunsEndOnly, keeper, RunsInv, CoordinatorTypeOK, RunStates
<1>3. RunTypes'
  BY <1>1 DEF WorkflowMoves, AssessInv, Types, RunTypes
<1>4. ReceiptTypes'
  BY <1>1 DEF WorkflowMoves, AssessInv, Types, ReceiptTypes, receipts, owner, provider
<1>5. ASSUME NEW q \in Runs PROVE TaskOK(q)' /\ FlowOK(q)'
  <2>1. CASE q = r
    BY <1>1, <2>1 DEF WorkflowMoves, AssessInv, Types, RunTypes, TasksOK, FlowsOK, TaskOK, FlowOK, NoTask, B
  <2>2. CASE q # r
    <3>1. flow'[q] = flow[q] /\ task'[q] = task[q] /\ run'[q] = run[q]
      BY <1>1, <2>2 DEF WorkflowMoves, AssessInv, Types, RunTypes, RunsInv, CoordinatorTypeOK
    <3> QED
      BY <1>1, <3>1 DEF WorkflowMoves, AssessInv, TasksOK, FlowsOK, TaskOK, FlowOK, B, Proven, receipts, provider
  <2> QED
    BY <2>1, <2>2
<1>6. ASSUME NEW b \in Batches PROVE BatchOK(b)'
  BY <1>1 DEF WorkflowMoves, AssessInv, BatchesOK, BatchOK, Proven, receipts, owner, provider
<1> QED
  BY <1>1, <1>2, <1>3, <1>4, <1>5, <1>6 DEF AssessInv, Types, TasksOK, FlowsOK, BatchesOK

--------------------------------------------------------------------------------
(* Receipts and answers, forward only.                                         *)

\* A receipt that was written stays written, a completed one stays completed,
\* and work that is over stays as it is.
Forward ==
    \A b \in Batches :
        /\ receipt[b] # "none" => receipt'[b] # "none"
        /\ receipt[b] = "completed" => receipt'[b] = "completed"
        /\ work[b] \in {"done", "stopped"} => work'[b] = work[b]

\* A task's run is one that the coordinator remembers, so there is one task.
LEMMA OneTask ==
    ASSUME RunsInv, TasksOK, NEW r \in Runs, NEW q \in Runs,
           task[r] # NoTask, task[q] # NoTask
    PROVE  r = q
  BY DEF RunsInv, OneRunAtATime, TasksOK, TaskOK

\* A task works on a batch.
LEMMA TaskHasBatch ==
    ASSUME TasksOK, FlowsOK, NEW r \in Runs, task[r] # NoTask
    PROVE  B(r) \in Batches /\ flow[r].at = "assess"
  BY DEF TasksOK, TaskOK, FlowsOK, FlowOK, B

\* A run that stands still is disturbed by nothing that goes forward.
LEMMA StillKeeps ==
    ASSUME TasksOK, FlowsOK, Forward, NEW q \in Runs,
           flow'[q] = flow[q], task'[q] = task[q],
           run'[q] = run[q] \/ (run[q] = "running" /\ run'[q] = "held"),
           task[q] # NoTask => submitted'[B(q)] = submitted[B(q)]
    PROVE  TaskOK(q)' /\ FlowOK(q)'
<1>1. FlowOK(q)'
  BY DEF FlowsOK, FlowOK, Forward, B
<1>2. TaskOK(q)'
  <2>1. CASE task[q] = NoTask
    BY <2>1 DEF TaskOK, NoTask
  <2>2. CASE task[q] # NoTask
    <3>1. B(q) \in Batches /\ B(q)' = B(q)
      BY <2>2, TaskHasBatch DEF B
    <3> QED
      BY <2>2, <3>1 DEF TasksOK, TaskOK, Forward, Proven
  <2> QED
    BY <2>1, <2>2
<1> QED
  BY <1>1, <1>2

\* Where a result may lead.
LEMMA OnwardTo ==
    ASSUME NEW r, NEW result
    PROVE  /\ Onward(r, result) \in {"publish", "sleep", "release", "over"}
           /\ Onward(r, result) = "publish" <=> result = "completed"
           /\ Verdict(result) \in {"done", "held"}
  BY DEF Onward, Verdict

\* Tasks that return a result leave their runs where the result leads.
LEMMA FinishKeeps ==
    ASSUME RunsInv, RunTypes, TasksOK, FlowsOK, Forward,
           NEW rs \in SUBSET Runs, NEW result, Finish(rs, result),
           \A r \in rs : task[r] # NoTask,
           result = "completed" => \A r \in rs : receipt'[flow[r].batch] = "completed",
           UNCHANGED <<submitted, aborted, day, saved, reserved>>, call' \in {call, Idle}
    PROVE  RunTypes' /\ TasksOK' /\ FlowsOK' /\ RunsEndOnly
<1> DEFINE going(r) == r \in rs /\ run[r] = "running"
           to(r) == IF going(r) THEN [flow[r] EXCEPT !.at = Onward(r, result), !.tried = FALSE]
                    ELSE flow[r]
           ends(r) == going(r) /\ Onward(r, result) = "over"
<1>1. /\ task' = [r \in Runs |-> IF r \in rs THEN NoTask ELSE task[r]]
      /\ flow' = [r \in Runs |-> to(r)]
      /\ run' = [r \in Runs |-> IF ends(r) THEN Verdict(result) ELSE run[r]]
  BY DEF Finish
<1>2. \A r \in Runs : to(r) \in [at : {"pending", "assess", "sleep", "release", "publish", "over"},
                                limit : {1, 2}, batch : Batches \cup {NoBatch}, tried : BOOLEAN]
  <2> TAKE r \in Runs
  <2>1. flow[r] \in [at : {"pending", "assess", "sleep", "release", "publish", "over"},
                    limit : {1, 2}, batch : Batches \cup {NoBatch}, tried : BOOLEAN]
    BY DEF RunTypes
  <2>2. Onward(r, result) \in {"publish", "sleep", "release", "over"}
    BY OnwardTo
  <2> QED
    BY <2>1, <2>2
<1>3. RunTypes'
  BY <1>1, <1>2 DEF RunTypes, NoTask, Answers
<1>4. RunsEndOnly
  BY <1>1, OnwardTo DEF RunsEndOnly, RunsInv, CoordinatorTypeOK, RunStates
<1>5. ASSUME NEW q \in Runs PROVE TaskOK(q)' /\ FlowOK(q)'
  <2>1. CASE q \in rs
    <3>1. TaskOK(q)'
      BY <1>1, <2>1 DEF TaskOK, NoTask
    <3>2. /\ B(q) \in Batches /\ flow[q].at = "assess"
          /\ flow[q] \in [at : {"pending", "assess", "sleep", "release", "publish", "over"},
                          limit : {1, 2}, batch : Batches \cup {NoBatch}, tried : BOOLEAN]
      BY <2>1, TaskHasBatch DEF RunTypes
    <3>3. flow'[q].batch = flow[q].batch /\ flow'[q].at \in {flow[q].at, Onward(q, result)}
      BY <1>1, <3>2
    <3>4. FlowOK(q)'
      BY <2>1, <3>2, <3>3, OnwardTo DEF FlowOK, B
    <3> QED
      BY <3>1, <3>4
  <2>2. CASE q \notin rs
    <3>1. flow'[q] = flow[q] /\ task'[q] = task[q] /\ run'[q] = run[q]
      BY <1>1, <2>2 DEF RunTypes, RunsInv, CoordinatorTypeOK
    <3> QED
      BY <3>1, StillKeeps
  <2> QED
    BY <2>1, <2>2
<1> QED
  BY <1>3, <1>4, <1>5 DEF TasksOK, FlowsOK

\* A task that goes on stays its run's only task.
LEMMA GoesOnKeeps ==
    ASSUME RunsInv, RunTypes, TasksOK, FlowsOK, Forward,
           NEW r \in Runs, task[r] # NoTask, RunTypes', TaskOK(r)',
           \A q \in Runs : q # r => task'[q] = task[q],
           UNCHANGED <<run, flow, aborted, day, saved, call, reserved>>
    PROVE  TasksOK' /\ FlowsOK' /\ RunsEndOnly
<1>1. RunsEndOnly
  BY DEF RunsEndOnly, RunsInv, CoordinatorTypeOK
<1>2. ASSUME NEW q \in Runs PROVE TaskOK(q)' /\ FlowOK(q)'
  <2>1. FlowOK(q)'
    BY DEF FlowsOK, FlowOK, Forward, B
  <2>2. CASE q = r
    BY <2>1, <2>2
  <2>3. CASE q # r
    <3>1. task[q] = NoTask
      BY <2>3, OneTask
    <3> QED
      BY <2>1, <2>3, <3>1 DEF TaskOK, NoTask
  <2> QED
    BY <2>2, <2>3
<1> QED
  BY <1>1, <1>2 DEF TasksOK, FlowsOK

\* A receipt that changes was not completed, and says nothing unproven.
Honest ==
    \A b \in Batches : receipt'[b] # receipt[b] =>
        /\ receipt[b] # "completed"
        /\ receipt'[b] = "completed" => work'[b] = "done"
        /\ receipt'[b] = "cancelled" => work'[b] = "stopped"

\* What every use of the receipts comes to.
ReceiptsGoOn ==
    /\ receipt' \in [Batches -> ReceiptStates] /\ late' \subseteq Batches
    /\ fresh' \in [Batches -> SUBSET (Runs \cup {Owner})]
    /\ \A b \in Batches :
        /\ receipt[b] # "none" => receipt'[b] # "none"
        /\ receipt[b] = "completed" => receipt'[b] = "completed"
        /\ receipt'[b] = "completed" => fresh'[b] = {}
    /\ Honest

\* The compare-and-set: whoever holds a copy of the receipt knows that it is not
\* completed.
LEMMA WriteGoesOn ==
    ASSUME ReceiptTypes, BatchesOK, NEW b \in Batches, NEW who \in Runs \cup {Owner},
           NEW state \in ReceiptStates \ {"none"}, NEW copies \in SUBSET {who},
           CanWrite(b, who, state), Write(b, who, state, copies),
           state = "completed" => copies = {},
           state = "completed" => work'[b] = "done",
           state = "cancelled" => work'[b] = "stopped"
    PROVE  ReceiptsGoOn /\ receipt'[b] = state
<1>1. /\ receipt' = [receipt EXCEPT ![b] = state] /\ late' = late
      /\ fresh' = [fresh EXCEPT ![b] = (IF who \in fresh[b] THEN {} ELSE fresh[b]) \cup copies]
  BY DEF Write, Holds
<1>2. receipt[b] = "completed" => state = "completed"
  BY DEF CanWrite, Holds, BatchesOK, BatchOK
<1>3. state = "completed" => fresh'[b] = {}
  BY <1>1 DEF CanWrite, Holds, BatchesOK, BatchOK, ReceiptTypes
<1>4. fresh' \in [Batches -> SUBSET (Runs \cup {Owner})]
  BY <1>1 DEF ReceiptTypes
<1>5. ASSUME NEW c \in Batches, c # b
      PROVE  receipt'[c] = receipt[c] /\ fresh'[c] = fresh[c]
  BY <1>1, <1>5 DEF ReceiptTypes
<1>6. receipt'[b] = state
  BY <1>1 DEF ReceiptTypes
<1>7. receipt' \in [Batches -> ReceiptStates] /\ late' \subseteq Batches
  BY <1>1 DEF ReceiptTypes
<1> QED
  BY <1>2, <1>3, <1>4, <1>5, <1>6, <1>7 DEF ReceiptsGoOn, Honest, BatchesOK, BatchOK

\* So do loading a receipt that is not completed, forgetting one, and leaving it.
LEMMA LoadGoesOn ==
    ASSUME ReceiptTypes, BatchesOK, NEW b \in Batches, NEW who \in Runs \cup {Owner},
           (Loads(b, who) /\ receipt[b] # "completed") \/ Forgets(b, who) \/ UNCHANGED fresh,
           UNCHANGED <<receipt, late>>
    PROVE  ReceiptsGoOn
  BY DEF ReceiptTypes, BatchesOK, BatchOK, Loads, Forgets, ReceiptsGoOn, Honest

\* Whatever uses nothing but the receipts keeps what a batch rests on.
LEMMA ReceiptsKeep ==
    ASSUME ReceiptTypes, BatchesOK, ReceiptsGoOn, UNCHANGED <<owner, provider>>
    PROVE  Forward /\ ReceiptTypes' /\ BatchesOK'
<1> USE DEF owner, provider
<1>1. Forward
  BY DEF Forward, ReceiptsGoOn
<1>2. ReceiptTypes'
  BY DEF ReceiptTypes, ReceiptsGoOn
<1>3. BatchesOK'
  BY DEF BatchesOK, BatchOK, ReceiptsGoOn, Proven
<1> QED
  BY <1>1, <1>2, <1>3

--------------------------------------------------------------------------------
(* The assess-batch handler.                                                   *)

\* What a step of a task or of a cancellation must show.
Keeps == AssessInv' /\ RunsEndOnly /\ Honest

\* A step by which tasks return.
LEMMA Finishing ==
    ASSUME RunsInv, AssessInv, Same,
           NEW rs \in SUBSET Runs, NEW result, Finish(rs, result),
           \A r \in rs : task[r] # NoTask,
           result = "completed" => \A r \in rs : receipt'[flow[r].batch] = "completed",
           UNCHANGED submitted, Forward, ReceiptTypes', BatchesOK', Honest
    PROVE  Keeps
<1>1. RunTypes' /\ TasksOK' /\ FlowsOK' /\ RunsEndOnly
  BY FinishKeeps DEF AssessInv, Types, Same, keeper
<1>2. StoreTypes'
  BY DEF AssessInv, Types, StoreTypes, Same, store
<1> QED
  BY <1>1, <1>2 DEF Keeps, AssessInv, Types

\* A step by which a task goes on.
LEMMA GoingOn ==
    ASSUME RunsInv, AssessInv, Same, NEW r \in Runs, task[r] # NoTask,
           NEW new, task' = [task EXCEPT ![r] = new],
           new \in [at : {"begin", "recall", "asking", "waiting", "apply", "joined", "hold", "stop"},
                   may : BOOLEAN, submits : BOOLEAN, answer : Answers],
           new.at \in {"asking", "waiting", "apply", "joined", "hold", "stop"} =>
             receipt'[B(r)] # "none",
           new.at = "asking" /\ new.submits => submitted'[B(r)] = 0,
           new.at = "apply" => /\ new.answer \in Answers \ {"none"}
                               /\ new.answer = "completed" => work'[B(r)] = "done"
                               /\ new.answer = "cancelled" => work'[B(r)] = "stopped",
           UNCHANGED <<run, flow>>, Forward, ReceiptTypes', BatchesOK', Honest
    PROVE  Keeps
<1>1. RunTypes'
  BY DEF AssessInv, Types, RunTypes, Same
<1>2. \A q \in Runs : q # r => task'[q] = task[q]
  BY DEF AssessInv, Types, RunTypes
<1>3. TaskOK(r)'
  <2>1. task'[r] = new
    BY DEF AssessInv, Types, RunTypes
  <2>2. run[r] \in {"running", "held"} /\ flow[r].at = "assess"
    BY DEF AssessInv, TasksOK, TaskOK
  <2> QED
    BY <2>1, <2>2 DEF TaskOK, B, Proven
<1>4. TasksOK' /\ FlowsOK' /\ RunsEndOnly
  BY <1>1, <1>2, <1>3, GoesOnKeeps DEF AssessInv, Types, Same, keeper
<1>5. StoreTypes'
  BY DEF AssessInv, Types, StoreTypes, Same, store
<1> QED
  BY <1>1, <1>4, <1>5 DEF Keeps, AssessInv, Types

\* The same of a task that only moves to another place.
LEMMA Continuing ==
    ASSUME RunsInv, AssessInv, Same, NEW r \in Runs, task[r] # NoTask,
           NEW place \in {"recall", "waiting", "joined", "hold", "stop"}, Continue(r, place),
           place # "recall" => receipt'[B(r)] # "none",
           Forward, ReceiptTypes', BatchesOK', Honest
    PROVE  Keeps
<1>1. task' = [task EXCEPT ![r] = task'[r]] /\ UNCHANGED <<run, flow>>
  BY DEF Continue, AssessInv, Types, RunTypes
<1>2. task'[r].at = place
  BY DEF Continue, AssessInv, Types, RunTypes
<1>3. task'[r] \in [at : {"begin", "recall", "asking", "waiting", "apply", "joined", "hold", "stop"},
                   may : BOOLEAN, submits : BOOLEAN, answer : Answers]
  BY DEF Continue, AssessInv, Types, RunTypes
<1> QED
  BY <1>1, <1>2, <1>3, GoingOn

\* What is known of a task at work.
LEMMA AtWork ==
    ASSUME AssessInv, NEW r \in Runs, task[r].at # "none"
    PROVE  /\ task[r] # NoTask /\ B(r) \in Batches
           /\ task[r] \in [at : {"begin", "recall", "asking", "waiting", "apply",
                                "joined", "hold", "stop"},
                          may : BOOLEAN, submits : BOOLEAN, answer : Answers]
<1>1. task[r] # NoTask
  BY DEF NoTask
<1> QED
  BY <1>1, TaskHasBatch DEF AssessInv, Types, RunTypes

\* A step that leaves the receipts, the owners and the provider alone.
LEMMA ReceiptsStill ==
    ASSUME AssessInv, UNCHANGED <<receipts, owner, provider>>
    PROVE  Forward /\ ReceiptTypes' /\ BatchesOK' /\ Honest
<1>1. ReceiptsGoOn
  BY DEF AssessInv, Types, ReceiptTypes, BatchesOK, BatchOK, receipts, ReceiptsGoOn, Honest
<1> QED
  BY <1>1, ReceiptsKeep DEF AssessInv, Types, ReceiptsGoOn

\* The recovery of a cancelled run begins, or throws.
LEMMA BeginsAbortedKeeps ==
    ASSUME RunsInv, AssessInv, NEW r \in Runs, BeginsAborted(r) PROVE Keeps
<1>0. task[r] # NoTask /\ B(r) \in Batches
  BY AtWork DEF BeginsAborted
<1>1. ReceiptsGoOn /\ UNCHANGED <<owner, provider>> /\ Same
  BY <1>0, LoadGoesOn DEF BeginsAborted, AssessInv, Types
<1>2. Forward /\ ReceiptTypes' /\ BatchesOK' /\ Honest
  BY <1>1, ReceiptsKeep DEF AssessInv, Types, ReceiptsGoOn
<1>3. CASE Finish({r}, "thrown")
  BY <1>0, <1>1, <1>2, <1>3, Finishing DEF provider
<1>4. CASE Continue(r, "hold") /\ receipt'[B(r)] # "none"
  BY <1>0, <1>1, <1>2, <1>4, Continuing
<1> QED
  BY <1>3, <1>4 DEF BeginsAborted

\* It publishes its uncertainty.
LEMMA HoldsAbortedKeeps ==
    ASSUME RunsInv, AssessInv, NEW r \in Runs, HoldsAborted(r) PROVE Keeps
<1>0. task[r] # NoTask /\ B(r) \in Batches
  BY AtWork DEF HoldsAborted
<1>1. CASE CanWrite(B(r), r, "uncertain")
  <2>1. Write(B(r), r, "uncertain", {r}) /\ Continue(r, "stop")
        /\ UNCHANGED <<owner, provider>> /\ Same
    BY <1>1 DEF HoldsAborted
  <2>2. ReceiptsGoOn /\ receipt'[B(r)] = "uncertain"
    BY <1>0, <1>1, <2>1, WriteGoesOn DEF AssessInv, Types, ReceiptStates
  <2>3. Forward /\ ReceiptTypes' /\ BatchesOK' /\ Honest
    BY <2>1, <2>2, ReceiptsKeep DEF AssessInv, Types, ReceiptsGoOn
  <2> QED
    BY <1>0, <2>1, <2>2, <2>3, Continuing
<1>2. CASE ~CanWrite(B(r), r, "uncertain")
  <2>1. Finish({r}, "thrown") /\ UNCHANGED receipts /\ UNCHANGED <<owner, provider>> /\ Same
    BY <1>2 DEF HoldsAborted
  <2> QED
    BY <1>0, <2>1, ReceiptsStill, Finishing DEF provider
<1> QED
  BY <1>1, <1>2

\* A task gathers its evidence.
LEMMA GathersKeeps ==
    ASSUME RunsInv, AssessInv, NEW r \in Runs, Gathers(r) PROVE Keeps
<1>0. task[r] # NoTask /\ UNCHANGED <<receipts, owner, provider>> /\ Same
  BY AtWork DEF Gathers
<1>1. CASE Continue(r, "recall")
  BY <1>0, <1>1, ReceiptsStill, Continuing
<1>2. ASSUME NEW result \in {"too_large", "blocked"}, Finish({r}, result) PROVE Keeps
  BY <1>0, <1>2, ReceiptsStill, Finishing DEF provider
<1> QED
  BY <1>1, <1>2 DEF Gathers

\* The dispatched task is its run's first.
LEMMA DispatchKeeps ==
    ASSUME RunsInv, AssessInv, NEW r \in Runs, Dispatch(r) PROVE Keeps
<1>0. /\ At(r, "assess") /\ UNCHANGED <<run, receipts, owner, provider>> /\ Same
      /\ flow' = [flow EXCEPT ![r].tried = TRUE]
      /\ task' = [task EXCEPT ![r] = [NoTask EXCEPT !.at = "begin", !.may = ~flow[r].tried]]
  BY DEF Dispatch
<1>1. Forward /\ ReceiptTypes' /\ BatchesOK' /\ Honest
  BY <1>0, ReceiptsStill
<1>2. RunTypes'
  BY <1>0 DEF AssessInv, Types, RunTypes, Same, NoTask, Answers
<1>3. RunsEndOnly
  BY <1>0 DEF RunsEndOnly, RunsInv, CoordinatorTypeOK, Same, keeper
<1>4. ASSUME NEW q \in Runs PROVE TaskOK(q)' /\ FlowOK(q)'
  <2>1. CASE q = r
    BY <1>0, <2>1 DEF AssessInv, Types, RunTypes, FlowsOK, TaskOK, FlowOK, At, NoTask, B
  <2>2. CASE q # r
    <3>1. flow'[q] = flow[q] /\ task'[q] = task[q]
      BY <1>0, <2>2 DEF AssessInv, Types, RunTypes
    <3> QED
      BY <1>0, <1>1, <3>1, StillKeeps DEF AssessInv, provider
  <2> QED
    BY <2>1, <2>2
<1>5. StoreTypes'
  BY <1>0 DEF AssessInv, Types, StoreTypes, Same, store
<1> QED
  BY <1>1, <1>2, <1>3, <1>4, <1>5 DEF Keeps, AssessInv, Types, TasksOK, FlowsOK

\* A task that has looked at its receipt asks.
LEMMA AsksNextKeeps ==
    ASSUME RunsInv, AssessInv, Same, NEW r \in Runs, task[r] # NoTask, AsksNext(r),
           receipt'[B(r)] # "none", CreatesIntent(r) => submitted[B(r)] = 0,
           UNCHANGED submitted, Forward, ReceiptTypes', BatchesOK', Honest
    PROVE  Keeps
<1>1. task' = [task EXCEPT ![r] = task'[r]] /\ UNCHANGED <<run, flow>>
  BY DEF AsksNext, AssessInv, Types, RunTypes
<1>2. task'[r].at = "asking" /\ (task'[r].submits => CreatesIntent(r))
  BY DEF AsksNext, AssessInv, Types, RunTypes
<1>3. task'[r] \in [at : {"begin", "recall", "asking", "waiting", "apply", "joined", "hold", "stop"},
                   may : BOOLEAN, submits : BOOLEAN, answer : Answers]
  BY DEF AsksNext, CreatesIntent, AssessInv, Types, RunTypes
<1> QED
  BY <1>1, <1>2, <1>3, GoingOn

\* A task looks at the receipt, and writes the intent that is not there.
LEMMA RecallsKeeps ==
    ASSUME RunsInv, AssessInv, NEW r \in Runs, Recalls(r) PROVE Keeps
<1>0. /\ task[r] # NoTask /\ B(r) \in Batches /\ UNCHANGED <<owner, provider>> /\ Same
      /\ receipt[B(r)] = "none" => submitted[B(r)] = 0
  BY AtWork DEF Recalls, AssessInv, BatchesOK, BatchOK
<1>1. CASE /\ receipt[B(r)] = "none" /\ task[r].may
           /\ Write(B(r), r, "intent", {r}) /\ AsksNext(r)
  <2>1. fresh' = [fresh EXCEPT ![B(r)] = (IF r \in fresh[B(r)] THEN {} ELSE fresh[B(r)]) \cup {r}]
        /\ receipt' = [receipt EXCEPT ![B(r)] = "intent"] /\ late' = late
    BY <1>1 DEF Write, Holds
  <2>2. ReceiptsGoOn /\ receipt'[B(r)] = "intent"
    BY <1>0, <1>1, <2>1 DEF ReceiptsGoOn, Honest, AssessInv, Types, ReceiptTypes, ReceiptStates,
                            BatchesOK, BatchOK
  <2>3. Forward /\ ReceiptTypes' /\ BatchesOK' /\ Honest
    BY <1>0, <2>2, ReceiptsKeep DEF AssessInv, Types, ReceiptsGoOn
  <2> QED
    BY <1>0, <1>1, <2>2, <2>3, AsksNextKeeps DEF provider
<1>2. CASE Finish({r}, "thrown") /\ UNCHANGED receipts
  BY <1>0, <1>2, ReceiptsStill, Finishing DEF provider
<1>3. CASE receipt[B(r)] = "completed" /\ Finish({r}, "completed") /\ UNCHANGED receipts
  <2>1. receipt'[flow[r].batch] = "completed"
    BY <1>3 DEF B, receipts
  <2> QED
    BY <1>0, <1>3, <2>1, ReceiptsStill, Finishing DEF provider
<1>4. CASE /\ receipt[B(r)] \notin {"none", "completed"}
           /\ AsksNext(r) /\ Loads(B(r), r) /\ UNCHANGED <<receipt, late>>
  <2>1. ReceiptsGoOn
    BY <1>0, <1>4, LoadGoesOn DEF AssessInv, Types
  <2>2. Forward /\ ReceiptTypes' /\ BatchesOK' /\ Honest
    BY <1>0, <2>1, ReceiptsKeep DEF AssessInv, Types, ReceiptsGoOn
  <2> QED
    BY <1>0, <1>4, <2>2, AsksNextKeeps DEF provider, CreatesIntent
<1>5. CASE Finish({r}, "blocked") /\ UNCHANGED receipts
  BY <1>0, <1>5, ReceiptsStill, Finishing DEF provider
<1> QED
  BY <1>1, <1>2, <1>3, <1>4, <1>5 DEF Recalls

\* Nothing is submitted twice: the task that submits has found nothing submitted.
LEMMA AsksProviderKeeps ==
    ASSUME RunsInv, AssessInv, NEW r \in Runs, AsksProvider(r) PROVE Keeps
<1>0. /\ task[r] # NoTask /\ B(r) \in Batches /\ UNCHANGED <<receipts, owner>> /\ Same
      /\ receipt[B(r)] # "none" /\ Continue(r, "waiting")
      /\ task[r].submits => submitted[B(r)] = 0
  BY AtWork DEF AsksProvider, AssessInv, TasksOK, TaskOK
<1>1. CASE ~task[r].submits
  <2>1. UNCHANGED provider
    BY <1>1 DEF AsksProvider
  <2>2. receipt'[B(r)] # "none"
    BY <1>0 DEF receipts
  <2> QED
    BY <1>0, <2>1, <2>2, ReceiptsStill, Continuing
<1>2. CASE task[r].submits
  <2>1. /\ submitted' = [submitted EXCEPT ![B(r)] = @ + 1]
        /\ work' = [work EXCEPT ![B(r)] = "asked"]
    BY <1>2 DEF AsksProvider
  <2>2. submitted[B(r)] = 0 /\ work[B(r)] = "none"
    BY <1>0, <1>2 DEF AssessInv, BatchesOK, BatchOK
  <2>3. Forward
    BY <1>0, <2>1, <2>2 DEF Forward, receipts, AssessInv, Types, ReceiptTypes
  <2>4. ReceiptTypes'
    BY <1>0, <2>1, <2>2 DEF AssessInv, Types, ReceiptTypes, WorkStates, receipts, owner
  <2>5. ASSUME NEW b \in Batches PROVE BatchOK(b)'
    BY <1>0, <2>1, <2>2
    DEF AssessInv, Types, ReceiptTypes, BatchesOK, BatchOK, Proven, receipts, owner
  <2>6. Honest
    BY <1>0 DEF Honest, receipts
  <2>7. receipt'[B(r)] # "none"
    BY <1>0 DEF receipts
  <2> QED
    BY <1>0, <2>3, <2>4, <2>5, <2>6, <2>7, Continuing DEF BatchesOK
<1> QED
  BY <1>1, <1>2

\* An answer is heard as the work is: what is over stays over.
LEMMA RepliesProven ==
    ASSUME NEW b, NEW submits, NEW answer \in Replies(b, submits)
    PROVE  Proven(b, answer) /\ answer \in {"uncertain", "running", "completed", "cancelled", "refused"}
  BY DEF Replies, Proven, Answers

\* A task hears an answer.
LEMMA HearsKeeps ==
    ASSUME RunsInv, AssessInv, NEW r \in Runs, Hears(r) PROVE Keeps
<1>0. /\ task[r] # NoTask /\ B(r) \in Batches
      /\ UNCHANGED <<run, flow, receipts, owner, provider>> /\ Same
      /\ receipt[B(r)] # "none" /\ receipt'[B(r)] # "none"
  BY AtWork DEF Hears, AssessInv, TasksOK, TaskOK, receipts
<1>1. PICK answer \in Replies(B(r), task[r].submits) :
        task' = [task EXCEPT ![r].at = "apply", ![r].answer = answer]
  BY DEF Hears
<1>2. Proven(B(r), answer)
  BY RepliesProven
<1>3. /\ task' = [task EXCEPT ![r] = task'[r]] /\ task'[r].at = "apply"
      /\ task'[r].answer = answer
      /\ task'[r] \in [at : {"begin", "recall", "asking", "waiting", "apply", "joined", "hold", "stop"},
                       may : BOOLEAN, submits : BOOLEAN, answer : Answers]
  BY <1>1, <1>2 DEF AssessInv, Types, RunTypes, Proven
<1>4. Forward /\ ReceiptTypes' /\ BatchesOK' /\ Honest
  BY <1>0, ReceiptsStill
<1> QED
  BY <1>0, <1>2, <1>3, <1>4, GoingOn DEF Proven, provider

\* A task joins the cancellation of its batch.
LEMMA GivesUpKeeps ==
    ASSUME RunsInv, AssessInv, NEW r \in Runs, GivesUp(r) PROVE Keeps
<1>0. /\ task[r] # NoTask /\ B(r) \in Batches /\ receipt[B(r)] # "none"
      /\ Continue(r, "joined") /\ Forgets(B(r), r) /\ Cancelling(B(r))
      /\ UNCHANGED <<receipt, late, listener, provider>> /\ Same
  BY AtWork DEF GivesUp, AssessInv, TasksOK, TaskOK
<1>1. ReceiptsGoOn
  BY <1>0, LoadGoesOn DEF AssessInv, Types
<1>2. Forward
  BY <1>0, <1>1 DEF Forward, ReceiptsGoOn, provider
<1>3. ReceiptTypes'
  BY <1>0, <1>1 DEF AssessInv, Types, ReceiptTypes, ReceiptsGoOn, provider, Cancelling
<1>4. ASSUME NEW b \in Batches PROVE BatchOK(b)'
  BY <1>0, <1>1
  DEF AssessInv, Types, ReceiptTypes, BatchesOK, BatchOK, ReceiptsGoOn, Proven, provider,
      Cancelling, NoCancel
<1> QED
  BY <1>0, <1>1, <1>2, <1>3, <1>4, Continuing DEF BatchesOK, ReceiptsGoOn

\* The receipt that an answer leaves is one the answer has proved.
LEMMA AppliedProven ==
    ASSUME NEW b, NEW answer, Proven(b, answer), UNCHANGED work
    PROVE  /\ Applied(answer) \in ReceiptStates \ {"none"}
           /\ Applied(answer) = "completed" => work'[b] = "done" /\ answer = "completed"
           /\ Applied(answer) = "cancelled" => work'[b] = "stopped"
           /\ Result(answer) = "completed" => Applied(answer) = "completed"
  BY DEF Proven, Applied, Result, Answers, ReceiptStates

\* A task applies its answer.
LEMMA AppliesKeeps ==
    ASSUME RunsInv, AssessInv, NEW r \in Runs, Applies(r) PROVE Keeps
<1> DEFINE answer == task[r].answer
<1>0. /\ task[r] # NoTask /\ B(r) \in Batches /\ receipt[B(r)] # "none"
      /\ Proven(B(r), answer) /\ UNCHANGED provider /\ Same
  BY AtWork DEF Applies, AssessInv, TasksOK, TaskOK
<1>1. UNCHANGED <<work, submitted>>
  BY <1>0 DEF provider
<1>2. \E result : /\ Finish({r}, result)
                  /\ result = "completed" => receipt'[B(r)] = "completed"
                  /\ ReceiptsGoOn
  <2>1. CASE CanWrite(B(r), r, Applied(answer))
    <3>1. Write(B(r), r, Applied(answer), {}) /\ Finish({r}, Result(answer))
      BY <2>1 DEF Applies
    <3>2. ReceiptsGoOn /\ receipt'[B(r)] = Applied(answer)
      BY <1>0, <1>1, <2>1, <3>1, AppliedProven, WriteGoesOn DEF AssessInv, Types
    <3> QED
      BY <1>0, <1>1, <3>1, <3>2, AppliedProven
  <2>2. CASE ~CanWrite(B(r), r, Applied(answer))
    <3>1. Finish({r}, "thrown") /\ UNCHANGED receipts
      BY <2>2 DEF Applies
    <3>2. ReceiptsGoOn
      BY <1>0, <3>1, LoadGoesOn DEF AssessInv, Types, receipts
    <3> QED
      BY <3>1, <3>2
  <2> QED
    BY <2>1, <2>2
<1>3. Forward
  BY <1>1, <1>2 DEF Forward, ReceiptsGoOn
<1>4. /\ listener' \in {listener, [listener EXCEPT ![B(r)] = 0], [listener EXCEPT ![B(r)] = r]}
      /\ UNCHANGED cancel \/ Cancelling(B(r))
  <2>1. CASE Final(answer)
    BY <2>1 DEF Applies
  <2>2. CASE ~Final(answer)
    BY <2>2 DEF Applies, owner
  <2> QED
    BY <2>1, <2>2
<1>5. ReceiptTypes'
  <2>1. ReceiptsGoOn
    BY <1>2
  <2>2. listener' \in [Batches -> Runs \cup {0}]
    BY <1>0, <1>4 DEF AssessInv, Types, ReceiptTypes
  <2>3. cancel' \in [Batches -> [at : {"none", "load", "hold", "ask", "reconcile", "apply"},
                                answer : Answers]]
    BY <1>0, <1>4 DEF AssessInv, Types, ReceiptTypes, Cancelling
  <2> QED
    BY <1>1, <2>1, <2>2, <2>3 DEF AssessInv, Types, ReceiptTypes, ReceiptsGoOn
<1>6. ASSUME NEW b \in Batches PROVE BatchOK(b)'
  BY <1>0, <1>1, <1>2, <1>4
  DEF AssessInv, Types, ReceiptTypes, BatchesOK, BatchOK, ReceiptsGoOn, Proven, NoCancel,
      Cancelling
<1>7. BatchesOK' /\ Honest
  BY <1>2, <1>6 DEF BatchesOK, ReceiptsGoOn
<1>8. PICK result : /\ Finish({r}, result)
                    /\ result = "completed" => receipt'[flow[r].batch] = "completed"
  BY <1>2 DEF B
<1> QED
  BY <1>0, <1>1, <1>3, <1>5, <1>7, <1>8, Finishing

--------------------------------------------------------------------------------
(* Cancelling an assessment, the provider, and the host.                       *)

\* An answer to a cancellation, and the work as it leaves it.
LEMMA StopsProven ==
    ASSUME NEW b, NEW answer \in StopAnswers, NEW after \in WorkStates, Stops(b, answer, after)
    PROVE  /\ work[b] \in {"done", "stopped"} => after = work[b]
           /\ answer = "cancelled" => after = "stopped"
           /\ work[b] = "none" => after = "none"
  BY DEF Stops, StopAnswers, WorkStates

\* The steps of the owners and of the provider keep what a batch rests on.
LEMMA SidesKeep ==
    ASSUME AssessInv, ReceiptsGoOn, UNCHANGED submitted,
           listener' \in [Batches -> Runs \cup {0}], work' \in [Batches -> WorkStates],
           cancel' \in [Batches -> [at : {"none", "load", "hold", "ask", "reconcile", "apply"},
                                   answer : Answers]],
           \A b \in Batches :
             /\ work[b] \in {"none", "done", "stopped"} => work'[b] = work[b]
             /\ receipt'[b] = "none" => listener'[b] = 0 /\ cancel'[b] = NoCancel
             /\ cancel'[b].at = "apply" => cancel'[b] = cancel[b] \/ Proven(b, cancel[b].answer)'
    PROVE  Forward /\ ReceiptTypes' /\ BatchesOK' /\ Honest
<1>1. Forward
  BY DEF Forward, ReceiptsGoOn
<1>2. ReceiptTypes'
  BY DEF AssessInv, Types, ReceiptTypes, ReceiptsGoOn
<1>3. ASSUME NEW b \in Batches PROVE BatchOK(b)'
  <2>1. BatchOK(b)
    BY DEF AssessInv, BatchesOK
  <2>2. work[b] \in {"none", "done", "stopped"} => work'[b] = work[b]
    OBVIOUS
  <2>3. cancel'[b].at = "apply" => Proven(b, cancel[b].answer)'
    BY <2>1, <2>2 DEF BatchOK, Proven
  <2> QED
    BY <2>1, <2>2, <2>3 DEF BatchOK, ReceiptsGoOn
<1> QED
  BY <1>1, <1>2, <1>3 DEF BatchesOK, ReceiptsGoOn

\* So do those that change the work of one batch and leave the owners alone.
LEMMA WorkKeeps ==
    ASSUME AssessInv, ReceiptsGoOn, UNCHANGED <<submitted, owner>>,
           NEW b \in Batches, NEW after \in WorkStates, work' = [work EXCEPT ![b] = after],
           work[b] \in {"none", "done", "stopped"} => after = work[b]
    PROVE  Forward /\ ReceiptTypes' /\ BatchesOK' /\ Honest
<1>1. /\ listener' \in [Batches -> Runs \cup {0}] /\ work' \in [Batches -> WorkStates]
      /\ cancel' \in [Batches -> [at : {"none", "load", "hold", "ask", "reconcile", "apply"},
                                  answer : Answers]]
  BY DEF AssessInv, Types, ReceiptTypes, owner
<1>2. ASSUME NEW c \in Batches
      PROVE  /\ work[c] \in {"none", "done", "stopped"} => work'[c] = work[c]
             /\ receipt'[c] = "none" => listener'[c] = 0 /\ cancel'[c] = NoCancel
             /\ cancel'[c] = cancel[c]
  BY DEF AssessInv, Types, ReceiptTypes, BatchesOK, BatchOK, ReceiptsGoOn, owner
<1> QED
  BY <1>1, <1>2, SidesKeep

\* A step that moves no run and no task.
LEMMA NoTaskMoves ==
    ASSUME RunsInv, AssessInv, Same, UNCHANGED <<run, flow, task, submitted>>,
           Forward, ReceiptTypes', BatchesOK', Honest
    PROVE  Keeps
<1>1. RunTypes' /\ StoreTypes'
  BY DEF AssessInv, Types, RunTypes, StoreTypes, Same, store
<1>2. RunsEndOnly
  BY DEF RunsEndOnly, RunsInv, CoordinatorTypeOK, Same, keeper
<1>3. ASSUME NEW q \in Runs PROVE TaskOK(q)' /\ FlowOK(q)'
  BY StillKeeps DEF AssessInv
<1> QED
  BY <1>1, <1>2, <1>3 DEF Keeps, AssessInv, Types, TasksOK, FlowsOK

\* A cancellation that settles lets its tasks return.
LEMMA CancelEndsKeeps ==
    ASSUME RunsInv, AssessInv, Same, NEW b \in Batches, NEW result, CancelEnds(b, result),
           result = "completed" => receipt'[b] = "completed",
           UNCHANGED submitted, Forward, ReceiptTypes', BatchesOK', Honest
    PROVE  Keeps
<1> DEFINE rs == {r \in Runs : task[r].at = "joined" /\ B(r) = b}
<1>1. rs \in SUBSET Runs /\ Finish(rs, result)
  BY DEF CancelEnds
<1>2. \A r \in rs : task[r] # NoTask
  BY DEF NoTask
<1>3. result = "completed" => \A r \in rs : receipt'[flow[r].batch] = "completed"
  BY DEF B
<1> HIDE DEF rs
<1> QED
  BY <1>1, <1>2, <1>3, Finishing

\* The recovery of a cancelled run asks the provider to cancel.
LEMMA StopsAbortedKeeps ==
    ASSUME RunsInv, AssessInv, NEW r \in Runs, StopsAborted(r) PROVE Keeps
<1>0. /\ task[r] # NoTask /\ B(r) \in Batches /\ receipt[B(r)] # "none"
      /\ UNCHANGED <<submitted, owner>> /\ Same
  BY AtWork DEF StopsAborted, AssessInv, TasksOK, TaskOK
<1>1. PICK answer \in StopAnswers, after \in WorkStates :
        /\ Stops(B(r), answer, after)
        /\ work' = [work EXCEPT ![B(r)] = after]
        /\ IF answer = "cancelled" /\ CanWrite(B(r), r, "cancelled")
           THEN Write(B(r), r, "cancelled", {}) /\ Finish({r}, "blocked")
           ELSE Finish({r}, "uncertain") /\ Forgets(B(r), r) /\ UNCHANGED <<receipt, late>>
  BY DEF StopsAborted
<1>2. /\ work[B(r)] \in {"none", "done", "stopped"} => after = work[B(r)]
      /\ answer = "cancelled" => after = "stopped"
      /\ work'[B(r)] = after
  BY <1>0, <1>1, StopsProven DEF AssessInv, Types, ReceiptTypes
<1>3. CASE answer = "cancelled" /\ CanWrite(B(r), r, "cancelled")
  <2>1. ReceiptsGoOn
    BY <1>0, <1>1, <1>2, <1>3, WriteGoesOn DEF AssessInv, Types, ReceiptStates
  <2>2. Forward /\ ReceiptTypes' /\ BatchesOK' /\ Honest
    BY <1>0, <1>1, <1>2, <2>1, WorkKeeps
  <2>3. Finish({r}, "blocked")
    BY <1>1, <1>3
  <2> QED
    BY <1>0, <2>2, <2>3, Finishing
<1>4. CASE ~(answer = "cancelled" /\ CanWrite(B(r), r, "cancelled"))
  <2>1. ReceiptsGoOn
    BY <1>0, <1>1, <1>4, LoadGoesOn DEF AssessInv, Types
  <2>2. Forward /\ ReceiptTypes' /\ BatchesOK' /\ Honest
    BY <1>0, <1>1, <1>2, <2>1, WorkKeeps
  <2>3. Finish({r}, "uncertain")
    BY <1>1, <1>4
  <2> QED
    BY <1>0, <2>2, <2>3, Finishing
<1> QED
  BY <1>3, <1>4

\* A cancellation under way concerns a receipt that was written.
LEMMA AtCancel ==
    ASSUME AssessInv, NEW b \in Batches, cancel[b].at # "none" \/ listener[b] # 0
    PROVE  receipt[b] # "none"
  BY DEF AssessInv, BatchesOK, BatchOK, NoCancel

\* A cancellation that goes on.
LEMMA CancelGoesKeeps ==
    ASSUME AssessInv, ReceiptsGoOn, NEW b \in Batches, receipt[b] # "none",
           NEW place \in {"hold", "ask", "reconcile", "apply"}, NEW answer \in Answers,
           CancelGoes(b, place, answer), UNCHANGED submitted,
           listener' \in {listener, [listener EXCEPT ![b] = 0]},
           NEW after \in WorkStates, work' = [work EXCEPT ![b] = after],
           work[b] \in {"none", "done", "stopped"} => after = work[b],
           place = "apply" => Proven(b, answer)'
    PROVE  Forward /\ ReceiptTypes' /\ BatchesOK' /\ Honest
<1>1. cancel' = [cancel EXCEPT ![b] = [at |-> place, answer |-> answer]]
  BY DEF CancelGoes
<1>2. listener' \in [Batches -> Runs \cup {0}] /\ work' \in [Batches -> WorkStates]
  BY DEF AssessInv, Types, ReceiptTypes
<1>3. cancel' \in [Batches -> [at : {"none", "load", "hold", "ask", "reconcile", "apply"},
                              answer : Answers]]
  BY <1>1 DEF AssessInv, Types, ReceiptTypes
<1>4. ASSUME NEW c \in Batches
      PROVE  /\ work[c] \in {"none", "done", "stopped"} => work'[c] = work[c]
             /\ receipt'[c] = "none" => listener'[c] = 0 /\ cancel'[c] = NoCancel
             /\ cancel'[c].at = "apply" => cancel'[c] = cancel[c] \/ Proven(c, cancel[c].answer)'
  <2>1. CASE c = b
    <3>1. cancel'[b].at = place /\ cancel'[b].answer = answer
      BY <1>1 DEF AssessInv, Types, ReceiptTypes
    <3> QED
      BY <2>1, <3>1 DEF AssessInv, Types, ReceiptTypes, ReceiptsGoOn, Proven
  <2>2. CASE c # b
    BY <1>1, <2>2 DEF AssessInv, Types, ReceiptTypes, BatchesOK, BatchOK, ReceiptsGoOn
  <2> QED
    BY <2>1, <2>2
<1> QED
  BY <1>2, <1>3, <1>4, SidesKeep

\* A cancellation that ends.
LEMMA CancelDone ==
    ASSUME AssessInv, ReceiptsGoOn, NEW b \in Batches, NEW result, CancelEnds(b, result),
           UNCHANGED provider, listener' \in {listener, [listener EXCEPT ![b] = 0]}
    PROVE  Forward /\ ReceiptTypes' /\ BatchesOK' /\ Honest
<1>1. cancel' = [cancel EXCEPT ![b] = NoCancel]
  BY DEF CancelEnds
<1>2. /\ listener' \in [Batches -> Runs \cup {0}] /\ work' \in [Batches -> WorkStates]
      /\ cancel' \in [Batches -> [at : {"none", "load", "hold", "ask", "reconcile", "apply"},
                                  answer : Answers]]
  BY <1>1 DEF AssessInv, Types, ReceiptTypes, provider, NoCancel, Answers
<1>3. ASSUME NEW c \in Batches
      PROVE  /\ work'[c] = work[c]
             /\ receipt'[c] = "none" => listener'[c] = 0 /\ cancel'[c] = NoCancel
             /\ cancel'[c].at = "apply" => cancel'[c] = cancel[c]
  BY <1>1 DEF AssessInv, Types, ReceiptTypes, BatchesOK, BatchOK, ReceiptsGoOn, provider, NoCancel
<1>4. UNCHANGED submitted
  BY DEF provider
<1> QED
  BY <1>2, <1>3, <1>4, SidesKeep

\* Work that nobody changes.
LEMMA WorkStill ==
    ASSUME AssessInv, NEW b \in Batches, UNCHANGED provider
    PROVE  /\ work[b] \in WorkStates /\ work' = [work EXCEPT ![b] = work[b]]
           /\ UNCHANGED <<work, submitted>>
  BY DEF AssessInv, Types, ReceiptTypes, provider

\* A cancellation loads the receipt, or has nothing left to do.
LEMMA CancelLoadsKeeps ==
    ASSUME RunsInv, AssessInv, NEW b \in Batches, CancelLoads(b) PROVE Keeps
<1>0. /\ receipt[b] # "none" /\ UNCHANGED <<receipt, late, provider>> /\ Same
      /\ listener' \in {listener, [listener EXCEPT ![b] = 0]}
      /\ UNCHANGED <<work, submitted>>
  BY AtCancel DEF CancelLoads, CancelAt, provider
<1>1. ReceiptsGoOn
  BY <1>0, LoadGoesOn DEF CancelLoads, AssessInv, Types
<1>2. CASE receipt[b] \in {"completed", "cancelled"}
  <2>1. CancelEnds(b, Result(receipt[b])) /\ (Result(receipt[b]) = "completed" => receipt[b] = "completed")
    BY <1>2 DEF CancelLoads, Result
  <2> QED
    BY <1>0, <1>1, <2>1, CancelDone, CancelEndsKeeps
<1>3. CASE receipt[b] \notin {"completed", "cancelled"}
  <2>1. CancelGoes(b, "hold", "none") /\ UNCHANGED <<run, flow, task>>
    BY <1>3 DEF CancelLoads, CancelGoes
  <2>2. Forward /\ ReceiptTypes' /\ BatchesOK' /\ Honest
    BY <1>0, <1>1, <2>1, WorkStill, CancelGoesKeeps DEF Answers
  <2> QED
    BY <1>0, <2>1, <2>2, NoTaskMoves
<1> QED
  BY <1>2, <1>3

\* It publishes its uncertainty.
LEMMA CancelHoldsKeeps ==
    ASSUME RunsInv, AssessInv, NEW b \in Batches, CancelHolds(b) PROVE Keeps
<1>0. /\ receipt[b] # "none" /\ UNCHANGED <<listener, provider>> /\ Same
      /\ UNCHANGED <<work, submitted>>
  BY AtCancel DEF CancelHolds, CancelAt, provider
<1>1. CASE CanWrite(b, Owner, "uncertain")
  <2>1. /\ Write(b, Owner, "uncertain", {Owner}) /\ CancelGoes(b, "ask", "none")
        /\ UNCHANGED <<run, flow, task>>
    BY <1>1 DEF CancelHolds, CancelGoes
  <2>2. ReceiptsGoOn
    BY <1>1, <2>1, WriteGoesOn DEF AssessInv, Types, ReceiptStates
  <2>3. Forward /\ ReceiptTypes' /\ BatchesOK' /\ Honest
    BY <1>0, <2>1, <2>2, WorkStill, CancelGoesKeeps DEF Answers
  <2> QED
    BY <1>0, <2>1, <2>3, NoTaskMoves
<1>2. CASE ~CanWrite(b, Owner, "uncertain")
  <2>1. CancelEnds(b, "thrown") /\ UNCHANGED receipts
    BY <1>2 DEF CancelHolds
  <2>2. ReceiptsGoOn
    BY <2>1, LoadGoesOn DEF AssessInv, Types, receipts
  <2> QED
    BY <1>0, <2>1, <2>2, CancelDone, CancelEndsKeeps
<1> QED
  BY <1>1, <1>2

\* It asks the provider.
LEMMA CancelAsksKeeps ==
    ASSUME RunsInv, AssessInv, NEW b \in Batches, CancelAsks(b) PROVE Keeps
<1>0. receipt[b] # "none" /\ UNCHANGED <<submitted, listener, receipts>> /\ Same
  BY AtCancel DEF CancelAsks, CancelAt
<1>1. PICK answer \in StopAnswers, after \in WorkStates :
        /\ Stops(b, answer, after)
        /\ work' = [work EXCEPT ![b] = after]
        /\ IF answer = "too_late" THEN CancelGoes(b, "reconcile", "none")
           ELSE CancelGoes(b, "apply", answer)
  BY DEF CancelAsks
<1>2. /\ work[b] \in {"none", "done", "stopped"} => after = work[b]
      /\ answer = "cancelled" => after = "stopped"
      /\ work'[b] = after
  BY <1>1, StopsProven DEF AssessInv, Types, ReceiptTypes
<1>3. ReceiptsGoOn
  BY <1>0, LoadGoesOn DEF AssessInv, Types, receipts
<1>4. UNCHANGED <<run, flow, task>>
  BY <1>1 DEF CancelGoes
<1>5. Forward /\ ReceiptTypes' /\ BatchesOK' /\ Honest
  <2>1. CASE answer = "too_late"
    BY <1>0, <1>1, <1>2, <1>3, <2>1, CancelGoesKeeps DEF Answers
  <2>2. CASE answer # "too_late"
    <3>1. CancelGoes(b, "apply", answer) /\ answer \in Answers /\ Proven(b, answer)'
      BY <1>1, <1>2, <2>2 DEF StopAnswers, Answers, Proven
    <3> QED
      BY <1>0, <1>1, <1>2, <1>3, <3>1, CancelGoesKeeps
  <2> QED
    BY <2>1, <2>2
<1> QED
  BY <1>0, <1>4, <1>5, NoTaskMoves

\* It asks what became of work that it came too late for.
LEMMA CancelReconcilesKeeps ==
    ASSUME RunsInv, AssessInv, NEW b \in Batches, CancelReconciles(b) PROVE Keeps
<1>0. /\ receipt[b] # "none" /\ UNCHANGED <<listener, receipts, provider>> /\ Same
      /\ UNCHANGED <<work, submitted>>
  BY AtCancel DEF CancelReconciles, CancelAt, provider
<1>1. PICK answer \in Replies(b, FALSE) :
        CancelGoes(b, "apply", IF answer \in {"completed", "cancelled"} THEN answer ELSE "uncertain")
  BY DEF CancelReconciles
<1> DEFINE heard == IF answer \in {"completed", "cancelled"} THEN answer ELSE "uncertain"
<1>2. heard \in Answers /\ Proven(b, heard)'
  BY <1>0, RepliesProven DEF Proven, Answers
<1>3. ReceiptsGoOn
  BY <1>0, LoadGoesOn DEF AssessInv, Types, receipts
<1>4. CancelGoes(b, "apply", heard) /\ UNCHANGED <<run, flow, task>>
  BY <1>1 DEF CancelGoes
<1> HIDE DEF heard
<1>5. Forward /\ ReceiptTypes' /\ BatchesOK' /\ Honest
  BY <1>0, <1>2, <1>3, <1>4, WorkStill, CancelGoesKeeps
<1> QED
  BY <1>0, <1>4, <1>5, NoTaskMoves

\* It applies the answer.
LEMMA CancelAppliesKeeps ==
    ASSUME RunsInv, AssessInv, NEW b \in Batches, CancelApplies(b) PROVE Keeps
<1> DEFINE answer == cancel[b].answer
<1>0. /\ receipt[b] # "none" /\ UNCHANGED provider /\ Same /\ UNCHANGED <<work, submitted>>
      /\ Proven(b, answer) /\ listener' \in {listener, [listener EXCEPT ![b] = 0]}
  BY AtCancel DEF CancelApplies, CancelAt, provider, AssessInv, BatchesOK, BatchOK
<1>1. CASE CanWrite(b, Owner, Applied(answer))
  <2>1. Write(b, Owner, Applied(answer), {}) /\ CancelEnds(b, Result(answer))
    BY <1>1 DEF CancelApplies
  <2>2. ReceiptsGoOn /\ receipt'[b] = Applied(answer)
    BY <1>0, <1>1, <2>1, AppliedProven, WriteGoesOn DEF AssessInv, Types
  <2>3. Result(answer) = "completed" => receipt'[b] = "completed"
    BY <1>0, <2>2, AppliedProven
  <2> QED
    BY <1>0, <2>1, <2>2, <2>3, CancelDone, CancelEndsKeeps
<1>2. CASE ~CanWrite(b, Owner, Applied(answer))
  <2>1. CancelEnds(b, "thrown") /\ UNCHANGED receipts
    BY <1>2 DEF CancelApplies
  <2>2. ReceiptsGoOn
    BY <2>1, LoadGoesOn DEF AssessInv, Types, receipts
  <2> QED
    BY <1>0, <2>1, <2>2, CancelDone, CancelEndsKeeps
<1> QED
  BY <1>1, <1>2

\* The provider works.
LEMMA ProvidesKeeps ==
    ASSUME RunsInv, AssessInv, NEW b \in Batches, Provides(b) PROVE Keeps
<1>0. UNCHANGED <<run, flow, task, submitted, receipts, owner>> /\ Same
  BY DEF Provides
<1>1. ReceiptsGoOn
  BY <1>0, LoadGoesOn DEF AssessInv, Types, receipts
<1>2. PICK after \in {"live", "refused", "done"} :
        work' = [work EXCEPT ![b] = after] /\ work[b] \in {"asked", "live"}
  BY DEF Provides, Accepts, Refuses, Completes
<1>3. Forward /\ ReceiptTypes' /\ BatchesOK' /\ Honest
  BY <1>0, <1>1, <1>2, WorkKeeps DEF WorkStates
<1> QED
  BY <1>0, <1>3, NoTaskMoves

\* A deadline passes.
LEMMA ExpiresKeeps ==
    ASSUME RunsInv, AssessInv, NEW b \in Batches, Expires(b) PROVE Keeps
<1>0. /\ UNCHANGED <<run, flow, task, receipt, fresh, owner, provider>> /\ Same
      /\ late' = late \cup {b}
  BY DEF Expires
<1>1. ReceiptsGoOn
  BY <1>0 DEF AssessInv, Types, ReceiptTypes, BatchesOK, BatchOK, ReceiptsGoOn, Honest
<1>2. Forward /\ ReceiptTypes' /\ BatchesOK' /\ Honest
  BY <1>0, <1>1, ReceiptsKeep DEF AssessInv, Types, ReceiptsGoOn
<1> QED
  BY <1>0, <1>2, NoTaskMoves DEF provider

\* A run is cancelled.
LEMMA AbortKeeps ==
    ASSUME RunsInv, AssessInv, NEW r \in Runs, Abort(r) PROVE Keeps
<1> DEFINE listening == {b \in Batches : listener[b] = r}
<1>0. /\ UNCHANGED <<keeper, scene, store, flow, task, receipts, provider, crashed>>
      /\ aborted' = aborted \cup {r} /\ run[r] = "running"
      /\ run' = [run EXCEPT ![r] = "held"]
      /\ cancel' = [b \in Batches |-> IF b \in listening /\ cancel[b] = NoCancel
                       THEN [NoCancel EXCEPT !.at = "load"] ELSE cancel[b]]
      /\ listener' = [b \in Batches |-> IF b \in listening THEN 0 ELSE listener[b]]
  BY DEF Abort
<1>1. ReceiptsGoOn
  BY <1>0, LoadGoesOn DEF AssessInv, Types, receipts, ReceiptTypes, BatchesOK, BatchOK,
                          ReceiptsGoOn, Honest
<1>2. /\ listener' \in [Batches -> Runs \cup {0}] /\ work' \in [Batches -> WorkStates]
      /\ cancel' \in [Batches -> [at : {"none", "load", "hold", "ask", "reconcile", "apply"},
                                  answer : Answers]]
  <2>1. listener' \in [Batches -> Runs \cup {0}] /\ work' \in [Batches -> WorkStates]
    BY <1>0 DEF AssessInv, Types, ReceiptTypes, provider
  <2>2. \A b \in Batches : cancel'[b] \in {cancel[b], [at |-> "load", answer |-> "none"]}
    BY <1>0 DEF NoCancel
  <2>3. cancel' \in [Batches -> [at : {"none", "load", "hold", "ask", "reconcile", "apply"},
                                answer : Answers]]
    BY <1>0, <2>2 DEF AssessInv, Types, ReceiptTypes, Answers
  <2> QED
    BY <2>1, <2>3
<1>3. ASSUME NEW b \in Batches
      PROVE  /\ work'[b] = work[b]
             /\ receipt'[b] = "none" => listener'[b] = 0 /\ cancel'[b] = NoCancel
             /\ cancel'[b].at = "apply" => cancel'[b] = cancel[b]
  <2>1. receipt[b] = "none" => listener[b] = 0 /\ cancel[b] = NoCancel
    BY DEF AssessInv, BatchesOK, BatchOK
  <2>2. listener[b] # r => cancel'[b] = cancel[b] /\ listener'[b] = listener[b]
    BY <1>0
  <2>3. listener[b] = r => cancel'[b] \in {cancel[b], [at |-> "load", answer |-> "none"]}
    BY <1>0 DEF NoCancel
  <2>4. r # 0
    BY DEF Runs
  <2> QED
    BY <1>0, <2>1, <2>2, <2>3, <2>4 DEF provider, receipts
<1>4. Forward /\ ReceiptTypes' /\ BatchesOK' /\ Honest
  BY <1>0, <1>1, <1>2, <1>3, SidesKeep DEF provider
<1>5. RunTypes' /\ StoreTypes'
  BY <1>0 DEF AssessInv, Types, RunTypes, StoreTypes, store
<1>6. RunsEndOnly
  BY <1>0 DEF RunsEndOnly, RunsInv, CoordinatorTypeOK, RunStates, keeper
<1>7. ASSUME NEW q \in Runs PROVE TaskOK(q)' /\ FlowOK(q)'
  <2>1. run'[q] = run[q] \/ (run[q] = "running" /\ run'[q] = "held")
    BY <1>0 DEF RunsInv, CoordinatorTypeOK
  <2> QED
    BY <1>0, <1>4, <2>1, StillKeeps DEF AssessInv, provider
<1> QED
  BY <1>4, <1>5, <1>6, <1>7 DEF Keeps, AssessInv, Types, TasksOK, FlowsOK

\* A crash forgets tasks, cancellations, listeners and copies, and nothing else.
LEMMA CrashKeeps ==
    ASSUME RunsInv, AssessInv, Crash PROVE Keeps
<1>0. /\ call' = Idle /\ crashed' = TRUE
      /\ task' = [r \in Runs |-> NoTask] /\ cancel' = [b \in Batches |-> NoCancel]
      /\ listener' = [b \in Batches |-> 0] /\ fresh' = [b \in Batches |-> {}]
      /\ UNCHANGED <<day, saved, run, reserved, scene, store, flow, aborted, receipt, late, provider>>
  BY DEF Crash
<1>1. RunTypes' /\ StoreTypes'
  BY <1>0 DEF AssessInv, Types, RunTypes, StoreTypes, store, NoTask, Answers
<1>2. ReceiptTypes'
  BY <1>0 DEF AssessInv, Types, ReceiptTypes, provider, NoCancel, Answers
<1>3. RunsEndOnly
  BY <1>0 DEF RunsEndOnly, RunsInv, CoordinatorTypeOK
<1>4. ASSUME NEW q \in Runs PROVE TaskOK(q)' /\ FlowOK(q)'
  BY <1>0 DEF AssessInv, FlowsOK, TaskOK, FlowOK, NoTask, B
<1>5. ASSUME NEW b \in Batches PROVE BatchOK(b)'
  BY <1>0 DEF AssessInv, BatchesOK, BatchOK, provider, NoCancel
<1>6. Honest
  BY <1>0 DEF Honest
<1> QED
  BY <1>1, <1>2, <1>3, <1>4, <1>5, <1>6 DEF Keeps, AssessInv, Types, TasksOK, FlowsOK, BatchesOK

--------------------------------------------------------------------------------
(* Every step.                                                                 *)

\* A step of the coordinator starts a run, and is otherwise none of the tasks'
\* business.
LEMMA CoordinatorKeeps ==
    ASSUME RunsInv, AssessInv, Coordinator
    PROVE  Coordinates /\ AssessInv' /\ Honest
<1>1. Coordinates
  BY DEF Coordinator, Coordinates, Modes
<1>2. UNCHANGED <<scene, store, flow, aborted, task, receipts, owner, provider, crashed>>
  BY DEF Coordinator
<1>3. \A r \in Runs : run'[r] = run[r] \/ run[r] = "none"
  <2>1. ASSUME NEW answered \in BOOLEAN, Dispatches(answered)
        PROVE  \A r \in Runs : run'[r] = run[r] \/ run[r] = "none"
    BY <2>1 DEF Dispatches, RunsInv, CoordinatorTypeOK
  <2> QED
    BY <1>1, <2>1
    DEF Coordinates, Asks, Looks, Decides, Reserves, Declines, Records, SetPaused, Configure,
        Midnight
<1>4. Forward /\ ReceiptTypes' /\ BatchesOK' /\ Honest
  BY <1>2, ReceiptsStill
<1>5. RunTypes' /\ StoreTypes'
  BY <1>2 DEF AssessInv, Types, RunTypes, StoreTypes, store
<1>6. ASSUME NEW r \in Runs PROVE TaskOK(r)' /\ FlowOK(r)'
  BY <1>2, <1>3
  DEF AssessInv, TasksOK, FlowsOK, TaskOK, FlowOK, B, Proven, receipts, provider
<1> QED
  BY <1>1, <1>4, <1>5, <1>6 DEF AssessInv, Types, TasksOK, FlowsOK

\* A step outside the coordinator.
LEMMA OtherKeeps ==
    ASSUME RunsInv, AssessInv, Next, ~Coordinator PROVE Keeps
<1>1. ASSUME NEW r \in Runs, Workflow(r) PROVE Keeps
  BY <1>1, WorkflowIsMove, WorkflowKeeps DEF Keeps, WorkflowMoves, Honest, receipts
<1>2. ASSUME NEW r \in Runs, Handler(r) PROVE Keeps
  BY <1>2, DispatchKeeps, BeginsAbortedKeeps, HoldsAbortedKeeps, StopsAbortedKeeps, GathersKeeps,
     RecallsKeeps, AsksProviderKeeps, HearsKeeps, GivesUpKeeps, AppliesKeeps DEF Handler
<1>3. ASSUME NEW b \in Batches, Cancels(b) PROVE Keeps
  BY <1>3, CancelLoadsKeeps, CancelHoldsKeeps, CancelAsksKeeps, CancelReconcilesKeeps,
     CancelAppliesKeeps DEF Cancels
<1>4. CASE Crash
  BY <1>4, CrashKeeps
<1>5. ASSUME NEW r \in Runs, Abort(r) PROVE Keeps
  BY <1>5, AbortKeeps
<1>6. ASSUME NEW b \in Batches, Provides(b) \/ Expires(b) PROVE Keeps
  BY <1>6, ProvidesKeeps, ExpiresKeeps
<1> QED
  BY <1>1, <1>2, <1>3, <1>4, <1>5, <1>6 DEF Next, Progress

\* A step that changes nothing.
LEMMA StillStep ==
    ASSUME CurationInv, UNCHANGED vars PROVE CurationInv' /\ Honest
<1>1. UNCHANGED <<day, saved, call, run, reserved, scene, backlog, lease, size, published, flow,
                  aborted, task, receipt, fresh, late, listener, cancel, work, submitted, crashed>>
  BY DEF vars, coordinator, store, receipts, owner, provider
<1>2. RunsInv' /\ BudgetInv'
  BY <1>1 DEF CurationInv, RunsInv, BudgetInv, CoordinatorTypeOK, OneRunAtATime, Counted
<1>3. Types'
  BY <1>1 DEF CurationInv, AssessInv, Types, RunTypes, StoreTypes, ReceiptTypes
<1>4. TasksOK' /\ FlowsOK' /\ BatchesOK'
  BY <1>1 DEF CurationInv, AssessInv, TasksOK, FlowsOK, BatchesOK, TaskOK, FlowOK, BatchOK, B, Proven
<1> QED
  BY <1>1, <1>2, <1>3, <1>4 DEF CurationInv, AssessInv, Honest

\* The initial states satisfy the invariant.
LEMMA InitInv == Init => CurationInv
<1> SUFFICES ASSUME Init PROVE CurationInv
  OBVIOUS
<1> USE CoordinatorConstants, RunConstants
<1>1. /\ saved.active = NoRun /\ saved.next = 1 /\ saved.day = 1 /\ saved.starts = 0
      /\ day = 1 /\ call = Idle
      /\ saved \in [paused : BOOLEAN, limit : Limits, day : {1}, starts : {0}, next : {1},
                   active : {NoRun}, started : BOOLEAN]
  BY DEF Init, CoordinatorInit
<1>2. RunsInv
  <2>1. /\ run \in [Runs -> RunStates] /\ \A r \in Runs : run[r] = "none"
        /\ reserved \in [Runs -> [day : 0..LastDay, counted : BOOLEAN]]
    BY DEF Init, CoordinatorInit, RunStates
  <2>2. saved \in [paused : BOOLEAN, limit : Limits, day : 1..LastDay, starts : Nat,
                  next : 1..(MaxRuns + 1), active : Runs \cup {NoRun}, started : BOOLEAN]
    BY <1>1
  <2>3. call \in [mode : Modes, at : {"idle", "looking", "deciding", "admitting",
                                     "dispatching", "recording"}] /\ call.at = "idle"
    BY <1>1 DEF Idle, Modes
  <2>4. CoordinatorTypeOK
    BY <1>1, <2>1, <2>2, <2>3 DEF CoordinatorTypeOK
  <2> QED
    BY <1>1, <2>1, <2>3, <2>4 DEF RunsInv, OneRunAtATime, NoRun
<1>3. BudgetInv
  <2>1. Counted(1) = {}
    BY DEF Init, CoordinatorInit, Counted
  <2>2. \A k \in Runs : reserved[k].day = 0
    BY DEF Init, CoordinatorInit
  <2>3. Cardinality(Counted(1)) = 0
    BY <2>1, FS_EmptySet
  <2> QED
    BY <1>1, <2>2, <2>3 DEF BudgetInv
<1>4. Types
  <2>1. scene \in Scenes /\ scene.units \in Nat /\ scene.limit \in {1, 2}
    BY DEF Init, Scene
  <2>2. RunTypes
    BY <2>1 DEF Init, RunTypes, NoTask, NoBatch, Answers
  <2>3. StoreTypes
    <3>1. /\ backlog = scene.units /\ lease = NoBatch /\ published = {} /\ crashed = FALSE
          /\ size = [b \in Batches |-> 0]
      BY DEF Init
    <3>2. backlog \in 0..scene.units
      BY <2>1, <3>1
    <3>3. size \in [Batches -> 0..2] /\ published \subseteq Batches
      BY <3>1
    <3> QED
      BY <2>1, <3>1, <3>2, <3>3 DEF StoreTypes
  <2>4. ReceiptTypes
    BY DEF Init, ReceiptTypes, NoCancel, Owner, ReceiptStates, Answers, WorkStates
  <2> QED
    BY <2>2, <2>3, <2>4 DEF Types
<1>5. TasksOK /\ FlowsOK /\ BatchesOK
  BY DEF Init, TasksOK, FlowsOK, BatchesOK, TaskOK, FlowOK, BatchOK, NoTask, NoCancel, B, Proven
<1> QED
  BY <1>2, <1>3, <1>4, <1>5 DEF CurationInv, AssessInv

\* Every step keeps it, and every receipt honest.
LEMMA StepInv == CurationInv /\ [Next]_vars => CurationInv' /\ Honest
<1> SUFFICES ASSUME CurationInv, [Next]_vars PROVE CurationInv' /\ Honest
  OBVIOUS
<1>1. CASE Coordinator
  BY <1>1, CoordinatorKeeps, CoordinatesKeepsRuns, CoordinatesKeepsBudget DEF CurationInv
<1>2. CASE Next /\ ~Coordinator
  BY <1>2, OtherKeeps, EndKeepsRuns, EndKeepsBudget DEF CurationInv, Keeps
<1>3. CASE UNCHANGED vars
  BY <1>3, StillStep
<1> QED
  BY <1>1, <1>2, <1>3

\* So it holds forever.
LEMMA Invariance == Spec => []CurationInv
<1> QED
  BY InitInv, StepInv, PTL DEF Spec

\* What is published is the batch of a run whose assessment was completed.
LEMMA PublishedOnly ==
    ASSUME CurationInv, [Next]_vars, NEW b \in Batches, b \in published' \ published
    PROVE  receipt[b] = "completed"
<1>1. ASSUME NEW r \in Runs, Publishes(r) PROVE receipt[b] = "completed"
  BY <1>1 DEF Publishes, At, CurationInv, AssessInv, FlowsOK, FlowOK, B
<1>2. CASE UNCHANGED published
  BY <1>2
<1>3. ASSUME NEW r \in Runs, Workflow(r), ~Publishes(r) PROVE UNCHANGED published
  BY <1>3
  DEF Workflow, PendingEnds, PendingHalves, PendingReissues, PendingIssues, Releases,
      StoreRefuses, SleepEnds, Interrupted, store
<1>4. ASSUME NEW r \in Runs, Handler(r) PROVE UNCHANGED published
  BY <1>4
  DEF Handler, Dispatch, BeginsAborted, HoldsAborted, StopsAborted, Gathers, Recalls,
      AsksProvider, Hears, GivesUp, Applies, Same, store
<1>5. ASSUME NEW c \in Batches, Cancels(c) PROVE UNCHANGED published
  BY <1>5 DEF Cancels, CancelLoads, CancelHolds, CancelAsks, CancelReconciles, CancelApplies,
              Same, store
<1>6. Coordinator \/ Crash \/ UNCHANGED vars => UNCHANGED published
  BY DEF Coordinator, Crash, vars, store
<1>7. ASSUME NEW r \in Runs, Abort(r) PROVE UNCHANGED published
  BY <1>7 DEF Abort, store
<1>8. ASSUME NEW c \in Batches, Provides(c) \/ Expires(c) PROVE UNCHANGED published
  BY <1>8 DEF Provides, Expires, Same, store
<1> QED
  BY <1>1, <1>2, <1>3, <1>4, <1>5, <1>6, <1>7, <1>8 DEF Next, Progress

--------------------------------------------------------------------------------
(* The theorems.                                                               *)

\* Every variable stays in its range; one task works on a batch, and a receipt
\* that was never created has no cancellation and no work.
THEOREM TypesHold == Spec => []TypeOK
<1>1. CurationInv => TypeOK
  <2> SUFFICES ASSUME CurationInv PROVE TypeOK
    OBVIOUS
  <2> USE DEF CurationInv, AssessInv
  <2>1. CoordinatorTypeOK
    BY DEF RunsInv
  <2>2. ASSUME NEW b \in Batches
        PROVE  Cardinality({r \in Runs : task[r] # NoTask /\ flow[r].batch = b}) <= 1
    <3> DEFINE tasks == {r \in Runs : task[r] # NoTask /\ flow[r].batch = b}
    <3>1. CASE tasks = {}
      BY <3>1, FS_EmptySet
    <3>2. CASE tasks # {}
      <4>1. PICK r \in Runs : r \in tasks
        BY <3>2
      <4>2. tasks = {r}
        BY <4>1, OneTask
      <4>3. Cardinality({r}) = 1
        BY FS_Singleton
      <4> QED
        BY <4>2, <4>3
    <3> QED
      BY <3>1, <3>2
  <2>3. ASSUME NEW b \in Batches, receipt[b] = "none"
        PROVE  cancel[b] = NoCancel /\ work[b] = "none"
    BY <2>3 DEF BatchesOK, BatchOK
  <2> QED
    BY <2>1, <2>2, <2>3 DEF TypeOK, Types, RunTypes, StoreTypes, ReceiptTypes
<1> QED
  BY <1>1, Invariance, PTL

\* Whatever answers are lost and whenever the host dies, a run that is not proven
\* over is the one the coordinator remembers: no second run is started beside it.
THEOREM OneRunAlways == Spec => []OneRunAtATime
<1>1. CurationInv => OneRunAtATime
  BY DEF CurationInv, RunsInv
<1> QED
  BY <1>1, Invariance, PTL

\* However starts are lost, repeated or held over midnight, a reservation that
\* counts finds fewer than the day's limit before it.
THEOREM BudgetIsKept == Spec => BudgetKept
<1> DEFINE Within == \A r \in Runs : reserved'[r] # reserved[r] /\ reserved'[r].counted =>
                       Cardinality({k \in Runs : reserved[k].counted
                                                 /\ reserved[k].day = reserved'[r].day})
                         < saved.limit
<1>1. CurationInv /\ [Next]_vars => Within
  <2> SUFFICES ASSUME CurationInv, [Next]_vars, NEW r \in Runs,
                      reserved'[r] # reserved[r], reserved'[r].counted
               PROVE  Cardinality({k \in Runs : reserved[k].counted
                                                 /\ reserved[k].day = reserved'[r].day})
                        < saved.limit
    OBVIOUS
  <2>1. Coordinator
    BY OtherKeeps DEF CurationInv, Keeps, RunsEndOnly, vars, coordinator
  <2>2. Reserves
    BY <2>1, CoordinatorKeeps
    DEF CurationInv, Coordinates, Asks, Looks, Decides, Declines, Records, Dispatches, SetPaused,
        Configure, Midnight
  <2>3. /\ r = saved.next /\ reserved'[r] = [day |-> saved.day, counted |-> UsesBudget]
        /\ UsesBudget => saved.starts < saved.limit
    BY <2>2 DEF Reserves, CurationInv, RunsInv, CoordinatorTypeOK
  <2>4. saved.starts < saved.limit /\ reserved'[r].day = saved.day
    BY <2>3
  <2>5. Cardinality(Counted(saved.day)) <= saved.starts /\ Cardinality(Counted(saved.day)) \in Nat
    BY CountedFinite DEF CurationInv, BudgetInv
  <2>6. saved.starts \in Nat /\ saved.limit \in Nat
    BY CoordinatorConstants DEF CurationInv, RunsInv, CoordinatorTypeOK
  <2> QED
    BY <2>4, <2>5, <2>6 DEF Counted
<1>2. CurationInv /\ [Next]_vars => [Within]_coordinator
  BY <1>1
<1> QED
  BY <1>2, Invariance, PTL DEF Spec, BudgetKept

\* Whatever is lost, repeated or cancelled, in one run or in the next that finds
\* the batch still leased, no batch is submitted to the provider twice.
THEOREM NeverTwice == Spec => []NeverSubmittedTwice
<1>1. CurationInv => NeverSubmittedTwice
  BY DEF CurationInv, AssessInv, BatchesOK, BatchOK, NeverSubmittedTwice
<1> QED
  BY <1>1, Invariance, PTL

\* A receipt says completed or cancelled of nothing else, a completed receipt is
\* never written again, and what is published was completed.
THEOREM ReceiptsProven == Spec => ReceiptsAreProven
<1> DEFINE Step == \A b \in Batches :
                     /\ receipt'[b] # receipt[b] =>
                         /\ receipt[b] # "completed"
                         /\ receipt'[b] = "completed" => work'[b] = "done"
                         /\ receipt'[b] = "cancelled" => work'[b] = "stopped"
                     /\ b \in published' \ published => receipt[b] = "completed"
<1>1. CurationInv /\ [Next]_vars => Step
  <2> SUFFICES ASSUME CurationInv, [Next]_vars PROVE Step
    OBVIOUS
  <2>1. Honest
    BY StepInv
  <2>2. ASSUME NEW b \in Batches, b \in published' \ published PROVE receipt[b] = "completed"
    BY <2>2, PublishedOnly DEF CurationInv
  <2> QED
    BY <2>1, <2>2 DEF Honest
<1>2. CurationInv /\ [Next]_vars => [Step]_vars
  BY <1>1
<1> QED
  BY <1>2, Invariance, PTL DEF Spec, ReceiptsAreProven

================================================================================
