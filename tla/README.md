# Drawloom in TLA+

Drawloom is a local desktop host for coding agents: a Tauri shell around a Node
host that runs provider sessions, plugins, workflows, a knowledge store and
conversation history. Most of its lines are schemas, presentation and
translation of provider protocols. Its hard part is a small number of
coordinators that keep promises across awaits, timers, files and processes:
*an effect is not repeated when its outcome is unknown*, *one manager owns a
data directory*, *a permission is not granted late*, *a message is not lost
silently*, *a run that ends says what it left behind*. This directory models those
coordinators, checks them with TLC, and proves the safety of what TLC checks for
every size of the instance.

Contents: [inventory](#inventory), [plan](#plan), [modules](#modules),
[runs](#runs-and-bounds), [fairness](#fairness), [findings](#findings),
[proofs](#proofs), [assumptions](#assumptions-and-what-is-left-out).

## Inventory

For each part: the state it keeps, its operations, how it meets the others,
what is hard about it, and what makes it correct. `PROJECT.json` lists the same
parts with their files and says which are modelled.

| Part | State and operations | Meets | Hard, and what must hold |
|---|---|---|---|
| Receipt dispatcher (`temporal-orchestration/src/receipts.ts`, `storage.ts`) | one receipt file per step; map of active executions; run controllers. `dispatch`, `cancel`, `close` | the Temporal worker in the sidecar delivers steps over HTTP; handlers are plugin code | redelivery, timeouts with handlers that go on running, crashes between intent, effect and outcome. No effect is repeated under doubt; what was answered is durable; every dispatch is answered |
| Temporal manager (`index.ts`, `processes.ts`) | `manager.lock`, owner and run index files, service process, sidecar workers, bridge tokens. `prepare`, `prepareHost`, `listOwners`, `hasUnfinishedInstallation`, `close` | desktop orchestration host, evaluation and nightly curation, each with a registration | two managers on one directory, close during preparation, index updates against queries. One owner; nothing left behind by close; no run intent dropped |
| Durable workflow and sidecar (`workflow.ts`, `sidecar.ts`) | step records, child runs, open operations, effects in doubt; the sidecar's activities in flight. `task`, `child`, `input`, `sleep`, cancellation, cleanup | Temporal on one side, the dispatcher over HTTP on the other | cancellation against completion, lost answers, a host that dies below a run that does not, cleanup against answers on their way. A cancelled run ends; its end names every operation it may have left running |
| Agent bridge (`agent-bridge.ts`, `agent-task-host.ts`) | opened sessions and their active operation, receipts in memory and in a store, waiters, cancellation requests. `create`, `submit`, `inspect`, `result`, `requestCancellation`, `close` | dispatched tasks call it, a provider's sessions signal to it | three writers of one receipt (submit, the signal reader, inspect), answers that are lost, saves that fail, close during an opening. One operation in doubt per session; receipts are true; sessions are given back |
| Authorization scheduler (`authorization-scheduler`) | two pools of slots and queues, per-job deadline and controller. `authorize`, `shutdown` | tool gateway and knowledge runtime call it; a provider evaluates | late answers, aborts, deadlines in the queue. Bounded concurrency, one answer per caller, no late permission |
| History coordinator (`desktop/host/history-coordinator.ts`) | pending map, flush timer, promise queue, warning. `write`, `writeAsset`, `flush`, `synchronize`, `unavailable`, `close` | session signal reader writes, history application reconciles, SQLite store commits | order of writes and batches, partial failure, close in a reconciliation. Newest text wins, positions are unique, the warning is honest |
| SQLite conversation history (`sqlite-conversation-history`) | conversations, entries, checkpoints, change sequence. `commit`, `page`, `changes`, `delete` | coordinator and UI feed | expected revision conflicts, cursors against deletion. A feed reader converges on the entries |
| Desktop lifecycle and sessions (`application-lifecycle.ts`, `desktop-sessions.ts`) | running / closing / closed; admitted work; opening and live sessions, pumps. `run`, `close`, `connect`, `watch` | every application call passes the guard | start against shutdown, retirement against reconnection. No live session after close; each closed once |
| Conversation admission (`continuation-admission.ts`, `planning-control.ts`, `session-signals.ts`, `application.ts`) | the active operation and child operations of a session, the conversation's mode; receipts of children. `send`, `set_mode`, continuation, `admit`, `retire` | the provider adapter executes turns and starts its own, signal reader and turn callbacks end operations | state read before an await and used after; three parties with an opinion each. What runs is the active operation of the live session; no turn is overwritten; none is left behind |
| Nightly curation (`nightloom`, `codex-assessment`, the maintenance port of `sqlite-knowledge`, `knowledge-nightloom.ts`) | the coordinator's saved state (pause, budget, active run); leased batches; assessment receipts with a deadline and a revision; listeners on a run's cancellation. `tick`, `runNow`, `pause`, `configure`, `pending`, `assess-batch`, `release`, `publish`, `cancelOwned` | runs over the orchestration above, asks a provider, publishes to the store | crashes and lost answers around each call, polls beside cancellation, deadlines through restarts, midnight. One run at a time within its budget; no request submitted twice; receipts say what was proven |
| Knowledge runtime (`local-knowledge-runtime`), store (`sqlite-knowledge`), embeddings (`local-embeddings`) | requests in flight, worker processes, SQL tables | desktop knowledge host over a sidecar | restart with requests in flight, idle shutdown. Each request is answered once |
| Evaluation | append-only records; workflow steps | orchestration | replays and retries. Idempotent records |
| Codex agent adapter, plugins, tools, context, UI, telemetry | protocol translation, registries, pure selection, presentation | | mostly parsing and I/O |

The parts meet along three chains. *Workflow chain*: workflow → sidecar → HTTP
→ receipt dispatcher → agent bridge → provider, all below one data directory
guarded by the manager lock; the dispatcher keeps no lock of its own on receipt
files and relies on the manager for that (`receipts.ts:33`). *Curation chain*:
coordinator → workflow → assess-batch handler → provider and knowledge store, a
workflow of the first chain. *Conversation chain*: provider session → signal
reader → history coordinator → SQLite store, with the authorization scheduler
deciding tool calls on the side, and the application lifecycle closing all of
it.

## Plan

In order; what is here, and what is next.

1. **TaskReceipts**, with the abstract **TaskEffect** it implements: the core
   promise of the orchestration. Checked and proved.
2. **ManagerLock**: the mutual exclusion the receipts rely on, which two
   reclaimers break. What the lock does give is checked and proved.
3. **AuthorizationScheduler**: all its safety checked and proved.
4. **HistoryCoordinator**: all its safety checked and proved; that the warning
   stands until a reconciliation is refuted.
5. **DesktopSessions** (lifecycle and session registry) and
   **ConversationTurns** (sends, mode changes and turns the provider starts
   itself, over one conversation): all their safety checked and proved.
6. **AgentBridge** and **WorkflowRun**, which composes it with the workflow, the
   sidecar and the dispatcher's cancellation: all its safety checked and proved;
   that the end of a run names all it left running is refuted.
7. **CurationCoordinator** and **CurationRun**, which composes it with the runs
   it starts, their handler, the store's leases and the provider: all its
   safety checked and proved.
8. Next: **ChildAdmission**, the receipts of child executions, which outlive a
   session; **TemporalManager**, owners, registrations and the run index;
   **HistoryStore**, the change feed and the coordinator over it.
9. Candidates beyond: knowledge sidecar client, embeddings worker, plugin
   installations, state feed, evaluation store.

## Modules

### TaskReceipts, TaskEffect

`TaskReceipts` is `createReceiptDispatcher`. An action is the code between two
awaits of `execute`: `Dispatch` up to `readJson`, `ReadReceipt` up to
`writeJson(intent)`, `IntentSaved` up to the race, `HandlerSettles`,
`RecoverSettles`, `Timeout` and the aborts end the race, `OutcomeSaved` answers.
`ReadFails`, `IntentFails` and `OutcomeFails` are the rejected disk calls;
`OutcomeFails` falls into the catch block and writes a second time, as the code
does when saving a completion fails. `writeJson` renames a complete file into
place, so a failed or interrupted write leaves the old or the new receipt
(`OldOrNew`). `Crash` loses memory and keeps files; `Reopen` is a new
dispatcher of the same process after `close`, beside handlers that still run.

A fingerprint stands for task, version, input and `maxAttempts`; its limit and
whether its task has a recover hook are constants. Variables `starts`, `doubt`
and `answers` are history. A dispatch that joins the active promise of its
step, or is refused by a check that changes nothing, is no step.

`TaskEffect` says what a caller may rely on with no files or aborts: an effect
begins only when nothing about the step is uncertain and no attempt is in
`doubt`, that is, may have had it; each attempt begins at most once; an
uncertain effect is completed, refused, or called ready to be begun again, the
last only once whoever carried it out, or looked for it, has said that it did
not happen (`Denies`, `Clears`); and an output once told is the only one.
`ImplementsTaskEffect` maps file, entry and history to it; while an outcome is
being saved the effect counts as uncertain whatever the file says. A timeout
recorded as retryable, with the handler still running, is no step of it: that is
the property's mutant.

### ManagerLock

`acquireLock` and its use by a manager. `Open`, `Write`, `Read`, `Compare`,
`Unlink` are its system calls, `Check` and `Remove` the release; `List`,
`Prepare` and `PrepareJoins` are the callers of `own()`, whose promise `lock
??=` keeps, a failure included; `Close` and `LookAtUnlock` are `close()` before
and after it waits for preparations. Managers live in processes (two may share
one, as the tests create them) and `Die` ends a process. A file is identified
by the manager that created it, as its random token does.

Managers acquire and die as they like. Two reclaimers of one dead lock then both
own the directory (`lock_two_reclaimers`, see [Findings](#findings)). What the
code does give is `OnlyReclaimsClash`: two own it only if `displaced`, a history
variable, says that an `Unlink` has removed a lock that another manager put in
place after the reclaimer had read the dead one. Whatever else comes together,
creations, failed writes, releases and deaths, is excluded by the protocol.
`DeadOwnerIsReclaimed` starts where an acquirer meets a dead owner's complete
lock while no other manager is between its call and its return; others may come
later and join it. Another lock then takes the dead one's place, unless the
acquirer dies, or another died after it had removed the dead lock and before it
created its own.

### AuthorizationScheduler

Both pools of `createAuthorizationScheduler`. `Admit` queues and drains in one
step, as the synchronous code does; `Drain` is the loop of `drain` in closed
form: it shifts the `n` oldest jobs, of which those aborted or short of time are
answered and the rest start, where `n` is the number at which its condition
first fails. An answer goes through two steps,
`EvaluationAnswers` and `Validated`, because validating an unknown value may
run its getters (comment at line 118), during which time passes, the caller
aborts or the host shuts down; the second look is the point of that code. A
slot is given back by `Release`, the promise chain's last callback. A caller's
remaining time only shrinks; `Abort` and the listener `AbortHeard` are apart,
since `signal.aborted` is seen by other code before the listener runs.

### HistoryCoordinator

`createHistoryCoordinator`. `queue` is the promise queue of `serial`; only its
first job takes steps (`Turn`). `Begin` is a job's reads, `FlushCommits` /
`BatchCommits` its commit; a commit makes other jobs' reads stale, so that an
overtaking job would conflict, as the store's expected revision does. A flush
takes the pending updates when it is *called* (`FlushNow`), not when it runs.
`Loop` is a round of `synchronize`; `Settle` lets whoever waits for a job go on,
and `drain` is what `close` still waits for. Text is the number of the write it
came from, 0 the placeholder of an asset that came first. `latest`, `lost` and
`missing` are history. The reader is external and offers the newest text of any
messages it has seen. A `Scene` says which messages are written, which
`synchronize` calls come and what may fail: the store at any call, the reader
with a `HistoryReadError`, or the whole provider, of which the host tells the
coordinator by `unavailable()`. `Report` is a storage failure the host reports.

`inSync` says that the status saved with the conversation is "idle". The host
shows the warning if there is one, otherwise "syncing" while a synchronization
runs, otherwise the saved status (`history-application.ts:62-97`). A
`HistoryReadError` whose report is saved clears the warning, so that
`WarningStands` does not hold (`history_read_error`). What holds is
`DroppedIsNeverInSync`: the failure that took the warning away is the status
then shown, until a later batch commits. The warning is in memory only, and a
restart of the host forgets it.

### DesktopSessions

`createApplicationLifecycle`, `createDesktopSessions`, and `connect` and `close`
of `application.ts`, which compose them. A caller is one call into the
application: `Call` is its admission by `lifecycle.run`, `Connect` the
synchronous part of `live.connect` (refused, joined to the live or the opening
session, or a new start), `Connected` its continuation, where the first to come
back takes the reader out of `readers` and runs it, `Finish` its end. Callers in
`Unadmitted` stand for background discovery, which connects from a promise the
lifecycle does not know (`discovery-cache.ts:13`) and which close therefore does
not wait for.

`Start`, `OwnResource`, `StartFails`, `Made` and `RolledBack` are the body of the
start promise; a session's transport and provider session are one resource in
`held`, whose release may fail (`broken`). `CloseSession` is `state.close`,
idempotent through `retired ??=`, and `SessionCloses` its settlement.
`ReaderEnds`, `Unpublish` and `Reported` are `retire`, step by step as `cleanup`
awaits them. `Close`, `Drain`, `OpeningsSettled`, `CloseNext`, `NextClosed`,
`AllClosed` and `PumpsEnded` are the shutdown in its order. `stopped` is not a
variable of its own: `lifecycle.close` calls `stopAdmission` in the same
synchronous step that leaves `running`.

### ConversationTurns

Who owns what a provider executes in one conversation. Three parties keep an
opinion: the host its session's `active` operation (`application.ts`,
`continuation-admission.ts`), the Codex adapter its active `turn`
(`codex-agent/src/index.ts`), and the signal reader (`session-signals.ts`), which
processes the adapter's `signals` late and corrects `active` by them.

Operations begin in two ways, and both look at the host's state, wait, and look
again. The send command is `Send` (steer the active operation, or mean to start
one), `Reprepare` when the steered one is over, `Prepared`, in Plan mode
`GoalsRead` and `Saved`, then `Execute`, `TurnStarts` and `Returned` in the adapter,
with `SaveFails`, `ExecuteRefused` and `ExecuteFails` beside them. A turn the
provider starts by itself is `NativeTurn` (first look, `continuation` of
`continuation-admission.ts`), `Admitted` or `Denied` after the project was
verified (second look), `Adopt` (the adapter's own second look), `Stored` or
`StoreFails`. `TurnEnds` and `Disconnect` run `finish`, whose callback makes the
host forget the operation at once while the reader hears of it later. `SetMode`,
`Entered` and `ModeStored` are the set_mode command. One command is under way at
a time, as `server.ts:502-510` queues them; stopping does not wait in that queue
and changes none of this state but through the end of a turn.

Opening and closing sessions is `DesktopSessions`; here it is `Publish`,
`Disconnect` and `Retire`, one step each, and sessions follow one another. What a
steered turn receives, child executions and the text of prompts are left out.
`own`, the operations the provider began, is history.

### AgentBridge

`createAgentBridge` and the tasks of `dispatchAgentTask` over it. An action is
the code between two awaits: `Create` up to the shared opening, whose own steps
are `OpeningReads`, `OpeningMarks`, `OpeningAnswered` and, in a bridge closed
meanwhile, `OpeningLeaves`; `Submit`, `SubmitLooks`, `SubmitRecords`,
`SubmitAnswered` and `SubmitSettles` for submit; `Inspects` and `InspectReads`
for inspect, which `result` repeats each time a save wakes it. `PumpReads`,
`PumpSaves`, `PumpBreaks` and `PumpEnds` are the reader of a session's signals.
`save` sets memory at once and the disk when its call returns, so memory and
disk are two variables and saves under way (`saving`, `writing`) may land in
either order. A receipt left open by an earlier process reads as "unknown"
(`FromDisk`).

The provider is external: it may execute what it was asked (`asked`), an
operation ends at most once (`native`), and an end that nobody has read yet is
`unread`. What may go wrong (`mayFail`) is a save, a lost answer or an answer
that refuses, broken signals, a failed release, a timeout, a close or a crash:
again and again (`FaultsRecur`), or, as in the run, one thing in a behaviour and
after a close a failed release besides. Steer, interrupt,
approvals and input pass through to the provider and are left out, as are two
contents under one operation's name.

### WorkflowRun

`AgentBridge` under the run that uses it. The run is `executeWorkflow`:
`CallStep` and `Hear` are `task` before and after its activity, `ChildStarts`,
`ChildSeen`, `ChildEnds`, `ChildHeard` a child run, `WaitEnds` an input or a
sleep, `Complete` and `Throw` the end of the program, `CleanUp` and `End` the
catch block. The program is any program over one of the sets of `Programs`: it
calls steps in any order their inputs allow (`Needs`) and, where it may be
cancelled (`Stoppable`), throws at any time.

Below it, `PickUp`, `Reply`, `CancelActivity` and `TimeOut` are the sidecar's
activities, where a cancelled one posts a cancel of the whole run; `Arrive`,
`Handle`, `HandlerReturns`, `TaskTimesOut`, `TaskEnds` and `DispatcherCancel`
are the dispatcher around `dispatchAgentTask`, whose abort listener asks the
bridge to cancel; the sidecar does not abort the request of a cancelled activity
(`sidecar.ts:223-236`), which goes on as `"adrift"` and may arrive later;
`CleanupArrives` and `CleanupFails` the cleanup; `HostCloses` and `HostRestarts`
the host. Each step has one attempt here: repeated attempts and the receipt file
of a step are `TaskReceipts`, proved on its own.

`DoubtIsReported` says what the code and its documents say: a run that was
cancelled or failed names every operation the provider may still carry out. It
is refuted with nothing failing (`workflow_late_answers`, see
[Findings](#findings)). `missed` is history: the steps whose answer came after
the program threw, or that were neither answered nor in the dispatcher when the
cleanup asked. `OnlyLateAnswersAreMissed` says that these are all that is
missed, through crashes, failing saves and lost answers.

### CurationCoordinator, CurationRun

`CurationCoordinator` is `createNightloomCoordinator`. Its operations are
serialized (`exclusive`) and it is the only writer of its store, so each is a
sequence of steps between awaits: `Asks`, `Looks` (the day), `Decides` (paused,
reserved, started, over), `Reserves` (saved before anything is started),
`Dispatches` (the start takes effect once; its answer may be lost), `Records`.
`Declines` ends an operation at any of the checks that do. The budget counts
starts; the milliseconds it also counts move with them.

`CurationRun` puts it above the runs it starts. The workflow (`Pending...`,
`Releases`, `Publishes`, `SleepEnds`, ...) leases a batch from the store, whose
lease is one variable, has it assessed, and sleeps and polls while the
assessment runs. The assess-batch handler is `Dispatch`, `Gathers` (evidence),
`Recalls` (receipt and intent), `AsksProvider`, `Hears` or `GivesUp`,
`Applies`; `BeginsAborted`, `HoldsAborted` and `StopsAborted` are its recovery
in a cancelled run, and the `Cancel...` actions are `cancelOwned`, a process of
its own that the listener a task leaves behind starts. Receipts have revisions:
`fresh` is the set of those whose copy is the present one, and `Holds` is the
compareAndSet. `Replies` and `Stops` are what codex-assessment may answer to
`assess`, `reconcile` and `cancel`, as a relation to what has become of the work
(`work`); its own receipts and connections are inside it. A call to the
provider that throws, `assess` or `reconcile`, and so leaves the receipt
"running" with its task failed, is left out.

## Runs and bounds

| Run | What it asks | Bounds, and why they suffice |
|---|---|---|
| `receipts` | no effect repeated under doubt, answers durable, receipts only advance, `TaskEffect` implemented; every dispatch without a recover hook is answered though handlers hang | one step (files and entries of steps are independent; they share the abort of their run, which cancels each), three attempts so that a stale, a repeated and a next attempt differ, two inputs of which one is recoverable, two outputs, one crash |
| `receipts_hung_recovery` | every dispatch is answered, with a recover hook: refuted, see Findings | the smallest instance with a recovery |
| `lock` | only two reclaimers make two owners, dead owners are reclaimed, a closed manager lets go, with managers that acquire together and processes that die anywhere | three managers in three processes: a dead owner and two reclaimers, one of them slow; or an owner, a loser and one that comes between |
| `lock_two_reclaimers` | one owner, whatever happens: refuted | the same three |
| `scheduler` | limits, order, no late permission, one answer for every caller | one slot in each pool; `Traffic` is three jobs of the pool with one waiting place (full slot, full queue, and a third job refused, or admitted after another left), three of the pool with two waiting places (two that wait, in order), or one job of each pool; remaining times 0, too short, enough |
| `history` | order, nothing lost by a store that works, assets, what is dropped shows, close returns | two scenes, in both of which the store may fail at any call and the reader at any read: two messages with an asset, beside one synchronization; one message beside two synchronizations and a provider that may go away; two writes in all, two jobs queued ahead |
| `history_read_error` | the warning stands until a reconciliation: refuted | one message, one write, one synchronization |
| `sessions` | one session per conversation, nothing left after close, no failure lost, close and connections come to an end | two conversations, of which one can be started twice (a retired and a new session); two callers of that one, one of them not admitted, so that two share a start and one outlives the drain; a third caller of the other, so that shutdown closes two sessions of which one may fail |
| `turns` | what runs is owned, no turn overwritten, no phantom operation | two sessions one after the other (a reader and an admission of the first meet the second), three operations (one running, one reserved, one admitted), saves may fail |
| `workflow` | one operation in doubt per session, true receipts, only late answers missed, sessions given back, cancelled runs and awaited results come to an end | one session, since sessions meet only in close and cancellation, which treat each alike; two operations, so that one may be refused for the other; five programs: an operation awaited in a run that may be stopped, rival submits, one operation submitted twice and awaited, submitted and looked at, a child beside a wait; any one failure in the first two, a crash in the fourth |
| `workflow_late_answers` | a run that ends early names every operation it may have left running: refuted | the same programs, with nothing that fails |
| `curation` | one run at a time, the budget, no second submission, proven receipts, runs that end | two runs (one that may stay in doubt and one that must not start) and two batches (one released and one after it); four scenes: two days and settings of one and two starts with every answer lost or late, over an empty backlog; a cancellation and a crash; a policy that refuses and a cancellation; a batch of two that is split |

No run uses symmetry: each checks a temporal property or is small. Deadlock is
checked where the system never stops (`TaskReceipts`); managers, schedulers,
coordinators and runs do stop. `MaxCrashes`, `MaxWrites`, `MaxQueue`, `MaxOps`,
`MaxRuns`, `MaxBatches`, `LastDay` and the one failure of `mayFail` bound
behaviours, not the code. Scenes, programs and traffic are chosen at the start
of a behaviour and fixed in it: they cut the product of cases that do not meet,
and each case that does meet is in one of them.

## Fairness

Only what the runtime itself brings about is fair: disk and store calls return
(with a result or an error), armed timers fire, settled promises run their
continuations, time passes. Handlers, recover hooks and authorization providers
need never return; processes need never die; nobody has to call anything. The
one assumption beyond that: in `HistoryCoordinator` a provider's `read` returns
or fails. The coordinator gives it no deadline (line 136), so a provider that
never answers holds the queue and `close`; this is listed as a hazard. In
`DesktopSessions` a provider's start and release return or fail, and the stream
of a *closed* session ends; that of a live one need not. `close` has no deadline
for either, as the hazards say. In `WorkflowRun` the bridge, the store, the
dispatcher, the sidecar and Temporal go on, requests to the provider return or
fail, and a cancelled program throws; no operation has to start or to end, no
input to be answered, no child to finish unless it is cancelled. One condition
on all of these is enough, because each step is taken a bounded number of times.
In `CurationRun` the host and the orchestrator go on, the deadline of a
receipt passes, and a call to the provider is answered or given up: nightloom
races it with that deadline (`bounded`, `nightloom/src/index.ts:821-843`), and
codex-assessment with one of its own (`withinDeadline`, `index.ts:841-877`), so
the call returns though the work never ends.

## Findings

* **A hung recovery is never given up** (`receipts_hung_recovery`). "Local-v1
  task attempts remain finite" (`orchestration/src/index.ts:11`). If the run is
  cancelled or the dispatcher closed while the intent is being written, the
  recover hook is still started (only `run` looks at the signal,
  `receipts.ts:101`), the abort listener is added to a signal already aborted,
  and the timeout aborts the same controller once more, which dispatches no
  event. If the hook hangs, the dispatch is never answered and `close` waits
  for it for ever.
* **Two reclaimers of a dead lock both own the directory**
  (`lock_two_reclaimers`). "One manager per data root" (`index.ts:91`). The
  comparison before `unlink` (`processes.ts:51-54`) narrows the window and does
  not close it.
* **The warning about a dropped message is cleared without a reconciliation**
  (`history_read_error`). "Only reconciliation can clear a failed-write warning"
  (`history-coordinator.ts:66`). When a flush has failed and the reader then
  throws a `HistoryReadError`, its report is committed as the conversation's
  status and the warning cleared (line 185), though the message is still
  missing. The status shown instead is the reader's: failed, unavailable or
  unsupported, never "idle" (`DroppedIsNeverInSync`).
* **A submit on its way is missed by a run that ends** (`workflow_late_answers`).
  "`unresolvedEffects` records work whose external outcome remains uncertain"
  (`docs/design/orchestration-contract.md:142`); "preserving completed results
  and unresolved effects" (`docs/adr/0017-orchestration-interfaces.md:80-81`);
  "Preserve that distinction when cancellation/failure happens between submit and
  result" (`workflow.ts:72-73`). A submit is dispatched and the provider asked;
  the program throws, and `nativeOperations` is copied without it (line 274); the
  cancelled activity's cancel ends its task in the dispatcher, so the cleanup
  (line 279) is answered with an empty list; the submit's own answer changes
  nothing any more. The run ends and names nothing, and the provider goes on.

Seen while modelling, without a run of their own:

* A poll gathers its evidence again before it looks at the receipt
  (`nightloom/src/index.ts:786`). Evidence that has outgrown its limits meanwhile
  makes the workflow release the batch while its assessment runs and submit half
  of it beside it (`index.ts:437-447`), against "only one assessment runs at a
  time" (`nightloom/README.md:23`); nobody polls or cancels the first one any
  more. With the bundled `sqlite-knowledge` evidence grows between polls
  essentially only when an authorization flips to allow. The scene of a split
  batch contains the case.
* "The desktop requires goal pursuit to be paused and outstanding execution
  settled" before Plan mode (`docs/design/codex-app-server-adapter.md:193`).
  Leaving Plan mode sets the mode before it is saved; during the save the
  provider may have a turn of its own admitted, the mode being default by then;
  when the save fails, Plan mode is put back without looking
  (`application.ts:1596-1601`). `ConversationTurns` has these steps.
* A batch whose assessment was cancelled or failed keeps its lease, so every
  later run gets it again and ends blocked (`nightloom/src/index.ts:449`):
  nothing unsafe, and nothing promised.

## Proofs

`TaskReceiptsProofs` proves every safety property of `receipts` for all
steps, runs, inputs, outputs and attempt limits, from the named assumption
`ReceiptConstants`. The argument: `TypeOK /\ Consistent` is inductive. Neither
a single property nor the type invariant is: that no run starts under doubt
depends on what the file says while an entry is writing its intent
(`EntryMatchesFile`), that in turn on which attempts were ever started
(`HistoryMatchesFile`), and that nothing starts after an abort on the link
between entry and run controller (`EntryMatchesRun`). Each is proved action by
action (`FilePreserved`, `HeardPreserved`, `RunPreserved`), then each property
follows from it, and action properties from it and one step. For
`DispatcherKeepsPromise` each step of the dispatcher is shown to leave the
mapped effect of a step unchanged or to move it as `TaskEffect!Evolves` says; a
crash moves several at once. `AttemptsRunOnce` (`OneRunPerAttempt`) and
`EffectsNotRepeated` (`NoRunUnderDoubt`) are stated on their own as theorems; the
run checks them within `ImplementsTaskEffect`, whose `Begins` starts an effect
only from a count of zero and with nothing in doubt.

The theorems also cover `Consistent`, `OneHandlerUnlessRecovered` and
`ReceiptOnlyAdvances`, which the run no longer lists: the first is the
strengthening itself, and `ImplementsTaskEffect` fails with the other two.

`ManagerLockProofs` proves `OnlyReclaimsClash` (`OneOwner`) for all managers and
processes from `LockConstants` alone, and that there is one owner while no
process has died (`OneOwnerUntilADeath`). The invariant `LockInv` says that the
file of a live manager between creation and release is in place (`FileInPlace`)
until something was displaced, that a reclaimer has seen a dead writer
(`SeenDead`), and so that nothing is displaced before a death. `Unlink` is the
step that matters: what it removes is the dead lock the reclaimer compared, or
nothing, or it sets `displaced`.

`ConversationTurnsProofs` proves all four properties of the run `turns` for any
sessions and any number of operations, from `TurnConstants`. None is inductive;
`TurnInv` adds what each party may believe while another acts. `SubmissionAlone`
and `AdoptionAlone` say that a send between taking the conversation and its turn,
and a native turn between admission and its end, have it to themselves: this is
what makes the unconditional assignment in `TurnStarts` safe. `EndsAreOver` says
that an end the reader has not seen yet names nothing that runs, is being adopted
or is reserved by a command, so that a late signal releases nothing new; it
needs `ReservedIsNew` and `IdsIssued` (identities are not used twice).
`StartsAreTold` and `ActiveExplained` do the same for late starts, and make
`NoPhantomOperation` inductive. One lemma per action says what the step changes
in terms of single sessions (`ReadStep`, `EndsStep`, ...), and one lemma per part of the
invariant goes through the actions.

`CurationProofs` proves all five safety properties of the run `curation` for any
number of runs and batches, any backlog, limits and scenes, from
`CoordinatorConstants` and `RunConstants`. The invariant is in three layers.
`RunsInv` is the coordinator's: a run that may still be going on is the one it
remembers, identities not yet reserved name no run, and an operation admits a run
only while none is remembered. It rests on nothing else, because all that any
other step does to the coordinator is to end a run or to lose its operation
(`RunsEndOnly`). `BudgetInv` bounds the saved day's counted reservations by the
starts charged, and holds because no reservation is of a later day.
`AssessInv` speaks of receipts: a task's run is going on, so by `RunsInv` there
is one task (`OneTask`), which is why the task that wrote an intent is alone to
submit; and a completed receipt has no copy left that could be written over it
(`BatchOK`). Steps are grouped by what they do to receipts (`ReceiptsGoOn`, which
`WriteGoesOn` shows of the compareAndSet) and to tasks (`Finishing`, `GoingOn`,
`NoTaskMoves`); one lemma per action puts the two together.

`AuthorizationSchedulerProofs` proves the three safety properties of the run
`scheduler` for any pools, limits, jobs and traffic, from `SchedulerConstants`.
That a slot is an evaluation (`SlotsAreEvaluations`) is inductive only together
with what a place in a queue means: `QueuedWait` (a queued job's caller still
waits, and it was never evaluated) and `WaitersAreKnown` (a caller waits only
while its job is queued or has a slot). Every operation that frees a slot, and
`Admit`, ends in a drain, which moves any number of jobs at once. So the proofs
follow one drain: what an operation hands to it (`Queueing`, `SlotsHeld`,
`Waiters`), what a drain makes of that (`DrainedTo`), and that the two restore
the invariant. `NoLateAnswer` and `FirstComeFirstServed` are about a step and
come from it: a drain starts jobs from the front of the queue only, and an answer
is given in the step that looked at the job's deadline and signal.

`HistoryCoordinatorProofs` proves the safety properties of the run `history` for
any messages, assets, synchronizations and scenes, from `HistoryConstants`. The
invariant follows the newest text of a message: in the pending map it is the
newest there is (`PendingIsNewest`), in the queue it is the newest or a newer one
comes behind it (`QueueInOrder`), and one that is neither pending nor queued is
saved or was lost by a failing store (`NewestIsSafe`, `OnlyStoreLoses`). That the
store never goes back needs `OneAtATime`: only the oldest job has begun, so no
read is stale when it is committed. What a commit
makes of a single entry is `FlushedIs` and `ReconciledIs`, and that it only adds to
it is `MergedGrows`, from which `EntriesOnlyGrow` follows. `DroppedIsNeverInSync`
is inductive once only a failing store drops anything: the only step that makes
the status "idle" is a batch's commit, which reconciles.

`DesktopSessionsProofs` proves the safety properties of the run `sessions` for
any finite set of conversations and any callers and sessions, from
`SessionConstants`. `MapsMatch` ties a session's stage to the map entry that stands
for it, `OneAtATime` says that a conversation is never both opening and live, and
`HeldUntilOver` that only an opening or live session holds a resource: together,
one session per conversation. `StopsInOrder` says what each stage of `close` may
rely on, up to `NothingOutlivesClose`, and `FailuresFollowed` who has yet to record
a release that failed, so that `FailuresSurface`. The set of conversations is
finite because `close` copies the live sessions into a list.

`WorkflowRunProofs` proves the five safety properties of the run `workflow` for
any sessions, operations, steps and programs, from `BridgeConstants` and
`RunConstants`. Where the run lets one thing go wrong in a behaviour, the
theorems hold however often the store, the provider, the wire and the host fail
(`FaultsRecur`). No property is inductive, and each needs parts of the bridge
and of the run. *Receipts*: that a word is true (`WordsAreTrue`) survives each
of the three writers only because nothing certain is said of an operation before
it is recorded (`NothingBeforeRecord`): an operation is asked for in the step
that records it, and a "denied" said before that would become false by it. *One
in doubt*: an operation that is open in a session the bridge holds is the active
one (`UnsettledIsActive`), because a submit that has taken its session keeps its
operation there (`SubmitsHold`, `StepsInPlace`) and only a true end or refusal
clears it. *What a run reports*: `DoubtIsTraced` gives each open operation an
entry in the run's books or a witness, the step that asked, which the run still
waits for and of which nothing definite was said (`Witness`); `TasksMatch` ties
the activity, the dispatcher's promise and the handler of a step together, and
`EndingMatches` says whom the cleanup covers, so that nobody is waited for once
the run has ended. *Sessions*: `OpeningsMatch` follows a provider's session from
its opening to whoever gives it back. Steps are grouped by what they leave alone
(`BridgeFrames`, `RunFrames`), so that a part goes only through the actions that
can disturb it.

Only model-checked: all liveness (`PlainAttemptsSettle`, `DeadOwnerIsReclaimed`,
`ClosedLetsGo`, `CallersAreAnswered`, `CloseReturns`, `CallsReturn`,
`NothingWaitsForEver`, `RunsEnd`), which is out of the proof system's reach here.
Every safety property of every passing run is stated by a theorem, without a
hypothesis beyond the assumptions on the constants.

## Assumptions and what is left out

* *Files.* A crash is a crash of the process: what a completed call wrote is
  there afterwards, and `rename` replaces a file whole. Power loss is not
  modelled.
* *Recovery.* A `recover` hook that answers `retryable` is believed: it says
  that no earlier attempt had an effect. A handler that throws `retryable`
  likewise. A hook that throws a definite failure is believed too.
* *Cancellation before the first dispatch* of a run is forgotten by the
  dispatcher (`receipts.ts:186`), in the model as in the code; what follows from
  it for the run is part of `WorkflowRun`.
* *Processes.* A PID is not reused while its lock file exists. A lock file left
  incomplete by a crash or a failed write is never reclaimed, on purpose.
* *Listings.* `listOwners` acquires the lock without `close` waiting for it, so
  a manager closed meanwhile keeps the lock. `ClosedLetsGo` is therefore stated
  of the acquisitions close waits for; in the run `lock` one manager lists.
* *Budgets.* A caller's remaining time never grows.
* *Closing.* The host stops writing and synchronizing a conversation once it
  closes its coordinator (`application.ts` closes sessions before histories).
* *Sessions.* The steps of `close` before and after `live.close()`
  (`application.ts:2229-2241`) are other parts' own; they are left out between
  `Drain` and `OpeningsSettled`. Delegation lists and goals of a session are
  data.
* *Clocks.* The host's clock does not go back: a day set back would give the
  day's curation budget anew (`nightloom/src/index.ts:139`).
* *Agents.* A provider's session ends with the host's process, and a request to
  a provider, `execute` among them, returns or fails. A child run has a life and
  nothing else.
* *Curation.* The policy does not change between the two looks of `assess`, and
  an assessment is identified by its batch: receipts of an earlier version
  without a deadline are left out, and evidence that has changed since the
  intent answers "blocked", in the scene with a changing policy only.
* *Not modelled*: formatting, schemas, tracing and telemetry throughout;
  the parts of the inventory the plan has not reached; the Codex protocol
  translation, SQL queries, user interface and Tauri shell, which are parsing,
  data and presentation.
