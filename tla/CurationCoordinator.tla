-------------------------- MODULE CurationCoordinator --------------------------
(***************************************************************************)
(* The coordinator of knowledge maintenance                                *)
(* (packages/knowledge/nightloom/src/index.ts): it decides when a          *)
(* maintenance run is due, reserves its identity and its share of the      *)
(* day's budget in a store before it starts the run at the orchestrator,   *)
(* and holds every new run back while the last one is not known to be over.*)
(*                                                                         *)
(* Its operations are serialized, and it is the store's only writer, so a  *)
(* compareAndSet after its own load succeeds.  They are interrupted where  *)
(* the code awaits: the clock passes midnight, the run goes on, the host   *)
(* dies.  The budget counts starts; the milliseconds it also counts move   *)
(* with them.  What a run does is not said here: CurationRun models it.    *)
(***************************************************************************)
EXTENDS Naturals, FiniteSets

CONSTANTS
    MaxRuns,    \* bound on the runs ever reserved
    LastDay,    \* bound on the clock
    Limits      \* the automatic starts a day that settings may allow

ASSUME CoordinatorConstants ==
    /\ MaxRuns \in Nat \ {0} /\ LastDay \in Nat \ {0}
    /\ Limits \subseteq Nat \ {0} /\ Limits # {}

VARIABLES
    day,        \* the UTC day of the host's clock
    saved,      \* the coordinator's saved state
    call,       \* the operation under way: who asked, and how far it has got
    run,        \* the orchestrator's runs
    reserved    \* what each run was reserved as: the budget's day, and whether it counted

coordinator == <<day, saved, call, run, reserved>>

Runs == 1..MaxRuns
NoRun == 0

\* A run is "done" when it completed and its result is not deferred, and "held"
\* when it failed, was cancelled or left its assessment's outcome open.
RunStates == {"none", "running", "done", "held"}

Modes == {"automatic", "manual", "override"}
Idle == [mode |-> "manual", at |-> "idle"]

CoordinatorTypeOK ==
    /\ day \in 1..LastDay
    /\ saved \in [paused : BOOLEAN, limit : Limits, day : 1..LastDay, starts : Nat,
                  next : 1..(MaxRuns + 1), active : Runs \cup {NoRun}, started : BOOLEAN]
    /\ call \in [mode : Modes,
                 at : {"idle", "looking", "deciding", "admitting", "dispatching", "recording"}]
    /\ run \in [Runs -> RunStates]
    /\ reserved \in [Runs -> [day : 0..LastDay, counted : BOOLEAN]]

CoordinatorInit ==
    /\ day = 1
    /\ saved \in [paused : {FALSE}, limit : Limits, day : {1}, starts : {0},
                  next : {1}, active : {NoRun}, started : {FALSE}]
    /\ call = Idle
    /\ run = [r \in Runs |-> "none"]
    /\ reserved = [r \in Runs |-> [day |-> 0, counted |-> FALSE]]

Goes(place) == call' = [call EXCEPT !.at = place]
Returns == call' = Idle

\* tick and runNow: readiness and the size of the backlog are asked for first,
\* and the operation may end there.
Asks(mode) ==
    /\ call = Idle
    /\ call' = [mode |-> mode, at |-> "looking"]
    /\ UNCHANGED <<day, saved, run, reserved>>

\* normalizeDay: a new day has its own budget.
Looks ==
    /\ call.at = "looking"
    /\ saved' = IF saved.day = day THEN saved ELSE [saved EXCEPT !.day = day, !.starts = 0]
    /\ Goes("deciding")
    /\ UNCHANGED <<day, run, reserved>>

\* A run that has ended, however it ended.
OverAnyway(r) == run[r] \in {"done", "held"}

\* clearTerminal: the run completed, and nothing of it is left in doubt.
\* "Cancellation/failure does not prove a previously accepted assessment ended."
ProvenOver(r) == run[r] = "done"

\* A pause ends the operation; a reserved run is dispatched again; a started one
\* makes room only when it is proven over.
Decides ==
    /\ call.at = "deciding"
    /\ IF saved.paused THEN Returns /\ UNCHANGED saved
       ELSE IF saved.active = NoRun THEN Goes("admitting") /\ UNCHANGED saved
       ELSE IF ~saved.started THEN Goes("dispatching") /\ UNCHANGED saved
       ELSE IF ProvenOver(saved.active)
            THEN Goes("admitting") /\ saved' = [saved EXCEPT !.active = NoRun, !.started = FALSE]
            ELSE Returns /\ UNCHANGED saved
    /\ UNCHANGED <<day, run, reserved>>

UsesBudget == call.mode # "override"

\* A reservation that is not charged.
NotCharged == saved.starts

\* What the reservation leaves of the day's budget.
Charged == saved.starts + (IF UsesBudget THEN 1 ELSE 0)

\* The reservation is saved before anything is started.
Reserves ==
    /\ call.at = "admitting" /\ saved.next <= MaxRuns
    /\ UsesBudget => saved.starts < saved.limit
    /\ saved' = [saved EXCEPT !.active = saved.next, !.started = FALSE,
                              !.next = @ + 1, !.starts = Charged]
    /\ reserved' = [reserved EXCEPT ![saved.next] = [day |-> saved.day, counted |-> UsesBudget]]
    /\ Goes("dispatching")
    /\ UNCHANGED <<day, run>>

\* Not ready, nothing due, the budget is exhausted, or the orchestrator cannot
\* be asked: the operation ends.
Declines ==
    /\ call.at \in {"looking", "deciding", "admitting", "dispatching"}
    /\ Returns
    /\ UNCHANGED <<day, saved, run, reserved>>

\* orchestrator.start has its effect once; its answer may be lost.
Dispatches(answered) ==
    /\ call.at = "dispatching"
    /\ run' = [run EXCEPT ![saved.active] = IF @ = "none" THEN "running" ELSE @]
    /\ IF answered THEN Goes("recording") ELSE Returns
    /\ UNCHANGED <<day, saved, reserved>>

\* The run's id is saved.
Records ==
    /\ call.at = "recording"
    /\ saved' = [saved EXCEPT !.started = TRUE]
    /\ Returns
    /\ UNCHANGED <<day, run, reserved>>

\* pause and resume.
SetPaused(paused) ==
    /\ call = Idle /\ saved.paused # paused
    /\ saved' = [saved EXCEPT !.paused = paused]
    /\ UNCHANGED <<day, call, run, reserved>>

\* configure refuses while a run is active.
Configure(limit) ==
    /\ call = Idle /\ saved.limit # limit /\ saved.active = NoRun
    /\ saved' = [saved EXCEPT !.limit = limit]
    /\ UNCHANGED <<day, call, run, reserved>>

Midnight ==
    /\ day < LastDay
    /\ day' = day + 1
    /\ UNCHANGED <<saved, call, run, reserved>>

Coordinates ==
    \/ \E mode \in Modes : Asks(mode)
    \/ Looks \/ Decides \/ Reserves \/ Declines \/ Records
    \/ \E answered \in BOOLEAN : Dispatches(answered)
    \/ \E paused \in BOOLEAN : SetPaused(paused)
    \/ \E limit \in Limits : Configure(limit)
    \/ Midnight

--------------------------------------------------------------------------------

\* "Only one run": a run that is not proven over is the one the coordinator
\* remembers, through lost answers, pauses, midnights and restarts; so a second
\* is never started beside it.
OneRunAtATime ==
    \A r \in Runs : run[r] \in {"running", "held"} => saved.active = r

\* The budget is spent before the start it pays for: whatever is lost or
\* repeated, a day's counted reservations never pass what settings allow.
BudgetKept ==
    [][\A r \in Runs : reserved'[r] # reserved[r] /\ reserved'[r].counted =>
        Cardinality({k \in Runs : reserved[k].counted /\ reserved[k].day = reserved'[r].day})
            < saved.limit]_coordinator

================================================================================
