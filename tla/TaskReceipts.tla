---------------------------- MODULE TaskReceipts ----------------------------
(***************************************************************************)
(* The receipt dispatcher of @drawloom/temporal-orchestration              *)
(* (createReceiptDispatcher in src/receipts.ts): it runs the effect behind *)
(* a workflow step and keeps one durable receipt per step, so that a step  *)
(* delivered again -- by an engine retry, a second connection, or after a  *)
(* crash of the host -- never repeats an effect whose outcome is unknown.  *)
(*                                                                         *)
(* An action ends where the code awaits.  A dispatch that joins the active *)
(* promise of its step, and one that is refused by a check that writes     *)
(* nothing, change no state and are no steps of this specification.        *)
(***************************************************************************)
EXTENDS Integers, FiniteSets

CONSTANTS
  Steps,            \* step identities (one receipt file each)
  Runs,             \* workflow runs
  RunOf,            \* the run whose identity prefixes that of the step
  Fingerprints,     \* canonical [task, version, input, maxAttempts]
  Limit,            \* the maxAttempts part of a fingerprint
  Recoverable,      \* fingerprints whose task handler has a recover hook
  Outputs,          \* what a handler may return
  NoOutput,         \* no output
  MaxTaskAttempts,  \* MAX_TASK_ATTEMPTS
  MaxCrashes        \* bound on the crashes of a behaviour

ASSUME ReceiptConstants ==
  /\ RunOf \in [Steps -> Runs]
  /\ MaxTaskAttempts \in Nat \ {0}
  /\ Limit \in [Fingerprints -> 1..MaxTaskAttempts]
  /\ Recoverable \subseteq Fingerprints
  /\ NoOutput \notin Outputs
  /\ MaxCrashes \in Nat

Attempts == 1..MaxTaskAttempts

(* StepFailure codes; an error that is none of them counts as unknown.     *)
Codes == {"retryable", "denied", "invalid", "unknown"}

(* How the work of an attempt ends, as the receipt file and the reply say. *)
Failure(code) == [status |-> code, output |-> NoOutput]
Success(out)  == [status |-> "completed", output |-> out]
Outcomes == {Failure(c) : c \in Codes} \cup {Success(o) : o \in Outputs}

(* A receipt: fingerprint and attempt it was written for, and its status;  *)
(* the code of a "failed" receipt stands for the status itself.            *)
Intent    == [status |-> "intent", output |-> NoOutput]
NoReceipt == [status |-> "absent", output |-> NoOutput]
Contents  == Outcomes \cup {Intent}

VARIABLES
  receipt,  \* the receipt file of each step: [fp, attempt, body]
  exec,     \* the entry of each step in the active map, and its continuation
  run,      \* runCancellation: "unseen", "open" or "aborted"
  closed,   \* the dispatcher was closed
  live,     \* invocations of handler.run not settled yet, late ones included
  starts,   \* history: how often handler.run was called for an attempt
  doubt,    \* history: attempts whose effect may have happened, for all we know
  answers,  \* history: what callers were answered from the work of a step
  crashes   \* history: crashes so far

vars == <<receipt, exec, run, closed, live, starts, doubt, answers, crashes>>

Receipt == [fp : Fingerprints, attempt : Attempts, body : Contents]
Absent  == [attempt |-> 0, body |-> NoReceipt]

(* A step that is not in the active map.                                   *)
Idle == [pc |-> "idle"]
Entry(pcs, verdicts) ==
  [pc : pcs, fp : Fingerprints, attempt : Attempts, doubtful : BOOLEAN,
   aborted : BOOLEAN, verdict : verdicts]
Exec == Entry({"reading", "intending", "recovering", "running"}, {Intent})
          \cup Entry({"saving"}, Outcomes)

TypeOK ==
  /\ receipt \in [Steps -> Receipt \cup {Absent}]
  /\ exec \in [Steps -> Exec \cup {Idle}]
  /\ run \in [Runs -> {"unseen", "open", "aborted"}]
  /\ closed \in BOOLEAN
  /\ live \in [Steps -> SUBSET Attempts]
  /\ starts \in [Steps -> [Attempts -> Nat]]
  /\ doubt \in [Steps -> SUBSET Attempts]
  /\ answers \in [Steps -> SUBSET [fp : Fingerprints, is : Outcomes]]
  /\ crashes \in 0..MaxCrashes

Init ==
  /\ receipt = [s \in Steps |-> Absent]
  /\ exec = [s \in Steps |-> Idle]
  /\ run = [r \in Runs |-> "unseen"]
  /\ closed = FALSE
  /\ live = [s \in Steps |-> {}]
  /\ starts = [s \in Steps |-> [a \in Attempts |-> 0]]
  /\ doubt = [s \in Steps |-> {}]
  /\ answers = [s \in Steps |-> {}]
  /\ crashes = 0

At(s, pc) == exec[s].pc = pc
Active(s) == exec[s].pc # "idle"

-----------------------------------------------------------------------------
(* dispatch: the checks that precede the active map, then a new entry.     *)
Dispatch(s, fp, a) ==
  /\ ~closed
  /\ run[RunOf[s]] # "aborted"
  /\ a <= Limit[fp]
  /\ ~Active(s)
  /\ run' = [run EXCEPT ![RunOf[s]] = "open"]
  /\ exec' = [exec EXCEPT ![s] =
       [pc |-> "reading", fp |-> fp, attempt |-> a, doubtful |-> FALSE,
        aborted |-> FALSE, verdict |-> Intent]]
  /\ UNCHANGED <<receipt, closed, live, starts, doubt, answers, crashes>>

(* A dispatch refused after its run was entered in runCancellation: a step *)
(* of another run, an attempt above maxAttempts, a conflicting entry.      *)
RefuseDispatch(r) ==
  /\ ~closed
  /\ run[r] = "unseen"
  /\ run' = [run EXCEPT ![r] = "open"]
  /\ UNCHANGED <<receipt, exec, closed, live, starts, doubt, answers, crashes>>

(* The promise of the entry settles: its callers hear `outcome` and the    *)
(* finally block removes the entry.                                        *)
Answer(s, outcome) ==
  /\ exec' = [exec EXCEPT ![s] = Idle]
  /\ answers' = [answers EXCEPT ![s] =
                   @ \cup {[fp |-> exec[s].fp, is |-> outcome]}]

(* A receipt of unknown outcome: only the recover hook may be called.      *)
Uncertain(saved) == saved.body.status \in {"intent", "unknown"}

(* The next attempt of a failure the handler called retryable.             *)
MayRetry(saved, e) ==
  /\ saved.body.status = "retryable"
  /\ e.attempt > saved.attempt
  /\ e.attempt <= Limit[e.fp]

(* The checks of execute on the saved receipt, in their order: what the    *)
(* caller is told at once, or Intent when the attempt goes on.             *)
Admission(saved, e) ==
  IF saved = Absent
  THEN IF e.attempt = 1 THEN Intent ELSE Failure("unknown")
  ELSE CASE saved.fp # e.fp                    -> Failure("invalid")
         [] saved.fp = e.fp /\ saved.body.status = "completed" -> saved.body
         [] saved.fp = e.fp /\ saved.body.status # "completed"
              /\ e.attempt < saved.attempt     -> Failure("invalid")
         [] saved.fp = e.fp /\ saved.body.status # "completed"
              /\ e.attempt >= saved.attempt
              -> IF Uncertain(saved) \/ MayRetry(saved, e) THEN Intent
                 ELSE saved.body

(* await readJson returns, and execute runs up to writing the intent.      *)
ReadReceipt(s) ==
  /\ At(s, "reading")
  /\ LET e == exec[s]
         admitted == Admission(receipt[s], e)
     IN IF admitted = Intent
        THEN /\ exec' = [exec EXCEPT ![s] =
                  [e EXCEPT !.pc = "intending",
                            !.doubtful = Uncertain(receipt[s])]]
             /\ UNCHANGED answers
        ELSE Answer(s, admitted)
  /\ UNCHANGED <<receipt, run, closed, live, starts, doubt, crashes>>

(* readJson or Receipt.parse throws: a raw error, told as unknown.         *)
ReadFails(s) ==
  /\ At(s, "reading")
  /\ Answer(s, Failure("unknown"))
  /\ UNCHANGED <<receipt, run, closed, live, starts, doubt, crashes>>

-----------------------------------------------------------------------------
(* The receipt an entry is writing; writeJson renames a complete file into *)
(* place, so a failed or interrupted write leaves the old or the new one.  *)
Writing(s) == [fp |-> exec[s].fp, attempt |-> exec[s].attempt,
               body |-> exec[s].verdict]
OldOrNew(s) == IF At(s, "intending") \/ At(s, "saving")
               THEN {receipt[s], Writing(s)}
               ELSE {receipt[s]}

(* Mutated: the outcome is not carried into the write.                     *)
ConcludeBlank(e, outcome) == [e EXCEPT !.pc = "saving"]

(* The race ends with `outcome`: its continuation starts the next write.   *)
Conclude(e, outcome) == [e EXCEPT !.pc = "saving", !.verdict = outcome]

(* The intent is saved and work() begins; after an abort the handler is    *)
(* not called, and an uncertain receipt is only ever recovered.            *)
IntentSaved(s) ==
  LET e == exec[s]
      calls == ~e.doubtful /\ ~e.aborted
  IN /\ At(s, "intending")
     /\ receipt' = [receipt EXCEPT ![s] = Writing(s)]
     /\ exec' = [exec EXCEPT ![s] =
          CASE e.doubtful /\ e.fp \in Recoverable
                 -> [e EXCEPT !.pc = "recovering"]
            [] e.doubtful /\ e.fp \notin Recoverable
                 -> Conclude(e, Failure("unknown"))
            [] ~e.doubtful
                 -> IF e.aborted THEN Conclude(e, Failure("unknown"))
                    ELSE [e EXCEPT !.pc = "running"]]
     /\ IF calls
        THEN /\ live' = [live EXCEPT ![s] = @ \cup {e.attempt}]
             /\ starts' = [starts EXCEPT ![s][e.attempt] = @ + 1]
             /\ doubt' = [doubt EXCEPT ![s] = @ \cup {e.attempt}]
        ELSE UNCHANGED <<live, starts, doubt>>
     /\ UNCHANGED <<run, closed, answers, crashes>>

(* writeJson(intent) throws, outside the try: no handler is called.        *)
IntentFails(s) ==
  /\ At(s, "intending")
  /\ \E file \in OldOrNew(s) : receipt' = [receipt EXCEPT ![s] = file]
  /\ Answer(s, Failure("unknown"))
  /\ UNCHANGED <<run, closed, live, starts, doubt, crashes>>

-----------------------------------------------------------------------------
(* handler.run of the current attempt settles first and wins the race; an  *)
(* attempt that failed as retryable left no effect behind.                 *)
HandlerSettles(s, outcome) ==
  /\ At(s, "running")
  /\ exec' = [exec EXCEPT ![s] = Conclude(@, outcome)]
  /\ live' = [live EXCEPT ![s] = @ \ {exec[s].attempt}]
  /\ doubt' = IF outcome.status = "retryable"
              THEN [doubt EXCEPT ![s] = @ \ {exec[s].attempt}]
              ELSE doubt
  /\ UNCHANGED <<receipt, run, closed, starts, answers, crashes>>

(* A handler that lost the race settles: nobody listens any more.          *)
HandlerLate(s, a) ==
  /\ a \in live[s]
  /\ ~(At(s, "running") /\ exec[s].attempt = a)
  /\ live' = [live EXCEPT ![s] = @ \ {a}]
  /\ UNCHANGED <<receipt, exec, run, closed, starts, doubt, answers, crashes>>

(* The recover hook settles, or throws a StepFailure of any code; retryable *)
(* says that no attempt so far has had an effect.                          *)
RecoverSettles(s, outcome) ==
  /\ At(s, "recovering")
  /\ exec' = [exec EXCEPT ![s] = Conclude(@, outcome)]
  /\ doubt' = IF outcome.status = "retryable"
              THEN [doubt EXCEPT ![s] = {}] ELSE doubt
  /\ UNCHANGED <<receipt, run, closed, live, starts, answers, crashes>>

(* Mutated: an abort that no listener hears is not remembered either.      *)
AbortedIfHeard(e) ==
  IF e.pc \in {"recovering", "running"} /\ ~e.aborted
  THEN [Conclude(e, Failure("unknown")) EXCEPT !.aborted = TRUE] ELSE e

(* Mutated: an attempt that is given up is recorded as one to repeat.      *)
AbortedRetryable(e) ==
  CASE e.pc \in {"recovering", "running"} /\ ~e.aborted
         -> [Conclude(e, Failure("retryable")) EXCEPT !.aborted = TRUE]
    [] e.pc \in {"reading", "intending", "saving"}
         -> [e EXCEPT !.aborted = TRUE]
    [] OTHER -> e

(* Mutated: the race has no abort listener at all.                         *)
AbortedUnheard(e) == IF e.pc = "idle" THEN e ELSE [e EXCEPT !.aborted = TRUE]

(* controller.abort() on an entry.  The listener of the race is added when *)
(* the intent has been saved; an abort before that is only remembered by   *)
(* the signal, and a second abort dispatches no event.                     *)
Aborted(e) ==
  CASE e.pc = "idle" -> e
    [] e.pc \in {"recovering", "running"} /\ ~e.aborted
         -> [Conclude(e, Failure("unknown")) EXCEPT !.aborted = TRUE]
    [] e.pc \in {"recovering", "running"} /\ e.aborted -> e
    [] e.pc \in {"reading", "intending", "saving"}
         -> [e EXCEPT !.aborted = TRUE]

(* The startToClose timer, armed with the race, fires.                     *)
Timeout(s) ==
  /\ exec[s].pc \in {"recovering", "running"}
  /\ exec' = [exec EXCEPT ![s] = Aborted(@)]
  /\ UNCHANGED <<receipt, run, closed, live, starts, doubt, answers, crashes>>

-----------------------------------------------------------------------------
(* Mutated: the caller is answered while the write is still under way.     *)
OutcomeAnsweredEarly(s) ==
  /\ At(s, "saving")
  /\ Answer(s, exec[s].verdict)
  /\ UNCHANGED <<receipt, run, closed, live, starts, doubt, crashes>>

(* The final receipt is saved, and only then the caller is answered.       *)
OutcomeSaved(s) ==
  /\ At(s, "saving")
  /\ receipt' = [receipt EXCEPT ![s] = Writing(s)]
  /\ Answer(s, exec[s].verdict)
  /\ UNCHANGED <<run, closed, live, starts, doubt, crashes>>

(* Saving it throws: a completion falls into the catch block, which saves  *)
(* a failure of unknown outcome; when that throws too, the caller hears it.*)
OutcomeFails(s) ==
  /\ At(s, "saving")
  /\ \E file \in OldOrNew(s) : receipt' = [receipt EXCEPT ![s] = file]
  /\ IF exec[s].verdict.status = "completed"
     THEN /\ exec' = [exec EXCEPT ![s] =
               [@ EXCEPT !.verdict = Failure("unknown")]]
          /\ UNCHANGED answers
     ELSE Answer(s, Failure("unknown"))
  /\ UNCHANGED <<run, closed, live, starts, doubt, crashes>>

-----------------------------------------------------------------------------
(* cancel: the run's controller, when a dispatch has made one, and every   *)
(* active entry of the run.                                                *)
Cancel(r) ==
  /\ run' = [run EXCEPT ![r] = IF @ = "open" THEN "aborted" ELSE @]
  /\ exec' = [s \in Steps |-> IF RunOf[s] = r THEN Aborted(exec[s])
                              ELSE exec[s]]
  /\ UNCHANGED <<receipt, closed, live, starts, doubt, answers, crashes>>

(* close: no further dispatch, every controller aborted.                   *)
Close ==
  /\ ~closed
  /\ closed' = TRUE
  /\ run' = [r \in Runs |-> IF run[r] = "open" THEN "aborted" ELSE run[r]]
  /\ exec' = [s \in Steps |-> Aborted(exec[s])]
  /\ UNCHANGED <<receipt, live, starts, doubt, answers, crashes>>

(* The owner registers again, once close() has seen every promise settle:  *)
(* a new dispatcher over the same directory, in the same process.          *)
Reopen ==
  /\ closed
  /\ \A s \in Steps : ~Active(s)
  /\ closed' = FALSE
  /\ run' = [r \in Runs |-> "unseen"]
  /\ UNCHANGED <<receipt, exec, live, starts, doubt, answers, crashes>>

(* The host dies and starts again: everything in memory is gone, and a     *)
(* write in progress has left the old file or the new one.                 *)
Crash ==
  /\ crashes < MaxCrashes
  /\ crashes' = crashes + 1
  /\ receipt' \in {f \in [Steps -> UNION {OldOrNew(s) : s \in Steps}] :
                     \A s \in Steps : f[s] \in OldOrNew(s)}
  /\ exec' = [s \in Steps |-> Idle]
  /\ run' = [r \in Runs |-> "unseen"]
  /\ closed' = FALSE
  /\ live' = [s \in Steps |-> {}]
  /\ UNCHANGED <<starts, doubt, answers>>

Next ==
  \/ \E s \in Steps :
       \/ \E fp \in Fingerprints, a \in Attempts : Dispatch(s, fp, a)
       \/ ReadReceipt(s) \/ ReadFails(s)
       \/ IntentSaved(s) \/ IntentFails(s)
       \/ \E outcome \in Outcomes :
            HandlerSettles(s, outcome) \/ RecoverSettles(s, outcome)
       \/ \E a \in Attempts : HandlerLate(s, a)
       \/ Timeout(s)
       \/ OutcomeSaved(s) \/ OutcomeFails(s)
  \/ \E r \in Runs : RefuseDispatch(r) \/ Cancel(r)
  \/ Close \/ Reopen \/ Crash

Spec == Init /\ [][Next]_vars

(* Disk operations end, one way or the other, and timers fire; a handler   *)
(* or a recover hook need never settle.                                    *)
Fairness ==
  \A s \in Steps :
    /\ WF_vars(ReadReceipt(s) \/ ReadFails(s))
    /\ WF_vars(IntentSaved(s) \/ IntentFails(s))
    /\ WF_vars(OutcomeSaved(s) \/ OutcomeFails(s))
    /\ WF_vars(Timeout(s))

FairSpec == Spec /\ Fairness
-----------------------------------------------------------------------------
(* A handler is started only when no earlier attempt of the step may have  *)
(* had its effect: all were reported retryable by their handler or by a    *)
(* recover hook (MayRetry and the recovery branch of execute, crashes and  *)
(* failed writes included).                                                *)
NoRunUnderDoubt ==
  [][\A s \in Steps : starts'[s] # starts[s] => doubt[s] = {}]_vars

(* No attempt number is ever handed to a handler twice, although the       *)
(* receipt that says so is written before the call and may be lost.        *)
OneRunPerAttempt ==
  \A s \in Steps, a \in Attempts : starts[s][a] <= 1

(* No handler is started once cancel or close has been called, even for a  *)
(* dispatch that was reading its receipt or writing its intent then.       *)
NoRunAfterAbort ==
  [][\A s \in Steps : starts'[s] # starts[s]
       => ~closed /\ run[RunOf[s]] = "open"]_vars

(* A completion or denial that a caller has heard is the saved receipt, of *)
(* the caller's own input: it survives crashes, and every later caller     *)
(* hears the same.                                                         *)
HeardIsSaved ==
  \A s \in Steps : \A answer \in answers[s] :
    answer.is.status \in {"completed", "denied"}
      => /\ receipt[s] # Absent
         /\ receipt[s].fp = answer.fp
         /\ receipt[s].body = answer.is

(* Without a recover hook two handlers of one step never overlap, late     *)
(* ones of timed-out attempts included.                                    *)
OneHandlerUnlessRecovered ==
  \A s \in Steps :
    receipt[s] # Absent /\ receipt[s].fp \notin Recoverable
      => \A a, b \in live[s] : a = b

(* A receipt keeps the fingerprint it was first written for, and its       *)
(* attempt never goes back (the conflict and staleness checks of execute). *)
ReceiptOnlyAdvances ==
  [][\A s \in Steps : receipt[s] # Absent
       => /\ receipt'[s] # Absent
          /\ receipt'[s].fp = receipt[s].fp
          /\ receipt'[s].attempt >= receipt[s].attempt]_vars

(* The dispatcher implements the abstract promise.  While the outcome of   *)
(* an attempt is being saved the effect counts as uncertain, whatever the  *)
(* file says.                                                              *)
Phase(pc, body) ==
  IF pc = "saving" THEN "uncertain"
  ELSE CASE body.status \in {"absent", "retryable"} -> "ready"
         [] body.status \in {"intent", "unknown"}   -> "uncertain"
         [] body.status \in {"denied", "invalid"}   -> "refused"
         [] body.status = "completed"               -> "done"

Told(heard) == {o \in Outputs : \E x \in heard : x.is = Success(o)}

EffectFrom(pc, body, past, heard) ==
  [phase  |-> Phase(pc, body),
   starts |-> past.starts,
   doubt  |-> past.doubt,
   output |-> IF Phase(pc, body) = "done" THEN body.output ELSE NoOutput,
   told   |-> Told(heard)]

Past(s) == [starts |-> starts[s], doubt |-> doubt[s]]

EffectOf(s) ==
  EffectFrom(exec[s].pc, receipt[s].body, Past(s), answers[s])

Promise == INSTANCE TaskEffect
             WITH effect <- [s \in Steps |-> EffectOf(s)]
ImplementsTaskEffect == Promise!Spec

(* Every dispatch settles although handlers may hang: README "Local-v1     *)
(* task attempts remain finite" as timers and aborts implement it.         *)
AttemptsSettle == \A s \in Steps : Active(s) ~> ~Active(s)

(* The dispatches of a task that has no recover hook all settle, though    *)
(* its handler may hang.                                                   *)
PlainAttemptsSettle ==
  \A s \in Steps : Active(s) /\ exec[s].fp \notin Recoverable ~> ~Active(s)

-----------------------------------------------------------------------------
(* The inductive strengthening behind the safety properties: what the file *)
(* of a step, its entry and its history have to do with one another.       *)
Unheard(s) ==
  \A answer \in answers[s] : answer.is.status \notin {"completed", "denied"}

HistoryMatchesFile(s) ==
  /\ \A a \in Attempts :
       /\ starts[s][a] <= 1
       /\ starts[s][a] > 0 => receipt[s] # Absent /\ a <= receipt[s].attempt
  /\ receipt[s].body.status \in {"absent", "retryable"} => doubt[s] = {}
  /\ receipt[s] = Absent => live[s] = {}
  /\ \A a, b \in doubt[s] : a = b
  /\ receipt[s] # Absent /\ receipt[s].fp \notin Recoverable
       => live[s] \subseteq doubt[s]

EntryMatchesFile(s) ==
  LET e == exec[s]
      c == receipt[s]
  IN /\ e.pc = "intending" =>
          /\ Unheard(s)
          /\ e.doubtful => /\ c # Absent /\ Uncertain(c)
                           /\ c.fp = e.fp /\ c.attempt <= e.attempt
          /\ ~e.doubtful /\ c # Absent
               => c.body.status = "retryable" /\ c.fp = e.fp
                  /\ c.attempt < e.attempt
     /\ e.pc \in {"recovering", "running", "saving"} =>
          /\ Unheard(s)
          /\ c # Absent /\ c.fp = e.fp /\ c.attempt = e.attempt
     /\ e.pc = "recovering" => c.body = Intent /\ e.fp \in Recoverable
     /\ e.pc = "running" => c.body = Intent /\ doubt[s] = {e.attempt}
     /\ e.pc = "saving" =>
          /\ c.body.status \in {"intent", "completed"}
          /\ e.verdict.status = "retryable" => doubt[s] = {}

EntryMatchesRun(s) ==
  Active(s) => exec[s].aborted \/ (run[RunOf[s]] = "open" /\ ~closed)

(* Files, entries, histories and run controllers agree (execute, cancel    *)
(* and close together), which makes every property above inductive.        *)
Consistent ==
  \A s \in Steps : /\ HistoryMatchesFile(s)
                    /\ EntryMatchesFile(s)
                    /\ EntryMatchesRun(s)
=============================================================================
