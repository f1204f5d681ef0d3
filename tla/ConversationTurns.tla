--------------------------- MODULE ConversationTurns ---------------------------
(***************************************************************************)
(* Who owns what a provider executes in one conversation.  Three parties   *)
(* each keep an opinion: the host its session's active operation           *)
(* (application.ts, continuation-admission.ts), the Codex adapter its      *)
(* active turn (codex-agent/src/index.ts), and the signal reader, which    *)
(* follows the adapter's signals late (session-signals.ts).                *)
(*                                                                         *)
(* Operations start in two ways: a send command executes one, and a turn   *)
(* the provider starts by itself asks the host for admission.  Both look   *)
(* at the host's state, wait, and look again.  HTTP commands are           *)
(* serialized (server.ts), so at most one send or set_mode is under way.   *)
(* Publishing, retiring and closing sessions is DesktopSessions; here a    *)
(* session is published in one step and unpublished in another.            *)
(***************************************************************************)
EXTENDS Naturals, Sequences, SequencesExt

CONSTANTS
    Sessions,       \* sessions of the conversation, each published once
    MaxOps,         \* bound: operation identities handed out
    SavesFail,      \* whether saving project metadata may fail
    NoSession

ASSUME TurnConstants == MaxOps \in Nat /\ SavesFail \in BOOLEAN /\ NoSession \notin Sessions

VARIABLES
    running,    \* lifecycle.state is "running"
    live,       \* the session published for the conversation
    up,         \* each session's adapter connection
    active,     \* state.active of each session
    turn,       \* the adapter's active operation
    starting,   \* the adapter is executing a submission
    native,     \* the adapter's admission of a native turn, one at a time
    signals,    \* emitted signals the reader has yet to process
    mode,       \* conversation.mode
    required,   \* conversation.defaultModeRequired
    cmd,        \* the command being processed
    last,       \* the operation identity handed out last
    own         \* history: operations the provider started by itself

vars == <<running, live, up, active, turn, starting, native, signals, mode, required,
          cmd, last, own>>

None == 0
Ops == 1 .. MaxOps
Modes == {"default", "plan"}

\* A send in preparation; it remembers the operation it meant to steer.
Sends == [at : {"preparing", "goals", "saving", "calling", "executing", "returning"},
          session : Sessions, op : Ops, target : Ops \cup {None}, mode : Modes]

ModeChanges == [at : {"entering", "storing"}, session : Sessions, previous : Modes]

NoCommand == [at |-> "none"]

NoAdmission == [at |-> "none"]

Admissions == [at : {"checking"}, state : Sessions] \cup [at : {"admitted", "storing"}, op : Ops]

Signals == {"started", "ended"} \X Ops

TypeOK ==
    /\ running \in BOOLEAN /\ required \in BOOLEAN /\ mode \in Modes
    /\ live \in Sessions \cup {NoSession}
    /\ up \in [Sessions -> {"new", "open", "closed"}]
    /\ active \in [Sessions -> Ops \cup {None}]
    /\ turn \in [Sessions -> Ops \cup {None}]
    /\ starting \in [Sessions -> BOOLEAN]
    /\ native \in [Sessions -> Admissions \cup {NoAdmission}]
    /\ signals \in [Sessions -> Seq(Signals)]
    /\ cmd \in Sends \cup ModeChanges \cup {NoCommand}
    /\ last \in 0 .. MaxOps /\ own \subseteq 1 .. last
    /\ \A s \in Sessions :
        /\ starting[s] = (cmd.at \in {"executing", "returning"} /\ cmd.session = s)
        /\ turn[s] # None => up[s] = "open"

Init ==
    /\ running = TRUE /\ live = NoSession
    /\ up = [s \in Sessions |-> "new"]
    /\ active = [s \in Sessions |-> None]
    /\ turn = [s \in Sessions |-> None]
    /\ starting = [s \in Sessions |-> FALSE]
    /\ native = [s \in Sessions |-> NoAdmission]
    /\ signals = [s \in Sessions |-> <<>>]
    /\ mode = "default" /\ required = FALSE
    /\ cmd = NoCommand
    /\ last = 0 /\ own = {}

sessionVars == <<running, live, up>>
turnVars == <<turn, starting, native, signals>>
modeVars == <<mode, required>>
idVars == <<last, own>>

Emit(s, kind, op) == signals' = [signals EXCEPT ![s] = Append(@, <<kind, op>>)]

\* delete state.active, if it still names the operation.
Released(s, op) == [active EXCEPT ![s] = IF @ = op THEN None ELSE @]

--------------------------------------------------------------------------------
\* Sessions

Publish(s) ==
    /\ running /\ live = NoSession /\ up[s] = "new"
    /\ live' = s /\ up' = [up EXCEPT ![s] = "open"]
    /\ UNCHANGED <<running, active, turnVars, modeVars, cmd, idVars>>

StopRunning ==
    /\ running /\ running' = FALSE
    /\ UNCHANGED <<live, up, active, turnVars, modeVars, cmd, idVars>>

\* finish: the adapter forgets its turn, the host's onTurnFinished forgets the
\* operation of the live session, and the reader will hear of it.
Finished(s) ==
    /\ turn' = [turn EXCEPT ![s] = None]
    /\ active' = IF live = NoSession THEN active ELSE Released(live, turn[s])
    /\ Emit(s, "ended", turn[s])

\* The connection is lost or the session is closed.
Disconnect(s) ==
    /\ up[s] = "open"
    /\ up' = [up EXCEPT ![s] = "closed"]
    /\ IF turn[s] = None THEN UNCHANGED <<turn, active, signals>> ELSE Finished(s)
    /\ UNCHANGED <<running, live, starting, native, modeVars, cmd, idVars>>

\* The signal stream ends; the session is retired and unavailable() follows.
Retire(s) ==
    /\ running /\ live = s /\ up[s] = "closed" /\ signals[s] = <<>>
    /\ live' = NoSession
    /\ active' = [active EXCEPT ![s] = None]
    /\ UNCHANGED <<running, up, turnVars, modeVars, cmd, idVars>>

\* A reader that takes every start for the active operation.
HeardBlindly(s, kind, op) ==
    IF kind = "started" THEN [active EXCEPT ![s] = op] ELSE Released(s, op)

Heard(s, kind, op) ==
    IF kind = "started"
    THEN [active EXCEPT ![s] = IF @ = None THEN op ELSE @]
    ELSE Released(s, op)

\* The reader processes the next signal.
Read(s) ==
    /\ live = s /\ signals[s] # <<>>
    /\ active' = Heard(s, Head(signals[s])[1], Head(signals[s])[2])
    /\ signals' = [signals EXCEPT ![s] = Tail(@)]
    /\ UNCHANGED <<sessionVars, turn, starting, native, modeVars, cmd, idVars>>

--------------------------------------------------------------------------------
\* The send command

\* It steers the active operation, if there is one, else means to start one.
Send ==
    /\ running /\ cmd = NoCommand /\ live # NoSession
    /\ IF active[live] # None
       THEN /\ cmd' = [at |-> "preparing", session |-> live, op |-> active[live],
                       target |-> active[live], mode |-> mode]
            /\ UNCHANGED last
       ELSE /\ last < MaxOps /\ last' = last + 1
            /\ cmd' = [at |-> "preparing", session |-> live, op |-> last + 1,
                       target |-> None, mode |-> mode]
    /\ UNCHANGED <<sessionVars, active, turnVars, modeVars, own>>

\* The operation to be steered is over: prepare again, for a new one.
Reprepare ==
    LET s == cmd.session
    IN  /\ cmd.at = "preparing" /\ cmd.target # None /\ active[s] = None
        /\ last < MaxOps /\ last' = last + 1
        /\ cmd' = [cmd EXCEPT !.op = last + 1, !.target = None]
        /\ UNCHANGED <<sessionVars, active, turnVars, modeVars, own>>

\* Preparation ends.  A steered operation that was replaced, a closing host and
\* steering itself change nothing more here; a start reads the goal in Plan
\* mode and otherwise takes the conversation at once.
Prepared ==
    LET s == cmd.session
    IN  /\ cmd.at = "preparing" /\ (cmd.target # None => active[s] # None)
        /\ IF ~running \/ active[s] # None
           THEN cmd' = NoCommand /\ UNCHANGED active
           ELSE IF cmd.mode = "plan"
                THEN cmd' = [cmd EXCEPT !.at = "goals"] /\ UNCHANGED active
                ELSE /\ cmd' = [cmd EXCEPT !.at = "calling"]
                     /\ active' = [active EXCEPT ![s] = cmd.op]
        /\ UNCHANGED <<sessionVars, turnVars, modeVars, idVars>>

\* assertPlanningIdle after the goal was read, which a closed session refuses.
PlanningIdle(s) == up[s] = "open" /\ active[s] = None

GoalsRead ==
    /\ cmd.at = "goals"
    /\ \/ cmd' = NoCommand /\ UNCHANGED required
       \/ /\ PlanningIdle(cmd.session)
          /\ cmd' = [cmd EXCEPT !.at = "saving"]
          /\ required' = TRUE
    /\ UNCHANGED <<sessionVars, active, turnVars, mode, idVars>>

Saved ==
    /\ cmd.at = "saving"
    /\ cmd' = [cmd EXCEPT !.at = "calling"]
    /\ active' = [active EXCEPT ![cmd.session] = cmd.op]
    /\ UNCHANGED <<sessionVars, turnVars, modeVars, idVars>>

SaveFails ==
    /\ SavesFail /\ cmd.at = "saving"
    /\ cmd' = NoCommand
    /\ UNCHANGED <<sessionVars, active, turnVars, modeVars, idVars>>

\* A failed submission that keeps the conversation.
FailureKept(s, op) == active

\* execute was refused or failed: the host lets go of the operation.
ReleasedOnFailure(s, op) == Released(s, op)

ExecuteRefused ==
    LET s == cmd.session
    IN  /\ cmd.at = "calling" /\ (up[s] # "open" \/ turn[s] # None \/ starting[s])
        /\ cmd' = NoCommand
        /\ active' = ReleasedOnFailure(s, cmd.op)
        /\ UNCHANGED <<sessionVars, turnVars, modeVars, idVars>>

Execute ==
    LET s == cmd.session
    IN  /\ cmd.at = "calling" /\ up[s] = "open" /\ turn[s] = None /\ ~starting[s]
        /\ cmd' = [cmd EXCEPT !.at = "executing"]
        /\ starting' = [starting EXCEPT ![s] = TRUE]
        /\ UNCHANGED <<sessionVars, active, turn, native, signals, modeVars, idVars>>

\* turn/start is answered: the adapter takes the turn, whatever it has.
TurnStarts ==
    LET s == cmd.session
    IN  /\ cmd.at = "executing" /\ up[s] = "open"
        /\ cmd' = [cmd EXCEPT !.at = "returning"]
        /\ turn' = [turn EXCEPT ![s] = cmd.op]
        /\ Emit(s, "started", cmd.op)
        /\ UNCHANGED <<sessionVars, active, starting, native, modeVars, idVars>>

\* An input, turn/start or the connection failed.
ExecuteFails ==
    LET s == cmd.session
    IN  /\ cmd.at = "executing"
        /\ cmd' = NoCommand
        /\ starting' = [starting EXCEPT ![s] = FALSE]
        /\ active' = ReleasedOnFailure(s, cmd.op)
        /\ UNCHANGED <<sessionVars, turn, native, signals, modeVars, idVars>>

\* The identities are stored and execute returns; the host notes a confirmed
\* default-mode submission.
Returned ==
    /\ cmd.at = "returning"
    /\ cmd' = NoCommand
    /\ starting' = [starting EXCEPT ![cmd.session] = FALSE]
    /\ required' = (required /\ cmd.mode = "plan")
    /\ UNCHANGED <<sessionVars, active, turn, native, signals, mode, idVars>>

--------------------------------------------------------------------------------
\* The set_mode command

SetMode(m) ==
    /\ running /\ cmd = NoCommand /\ live # NoSession /\ active[live] = None
    /\ IF m = "plan"
       THEN /\ cmd' = [at |-> "entering", session |-> live, previous |-> mode]
            /\ UNCHANGED mode
       ELSE /\ cmd' = [at |-> "storing", session |-> live, previous |-> mode]
            /\ mode' = m
    /\ UNCHANGED <<sessionVars, active, turnVars, required, idVars>>

Entered ==
    /\ cmd.at = "entering"
    /\ \/ cmd' = NoCommand /\ UNCHANGED mode
       \/ /\ PlanningIdle(cmd.session)
          /\ cmd' = [cmd EXCEPT !.at = "storing"]
          /\ mode' = "plan"
    /\ UNCHANGED <<sessionVars, active, turnVars, required, idVars>>

\* Saving the mode; when it fails the previous one is put back.
ModeStored(ok) ==
    /\ cmd.at = "storing" /\ (ok \/ SavesFail)
    /\ cmd' = NoCommand
    /\ mode' = IF ok THEN mode ELSE cmd.previous
    /\ UNCHANGED <<sessionVars, active, turnVars, required, idVars>>

--------------------------------------------------------------------------------
\* Turns the provider starts by itself

Continues == running /\ mode # "plan" /\ ~required

\* turn/started: unless the adapter has a turn or is starting one (it then
\* buffers the message), it asks the host, which looks at the live session.
NativeTurn(s) ==
    /\ up[s] = "open" /\ native[s] = NoAdmission /\ turn[s] = None /\ ~starting[s]
    /\ live # NoSession /\ active[live] = None /\ Continues
    /\ native' = [native EXCEPT ![s] = [at |-> "checking", state |-> live]]
    /\ UNCHANGED <<sessionVars, active, turn, starting, signals, modeVars, cmd, idVars>>

\* An admission that trusts its first look.
AdmissibleOnce(state) == live = state

Admissible(state) == live = state /\ active[state] = None /\ Continues

\* The project directory is verified and the host looks again.
Admitted(s) ==
    /\ native[s].at = "checking" /\ Admissible(native[s].state)
    /\ last < MaxOps /\ last' = last + 1 /\ own' = own \cup {last + 1}
    /\ active' = [active EXCEPT ![native[s].state] = last + 1]
    /\ native' = [native EXCEPT ![s] = [at |-> "admitted", op |-> last + 1]]
    /\ UNCHANGED <<sessionVars, turn, starting, signals, modeVars, cmd>>

\* Not verified, or not admissible any more.
Denied(s) ==
    /\ native[s].at = "checking"
    /\ native' = [native EXCEPT ![s] = NoAdmission]
    /\ UNCHANGED <<sessionVars, active, turn, starting, signals, modeVars, cmd, idVars>>

\* The adapter adopts the turn even when it was closed meanwhile.
AdoptableAlways(s) == TRUE

Adoptable(s) == up[s] = "open" /\ turn[s] = None

Adopt(s) ==
    /\ native[s].at = "admitted"
    /\ IF Adoptable(s)
       THEN /\ turn' = [turn EXCEPT ![s] = native[s].op]
            /\ native' = [native EXCEPT ![s].at = "storing"]
       ELSE native' = [native EXCEPT ![s] = NoAdmission] /\ UNCHANGED turn
    /\ UNCHANGED <<sessionVars, active, starting, signals, modeVars, cmd, idVars>>

\* The identities of the turn are stored; the start is told even to a session
\* closed meanwhile.
Stored(s) ==
    /\ native[s].at = "storing"
    /\ native' = [native EXCEPT ![s] = NoAdmission]
    /\ Emit(s, "started", native[s].op)
    /\ UNCHANGED <<sessionVars, active, turn, starting, modeVars, cmd, idVars>>

StoreFails(s) ==
    /\ native[s].at = "storing"
    /\ native' = [native EXCEPT ![s] = NoAdmission]
    /\ IF turn[s] = None THEN UNCHANGED <<turn, active, signals>> ELSE Finished(s)
    /\ UNCHANGED <<sessionVars, starting, modeVars, cmd, idVars>>

\* turn/completed; messages wait while an admission is being processed.
TurnEnds(s) ==
    /\ turn[s] # None /\ native[s] = NoAdmission
    /\ Finished(s)
    /\ UNCHANGED <<sessionVars, starting, native, modeVars, cmd, idVars>>

Submission == Send \/ Reprepare \/ Prepared \/ GoalsRead \/ Saved \/ SaveFails
              \/ ExecuteRefused \/ Execute \/ TurnStarts \/ ExecuteFails \/ Returned

Next ==
    \/ \E s \in Sessions :
        \/ Publish(s) \/ Disconnect(s) \/ Retire(s) \/ Read(s)
        \/ NativeTurn(s) \/ Admitted(s) \/ Denied(s) \/ Adopt(s) \/ Stored(s)
        \/ StoreFails(s) \/ TurnEnds(s)
    \/ StopRunning \/ Submission
    \/ \E m \in Modes : SetMode(m)
    \/ Entered \/ \E ok \in BOOLEAN : ModeStored(ok)

Spec == Init /\ [][Next]_vars

--------------------------------------------------------------------------------

\* What the provider executes is the active operation of the live session:
\* tools, approvals and Stop all find their way by it.
RunsAreOwned ==
    \A s \in Sessions : turn[s] # None => live = s /\ active[s] = turn[s]

\* The conversation is never left occupied: its active operation is being
\* submitted or adopted, or runs, or its end is on its way to the reader.
NoPhantomOperation ==
    \A s \in Sessions, op \in Ops :
        live = s /\ up[s] = "open" /\ active[s] = op =>
            \/ turn[s] = op
            \/ cmd.at \in {"calling", "executing"} /\ cmd.session = s /\ cmd.op = op
            \/ native[s] = [at |-> "admitted", op |-> op]
            \/ Contains(signals[s], <<"ended", op>>)

\* A turn is only ever ended, never overwritten by another one.
NoTurnOverwritten ==
    [][\A s \in Sessions : turn[s] # None => turn'[s] \in {turn[s], None}]_vars

================================================================================
