---------------------------- MODULE DesktopSessions ----------------------------
(***************************************************************************)
(* Sessions and shutdown of the desktop host: createApplicationLifecycle   *)
(* (apps/desktop/host/application-lifecycle.ts), createDesktopSessions     *)
(* (desktop-sessions.ts), and the connect and close of application.ts that *)
(* compose them.                                                           *)
(*                                                                         *)
(* A caller is one call that connects to its conversation and uses the     *)
(* session.  Most are application commands, which the lifecycle admits and *)
(* close waits for; a background discovery (discovery-cache.ts) connects   *)
(* without being admitted.  A session's transport and provider session are *)
(* one resource, held from their creation to their release.  The provider  *)
(* is external: starting may fail, a signal stream may end at any time, a  *)
(* release may fail, and a closed session's stream ends.                   *)
(***************************************************************************)
EXTENDS Naturals, SequencesExt

CONSTANTS
    Conversations,
    Callers,        \* calls that connect, each once
    Unadmitted,     \* those the lifecycle does not know of
    WantOf,         \* the conversation a caller connects to
    Sessions,       \* session objects, each started once (the bound on starts)
    HomeOf,         \* the conversation a session is started for
    NoSession

ASSUME SessionConstants ==
    /\ IsFiniteSet(Conversations) /\ Unadmitted \subseteq Callers
    /\ WantOf \in [Callers -> Conversations]
    /\ HomeOf \in [Sessions -> Conversations]
    /\ NoSession \notin Sessions

VARIABLES
    life,       \* the application and how far its close has got
    caller,     \* where each caller stands
    session,    \* the session each caller waits for or uses
    opening,    \* the session being started for a conversation
    live,       \* the session published for a conversation
    stage,      \* each session's life
    held,       \* the sessions whose provider resources are not released
    reader,     \* each session's signal reader and its pump
    toClose,    \* the live sessions close() has yet to close, in order
    pumps,      \* the pumps close() has yet to see end
    failures,   \* releases that failed and were recorded (failures)
    broken,     \* history: sessions whose release failed
    report      \* what close() told its caller

vars == <<life, caller, session, opening, live, stage, held, reader, toClose,
          pumps, failures, broken, report>>

\* "closing" as close() sees it: draining admitted work, waiting for openings,
\* closing sessions, waiting for pumps.
Stops == {"draining", "openings", "sessions", "pumps"}
Stopped == life # "running"

Stages == {"unused", "asked", "starting", "rollback", "failed", "live", "closing", "closed"}

\* Every variable stays in its range, and the two maps hold the sessions of
\* their conversation that are, respectively, being started and published.
TypeOK ==
    /\ life \in Stops \cup {"running", "closed"}
    /\ caller \in [Callers -> {"idle", "called", "waiting", "using", "done"}]
    /\ session \in [Callers -> Sessions \cup {NoSession}]
    /\ opening \in [Conversations -> Sessions \cup {NoSession}]
    /\ live \in [Conversations -> Sessions \cup {NoSession}]
    /\ stage \in [Sessions -> Stages]
    /\ held \subseteq Sessions
    /\ reader \in [Sessions -> {"none", "ready", "reading", "retiring", "reporting", "over"}]
    /\ toClose \in Seq(Sessions)
    /\ pumps \subseteq Sessions
    /\ failures \subseteq Sessions /\ broken \subseteq Sessions
    /\ report \in {"none", "ok", "rejected"}
    /\ \A s \in Sessions, i \in Conversations :
        /\ opening[i] = s => HomeOf[s] = i /\ stage[s] \in {"asked", "starting", "rollback"}
        /\ live[i] = s => HomeOf[s] = i /\ stage[s] \in {"live", "closing", "closed"}

Init ==
    /\ life = "running"
    /\ caller = [c \in Callers |-> "idle"]
    /\ session = [c \in Callers |-> NoSession]
    /\ opening = [i \in Conversations |-> NoSession]
    /\ live = [i \in Conversations |-> NoSession]
    /\ stage = [s \in Sessions |-> "unused"]
    /\ held = {}
    /\ reader = [s \in Sessions |-> "none"]
    /\ toClose = <<>> /\ pumps = {}
    /\ failures = {} /\ broken = {}
    /\ report = "none"

closeVars == <<life, toClose, pumps, report>>
failVars == <<failures, broken>>

--------------------------------------------------------------------------------
\* Callers

\* lifecycle.run admits a call while the application runs.
Call(c) ==
    /\ caller[c] = "idle" /\ ~Stopped
    /\ caller' = [caller EXCEPT ![c] = "called"]
    /\ UNCHANGED <<session, opening, live, stage, held, reader, closeVars, failVars>>

\* connect: refused once stopped, else the live session, else the one being
\* started, else a new one, whose start is queued as a microtask.
Connect(c) ==
    LET i == WantOf[c]
    IN  /\ caller[c] = "called"
        /\ IF Stopped
           THEN /\ caller' = [caller EXCEPT ![c] = "done"]
                /\ UNCHANGED <<session, opening, stage>>
           ELSE /\ caller' = [caller EXCEPT ![c] = "waiting"]
                /\ \E s \in Sessions :
                    /\ session' = [session EXCEPT ![c] = s]
                    /\ IF {live[i], opening[i]} = {NoSession}
                       THEN /\ stage[s] = "unused" /\ HomeOf[s] = i
                            /\ stage' = [stage EXCEPT ![s] = "asked"]
                            /\ opening' = [opening EXCEPT ![i] = s]
                       ELSE /\ s = IF live[i] # NoSession THEN live[i] ELSE opening[i]
                            /\ UNCHANGED <<opening, stage>>
        /\ UNCHANGED <<live, held, reader, closeVars, failVars>>

\* readers.get(state): the first caller to come back takes the reader.
Watches(s) == TRUE

\* The promise of a session's start has settled.
Settled(s) == stage[s] \in {"failed", "live", "closing", "closed"}

\* connect resolves or rejects for a caller.
Connected(c) ==
    LET s == session[c]
    IN  /\ caller[c] = "waiting" /\ Settled(s)
        /\ caller' = [caller EXCEPT ![c] = IF stage[s] = "failed" THEN "done" ELSE "using"]
        /\ reader' = [reader EXCEPT ![s] =
                IF @ = "ready" /\ Watches(s) THEN "reading" ELSE @]
        /\ UNCHANGED <<session, opening, live, stage, held, closeVars, failVars>>

\* The call settles; the lifecycle forgets it.
Finish(c) ==
    /\ caller[c] = "using"
    /\ caller' = [caller EXCEPT ![c] = "done"]
    /\ UNCHANGED <<session, opening, live, stage, held, reader, closeVars, failVars>>

--------------------------------------------------------------------------------
\* A session's start and its end

\* The microtask: start is called only if the application still runs.
Start(s) ==
    /\ stage[s] = "asked"
    /\ stage' = [stage EXCEPT ![s] = IF Stopped THEN "rollback" ELSE "starting"]
    /\ UNCHANGED <<caller, session, opening, live, held, reader, closeVars, failVars>>

\* start owns the provider's resources.
OwnResource(s) ==
    /\ stage[s] = "starting" /\ s \notin held
    /\ held' = held \cup {s}
    /\ UNCHANGED <<caller, session, opening, live, stage, reader, closeVars, failVars>>

StartFails(s) ==
    /\ stage[s] = "starting"
    /\ stage' = [stage EXCEPT ![s] = "rollback"]
    /\ UNCHANGED <<caller, session, opening, live, held, reader, closeVars, failVars>>

\* A start that leaves its promise in the opening map.
OpeningKept(s) == opening

OpeningWithout(s) == [opening EXCEPT ![HomeOf[s]] = NoSession]

\* start returns: the session is published, or closed if shutdown came first.
Made(s) ==
    /\ stage[s] = "starting" /\ s \in held
    /\ IF ~Stopped
       THEN /\ stage' = [stage EXCEPT ![s] = "live"]
            /\ live' = [live EXCEPT ![HomeOf[s]] = s]
            /\ opening' = OpeningWithout(s)
            /\ reader' = [reader EXCEPT ![s] = "ready"]
       ELSE /\ stage' = [stage EXCEPT ![s] = "rollback"]
            /\ UNCHANGED <<live, opening, reader>>
    /\ UNCHANGED <<caller, session, held, closeVars, failVars>>

\* A failure nobody writes down.
FailureForgotten(s) == failures

FailureRecorded(s) == failures \cup {s}

\* Resources are released, or releasing them fails.
Release(s, ok) ==
    /\ held' = IF ok THEN held \ {s} ELSE held
    /\ broken' = IF ok THEN broken ELSE broken \cup {s}
    /\ ok \/ s \in held

\* The rollback of a failed or interrupted start settles its promise.
RolledBack(s, ok) ==
    /\ stage[s] = "rollback"
    /\ Release(s, ok)
    /\ failures' = IF ok THEN failures ELSE FailureRecorded(s)
    /\ stage' = [stage EXCEPT ![s] = "failed"]
    /\ opening' = [opening EXCEPT ![HomeOf[s]] = NoSession]
    /\ UNCHANGED <<caller, session, live, reader, closeVars>>

\* state.close(): only its first call does anything (retired ??=).
CloseSession(s) == stage' = [stage EXCEPT ![s] = IF @ = "live" THEN "closing" ELSE @]

\* The close of a session settles.
SessionCloses(s, ok) ==
    /\ stage[s] = "closing"
    /\ Release(s, ok)
    /\ stage' = [stage EXCEPT ![s] = "closed"]
    /\ UNCHANGED <<caller, session, opening, live, reader, failures, closeVars>>

--------------------------------------------------------------------------------
\* The signal reader's pump

\* Unpublishing a session before closing it.
LiveWhileRetiring(s) == [live EXCEPT ![HomeOf[s]] = IF @ = s THEN NoSession ELSE @]

LiveBeforeRetiring(s) == live

\* The signal stream ends or fails: retire, unless shutdown owns the cleanup.
ReaderEnds(s) ==
    /\ reader[s] = "reading"
    /\ IF Stopped
       THEN reader' = [reader EXCEPT ![s] = "over"] /\ UNCHANGED <<stage, live>>
       ELSE /\ reader' = [reader EXCEPT ![s] = "retiring"]
            /\ CloseSession(s)
            /\ live' = LiveBeforeRetiring(s)
    /\ UNCHANGED <<caller, session, opening, held, closeVars, failVars>>

\* retire goes on when the session is closed: unpublish it ...
Unpublish(s) ==
    /\ reader[s] = "retiring" /\ stage[s] = "closed"
    /\ reader' = [reader EXCEPT ![s] = "reporting"]
    /\ live' = [live EXCEPT ![HomeOf[s]] = IF @ = s THEN NoSession ELSE @]
    /\ UNCHANGED <<caller, session, opening, stage, held, closeVars, failVars>>

\* ... tell the history that the provider is unavailable, and record failures.
Reported(s) ==
    /\ reader[s] = "reporting"
    /\ reader' = [reader EXCEPT ![s] = "over"]
    /\ failures' = IF s \in broken THEN FailureRecorded(s) ELSE failures
    /\ UNCHANGED <<caller, session, opening, live, stage, held, broken, closeVars>>

--------------------------------------------------------------------------------
\* close

Admitted == {c \in Callers \ Unadmitted : caller[c] \in {"called", "waiting", "using"}}

Close ==
    /\ life = "running"
    /\ life' = "draining"
    /\ UNCHANGED <<caller, session, opening, live, stage, held, reader, toClose, pumps,
                   report, failVars>>

\* Nothing is admitted any more, so waiting for those admitted at close is
\* waiting for all; likewise for the openings below.
Drained == Admitted = {}

Drain ==
    /\ life = "draining" /\ Drained
    /\ life' = "openings"
    /\ UNCHANGED <<caller, session, opening, live, stage, held, reader, toClose, pumps,
                   report, failVars>>

\* A close that leaves the sessions being read to their readers.
UnreadSessions ==
    {s \in Sessions : \E i \in Conversations : live[i] = s /\ reader[s] # "reading"}

LiveSessions == {s \in Sessions : \E i \in Conversations : live[i] = s}

OpeningsSettled ==
    /\ life = "openings" /\ \A i \in Conversations : opening[i] = NoSession
    /\ life' = "sessions"
    /\ toClose' \in SetToSeqs(LiveSessions)
    /\ UNCHANGED <<caller, session, opening, live, stage, held, reader, pumps, report,
                   failVars>>

\* The sessions live by then are closed one after the other; cleanup goes on
\* after a failure and raises it at the end.
CloseNext ==
    /\ life = "sessions" /\ toClose # <<>> /\ stage[Head(toClose)] = "live"
    /\ CloseSession(Head(toClose))
    /\ UNCHANGED <<caller, session, opening, live, held, reader, closeVars, failVars>>

NextClosed ==
    /\ life = "sessions" /\ toClose # <<>> /\ stage[Head(toClose)] = "closed"
    /\ toClose' = Tail(toClose)
    /\ failures' = failures \cup ({Head(toClose)} \cap broken)
    /\ UNCHANGED <<life, caller, session, opening, live, stage, held, reader, pumps,
                   broken, report>>

AllClosed ==
    /\ life = "sessions" /\ toClose = <<>>
    /\ life' = "pumps"
    /\ pumps' = {s \in Sessions : reader[s] \in {"reading", "retiring", "reporting"}}
    /\ UNCHANGED <<caller, session, opening, live, stage, held, reader, toClose, report,
                   failVars>>

\* The pumps seen then have ended: forget the sessions and report failures.
PumpsEnded ==
    /\ life = "pumps" /\ \A s \in pumps : reader[s] = "over"
    /\ life' = "closed"
    /\ live' = [i \in Conversations |-> NoSession]
    /\ report' = IF failures = {} THEN "ok" ELSE "rejected"
    /\ UNCHANGED <<caller, session, opening, stage, held, reader, toClose, pumps, failVars>>

Shutdown ==
    Drain \/ OpeningsSettled \/ CloseNext \/ NextClosed \/ AllClosed \/ PumpsEnded

Work(c) == Connect(c) \/ Connected(c) \/ Finish(c)

Begins(s) == Start(s) \/ OwnResource(s) \/ StartFails(s) \/ Made(s)
Ends(s) == \E ok \in BOOLEAN : RolledBack(s, ok) \/ SessionCloses(s, ok)
Retires(s) == Unpublish(s) \/ Reported(s)

Next ==
    \/ \E c \in Callers : Call(c) \/ Work(c)
    \/ \E s \in Sessions : Begins(s) \/ Ends(s) \/ ReaderEnds(s) \/ Retires(s)
    \/ Close \/ Shutdown

Spec == Init /\ [][Next]_vars

\* Calls settle, starts and releases return, and the stream of a closed session
\* ends; a live session's stream need not.
Fairness ==
    /\ \A c \in Callers : WF_vars(Work(c))
    /\ \A s \in Sessions :
        /\ WF_vars(Begins(s)) /\ WF_vars(Ends(s)) /\ WF_vars(Retires(s))
        /\ WF_vars(stage[s] = "closed" /\ ReaderEnds(s))
    /\ WF_vars(Shutdown)

FairSpec == Spec /\ Fairness

--------------------------------------------------------------------------------

\* A conversation never has two sessions whose provider resources are held: a
\* retired session is closed before the next connection may start one, and so
\* is an interrupted start.
OneSessionPerConversation ==
    \A s, t \in held \ broken : HomeOf[s] = HomeOf[t] => s = t

\* When close returns, every resource is released unless releasing it failed,
\* no start is under way, admitted calls have settled, and nothing retires a
\* session or reports it to the closed history any more.
NothingOutlivesClose ==
    life = "closed" =>
        /\ held \subseteq broken /\ Admitted = {}
        /\ \A i \in Conversations : opening[i] = NoSession
        /\ \A s \in Sessions : reader[s] \notin {"retiring", "reporting"}

\* A release that fails anywhere -- rollback, retirement or shutdown -- is not
\* lost: close rejects.
FailuresSurface == life = "closed" => (report = "rejected" <=> broken # {})

\* close returns, whatever was starting, running, retiring or connecting, and
\* every connection is answered.
CallsReturn ==
    /\ (life = "draining") ~> (life = "closed")
    /\ \A c \in Callers : (caller[c] = "waiting") ~> (caller[c] # "waiting")

================================================================================
