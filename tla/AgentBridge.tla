------------------------------ MODULE AgentBridge ------------------------------
(***************************************************************************)
(* The bridge between a run's agent tasks and the agent provider:          *)
(* createAgentBridge (temporal-orchestration/src/agent-bridge.ts) and the  *)
(* tasks of dispatchAgentTask (agent-task-host.ts) that call it.           *)
(*                                                                         *)
(* A step is one agent task inside the host: create opens a session,       *)
(* submit starts an operation in it, result waits for the operation and    *)
(* inspect looks at it.  A receipt is kept in memory and in the JsonStore. *)
(* save() replaces it in memory at once and on disk later, and two saves   *)
(* of one receipt under way may land in either order.  The provider and    *)
(* the store are external.  A request sent to a provider may act and its   *)
(* answer be lost; an operation ends at most once, and only a session that *)
(* is open tells so.                                                       *)
(***************************************************************************)
EXTENDS Naturals, FiniteSets

CONSTANTS
    Sessions,       \* the sessions the run may open, by name
    Operations,     \* the operations it may submit, each with one content
    HomeOf,         \* the session an operation belongs to
    Steps,          \* the run's steps
    KindOf,         \* what a step does
    SessionIn,      \* the session an agent step names
    OperationIn,    \* the operation it names, if any
    NoOperation,
    FaultsRecur,    \* whether anything may go wrong again and again, or one thing once
    Ends            \* how an operation may end of itself

\* A save that fails, signals that break off, an answer or a release that
\* fails, a task past its time, a host that closes or ends.
FailureKinds == {"save", "signals", "answer", "release", "time", "close", "end"}

AgentKinds == {"create", "submit", "result", "inspect"}
Agents == {st \in Steps : KindOf[st] \in AgentKinds}

ASSUME BridgeConstants ==
    /\ FaultsRecur \in BOOLEAN
    /\ HomeOf \in [Operations -> Sessions]
    /\ KindOf \in [Steps -> AgentKinds \cup {"child", "wait"}]
    /\ SessionIn \in [Steps -> Sessions]
    /\ OperationIn \in [Steps -> Operations \cup {NoOperation}]
    /\ NoOperation \notin Operations
    /\ \A st \in Agents : KindOf[st] # "create" =>
            OperationIn[st] \in Operations /\ HomeOf[OperationIn[st]] = SessionIn[st]
    /\ Ends \subseteq {"completed", "failed"}

VARIABLES
    opening,    \* the promise create() keeps for a session, and how it ended
    owned,      \* the sessions the bridge holds (sessions)
    active,     \* the operation a session may not be given another beside
    busy,       \* sessions with a submit under way (state.opening)
    memory,     \* each operation's receipt in the bridge
    at,         \* where each agent step stands in the bridge
    saving,     \* the status a submit has a save of under way
    said,       \* what the bridge answered a step
    pump,       \* the reader of a session's signals
    writing,    \* the operation whose receipt the pump is saving
    request,    \* the one cancellation request of a session
    closing,    \* close(), the sessions it has yet to close, and those whose
    toClose,    \* release failed (closeFailures)
    unclosed,
    marker,     \* store: sessions that were ever opened
    disk,       \* store: the receipts
    provider,   \* provider: its side of a session
    asked,      \* provider: operations it was asked to execute, and may
    native,     \* provider: what became of an operation
    unread,     \* provider: ends it signalled and the pump has not read
    mayFail     \* what may still go wrong

bridgeMemory == <<opening, owned, active, busy, memory, at, saving, said, pump,
                  writing, request, closing, toClose, unclosed>>
storeVars == <<marker, disk>>
providerVars == <<provider, asked, native, unread>>
bridgeVars == <<bridgeMemory, storeVars, providerVars, mayFail>>

Final == {"completed", "failed", "interrupted"}
Open == {"submitting", "running"}
Receipts == Final \cup Open \cup {"none", "unknown", "denied"}
Refusals == {"unknown", "denied", "invalid"}

\* A step is answered with a value or refused with a code.
Value(v) == [ok |-> TRUE, is |-> v]
Refusal(code) == [ok |-> FALSE, is |-> code]
Nothing == Refusal("nothing")
Answers == {Value(v) : v \in (Receipts \ {"none"}) \cup {"created"}}
             \cup {Refusal(code) : code \in Refusals}

BridgeTypeOK ==
    /\ opening \in [Sessions -> {"none", "reading", "marking", "asking", "leaving", "open"}
                                  \cup Refusals]
    /\ owned \subseteq Sessions /\ busy \subseteq owned
    /\ active \in [Sessions -> Operations \cup {NoOperation}]
    /\ memory \in [Operations -> Receipts] /\ disk \in [Operations -> Receipts]
    /\ at \in [Steps -> {"out", "opening", "looking", "recording", "executing", "settling",
                         "inspecting", "reading", "waiting"}]
    /\ saving \in [Steps -> Receipts]
    /\ said \in [Steps -> Answers \cup {Nothing}]
    /\ pump \in [Sessions -> {"off", "reading", "saving", "failing", "over"}]
    /\ writing \in [Sessions -> Operations \cup {NoOperation}]
    /\ request \in [Sessions -> {"none", "close", "done"} \cup Operations]
    /\ closing \in {"no", "openings", "sessions", "ok", "failed"}
    /\ toClose \subseteq Sessions /\ unclosed \subseteq Sessions
    /\ marker \subseteq Sessions
    /\ provider \in [Sessions -> {"none", "open", "closed"}]
    /\ asked \subseteq Operations
    /\ native \in [Operations -> Final \cup {"none", "running"}]
    /\ unread \subseteq Operations
    /\ mayFail \subseteq FailureKinds

BridgeEmpty ==
    /\ opening = [s \in Sessions |-> "none"]
    /\ owned = {} /\ busy = {}
    /\ active = [s \in Sessions |-> NoOperation]
    /\ memory = [o \in Operations |-> "none"]
    /\ at = [st \in Steps |-> "out"]
    /\ saving = [st \in Steps |-> "none"]
    /\ said = [st \in Steps |-> Nothing]
    /\ pump = [s \in Sessions |-> "off"]
    /\ writing = [s \in Sessions |-> NoOperation]
    /\ request = [s \in Sessions |-> "none"]
    /\ closing = "no" /\ toClose = {} /\ unclosed = {}

BridgeInit ==
    /\ BridgeEmpty
    /\ marker = {} /\ disk = [o \in Operations |-> "none"]
    /\ provider = [s \in Sessions |-> "none"]
    /\ asked = {} /\ native = [o \in Operations |-> "none"] /\ unread = {}

\* Something goes wrong, and nothing more unless faults recur.
Fault(kind) == kind \in mayFail /\ mayFail' = IF FaultsRecur THEN mayFail ELSE {}

sessionState == <<owned, active, busy>>
pumpVars == <<pump, writing>>
closeVars == <<closing, toClose, unclosed>>

\* The provider releases a session, or says that it could not.
Released(s) ==
    \/ /\ provider' = [provider EXCEPT ![s] = "closed"]
       /\ UNCHANGED <<unclosed, mayFail>>
    \/ /\ unclosed' = unclosed \cup {s}
       /\ Fault("release") /\ provider' = provider

Go(st, pc) == at' = [at EXCEPT ![st] = pc] /\ said' = said
Return(st, answer) ==
    /\ at' = [at EXCEPT ![st] = "out"]
    /\ said' = [said EXCEPT ![st] = answer]

--------------------------------------------------------------------------------
\* create: one opening per name and process, kept whatever it comes to

Create(st) ==
    LET s == SessionIn[st]
    IN  /\ IF closing # "no"
           THEN Return(st, Refusal("invalid")) /\ opening' = opening
           ELSE /\ Go(st, "opening")
                /\ opening' = [opening EXCEPT ![s] = IF @ = "none" THEN "reading" ELSE @]
        /\ UNCHANGED <<sessionState, memory, saving, pumpVars, request, closeVars,
                       storeVars, providerVars, mayFail>>

createRest == <<active, busy, memory, at, saving, said, writing, request, closeVars, disk>>

\* The store knows whether an earlier process asked for this session.
OpeningReads(s) ==
    /\ opening[s] = "reading"
    /\ opening' = [opening EXCEPT ![s] = IF s \in marker THEN "unknown" ELSE "marking"]
    /\ UNCHANGED <<createRest, owned, pump, marker, providerVars, mayFail>>

\* The intent is stored before the provider is asked.
OpeningMarks(s) ==
    /\ opening[s] = "marking"
    /\ \/ /\ opening' = [opening EXCEPT ![s] = "asking"]
          /\ marker' = marker \cup {s}
          /\ mayFail' = mayFail
       \/ /\ opening' = [opening EXCEPT ![s] = "unknown"]
          /\ Fault("save") /\ marker' = marker
    /\ UNCHANGED <<createRest, owned, pump, providerVars>>

\* The provider opens the session or fails to.  A bridge closed meanwhile
\* gives an opened session back.
OpeningAnswered(s) ==
    /\ opening[s] = "asking"
    /\ \/ /\ provider' = [provider EXCEPT ![s] = "open"]
          /\ IF closing = "no"
             THEN /\ opening' = [opening EXCEPT ![s] = "open"]
                  /\ owned' = owned \cup {s}
                  /\ pump' = [pump EXCEPT ![s] = "reading"]
             ELSE /\ opening' = [opening EXCEPT ![s] = "leaving"]
                  /\ UNCHANGED <<owned, pump>>
          /\ mayFail' = mayFail
       \/ /\ \E code \in {"denied", "unknown"} : opening' = [opening EXCEPT ![s] = code]
          /\ Fault("answer")
          /\ UNCHANGED <<owned, pump, provider>>
    /\ UNCHANGED <<createRest, marker, asked, native, unread>>

\* A failed release is kept for close() to report.
OpeningLeaves(s) ==
    /\ opening[s] = "leaving"
    /\ opening' = [opening EXCEPT ![s] = "invalid"]
    /\ Released(s)
    /\ UNCHANGED <<active, busy, memory, at, saving, said, writing, request, closing,
                   toClose, disk, owned, pump, marker, asked, native, unread>>

CreateReturns(st) ==
    LET how == opening[SessionIn[st]]
    IN  /\ at[st] = "opening"
        /\ \/ how = "open" /\ Return(st, Value("created"))
           \/ how \in Refusals /\ Return(st, Refusal(how))
        /\ UNCHANGED <<opening, sessionState, memory, saving, pumpVars, request, closeVars,
                       storeVars, providerVars, mayFail>>

--------------------------------------------------------------------------------
\* submit: one at a time in a session, and one operation in doubt at a time

submitRest == <<opening, owned, pumpVars, request, closeVars, marker, provider, native, unread>>

\* inspect's answer for a receipt, and what certain() makes of it.
Certain(status) ==
    CASE status \in {"unknown", "submitting"} -> Refusal("unknown")
      [] status = "denied" -> Refusal("denied")
      [] status \in {"failed", "interrupted"} -> Refusal("invalid")
      [] OTHER -> Value(status)

\* An incomplete receipt of an earlier process says nothing certain.
FromDisk(o) == IF disk[o] \in Open THEN "unknown" ELSE disk[o]

\* A submit to whoever asks.
AnyOwner(s) == TRUE

\* required(): the bridge holds the session.
Holds(s) == s \in owned

\* A submit ends: the session takes another (finally).
Leave(st, answer) ==
    /\ Return(st, answer)
    /\ busy' = busy \ {SessionIn[st]}

Submit(st) ==
    LET s == SessionIn[st]
        o == OperationIn[st]
    IN  /\ \/ ~Holds(s) /\ Return(st, Refusal("denied")) /\ busy' = busy
           \/ Holds(s) /\ s \in busy /\ Return(st, Refusal("invalid")) /\ busy' = busy
           \/ /\ Holds(s) /\ s \notin busy /\ memory[o] # "none"
              /\ Return(st, Certain(memory[o])) /\ busy' = busy
           \/ /\ Holds(s) /\ s \notin busy /\ memory[o] = "none"
              /\ Go(st, "looking") /\ busy' = busy \cup {s}
        /\ UNCHANGED <<submitRest, active, memory, saving, disk, asked, mayFail>>

\* The store's answer: an earlier receipt is inspected, another operation in
\* doubt refuses this one, and otherwise the intent is saved.
SubmitLooks(st) ==
    LET s == SessionIn[st]
        o == OperationIn[st]
        known == IF memory[o] # "none" THEN memory[o] ELSE FromDisk(o)
    IN  /\ at[st] = "looking"
        /\ \/ /\ disk[o] # "none"
              /\ memory' = [memory EXCEPT ![o] = known]
              /\ Leave(st, Certain(known))
              /\ UNCHANGED <<active, saving>>
           \/ /\ disk[o] = "none" /\ active[s] # NoOperation
              /\ Leave(st, Refusal("invalid"))
              /\ UNCHANGED <<active, memory, saving>>
           \/ /\ disk[o] = "none" /\ active[s] = NoOperation
              /\ active' = [active EXCEPT ![s] = o]
              /\ memory' = [memory EXCEPT ![o] = "submitting"]
              /\ saving' = [saving EXCEPT ![st] = "submitting"]
              /\ Go(st, "recording") /\ busy' = busy
        /\ UNCHANGED <<submitRest, disk, asked, mayFail>>

\* A save that reached the disk wakes whoever waits for the operation; one
\* that failed wakes nobody.
Woken(o) ==
    [st \in Steps |-> IF at[st] = "waiting" /\ OperationIn[st] = o THEN "inspecting" ELSE at[st]]

Saved(st, o, status, next) ==
    /\ disk' = [disk EXCEPT ![o] = status]
    /\ at' = [Woken(o) EXCEPT ![st] = next]

\* The first save fails outside the try: the session keeps its operation.
SubmitRecords(st) ==
    LET o == OperationIn[st]
    IN  /\ at[st] = "recording"
        /\ saving' = [saving EXCEPT ![st] = "none"]
        /\ \/ /\ Saved(st, o, "submitting", "executing")
              /\ asked' = asked \cup {o}
              /\ UNCHANGED <<busy, said, mayFail>>
           \/ /\ Leave(st, Refusal("unknown"))
              /\ Fault("save")
              /\ UNCHANGED <<disk, asked>>
        /\ UNCHANGED <<submitRest, active, memory>>

Settle(st, status) ==
    /\ memory' = [memory EXCEPT ![OperationIn[st]] = status]
    /\ saving' = [saving EXCEPT ![st] = status]
    /\ Go(st, "settling") /\ busy' = busy

SettleUnlessFinal(st, status) ==
    LET now == memory[OperationIn[st]]
    IN  \/ now \in Open /\ Settle(st, status)
        \/ now \notin Open /\ Leave(st, Certain(now)) /\ UNCHANGED <<memory, saving>>

\* An answer that overtakes whatever has been heard.
Anyway(o) == TRUE

Unheard(o) == memory[o] = "submitting"

\* A lost answer taken for a refusal.
LostIsDenied == "denied"

\* What a lost answer says of the operation.
LostAnswer == "unknown"

\* The provider took the operation, refused it, or its answer was lost; a
\* final status the pump has heard meanwhile stands.
SubmitAnswered(st) ==
    LET s == SessionIn[st]
        o == OperationIn[st]
    IN  /\ at[st] = "executing"
        /\ \/ /\ native[o] # "none"
              /\ \/ Unheard(o) /\ Settle(st, "running")
                 \/ /\ ~Unheard(o) /\ Leave(st, Certain(memory[o]))
                    /\ UNCHANGED <<memory, saving>>
              /\ UNCHANGED <<asked, mayFail>>
           \/ /\ native[o] = "none" /\ Fault("answer")
              /\ asked' = asked \ {o}
              /\ SettleUnlessFinal(st, "denied")
           \/ /\ Fault("answer") /\ asked' = asked
              /\ SettleUnlessFinal(st, LostAnswer)
        /\ UNCHANGED <<submitRest, active, disk>>

\* Any outcome frees the session.
FreesAnyhow(status, now) == status # "running"

\* Only a refusal frees the session for another operation.
Frees(status, now) == status # "running" /\ now = "denied"

\* A save of "running" that fails is itself taken for a lost answer.
SubmitSettles(st) ==
    LET s == SessionIn[st]
        o == OperationIn[st]
        status == saving[st]
    IN  /\ at[st] = "settling"
        /\ \/ /\ Saved(st, o, status, "out")
              /\ said' = [said EXCEPT ![st] = Certain(memory[o])]
              /\ busy' = busy \ {s}
              /\ active' = IF Frees(status, memory[o])
                           THEN [active EXCEPT ![s] = NoOperation] ELSE active
              /\ saving' = [saving EXCEPT ![st] = "none"]
              /\ UNCHANGED <<memory, mayFail>>
           \/ /\ Fault("save") /\ status = "running" /\ memory[o] \in Open
              /\ Settle(st, "unknown")
              /\ UNCHANGED <<active, disk>>
           \/ /\ Fault("save") /\ (status # "running" \/ memory[o] \notin Open)
              /\ Leave(st, IF status = "running" THEN Certain(memory[o]) ELSE Refusal("unknown"))
              /\ saving' = [saving EXCEPT ![st] = "none"]
              /\ UNCHANGED <<active, memory, disk>>
        /\ UNCHANGED <<submitRest, asked>>

--------------------------------------------------------------------------------
\* inspect and result

lookRest == <<opening, sessionState, saving, pumpVars, request, closeVars, storeVars,
              providerVars, mayFail>>

\* result waits for a receipt that is open; inspect shows it.
Looked(st, status) ==
    CASE KindOf[st] = "inspect" -> Return(st, Value(status))
      [] KindOf[st] = "result" /\ status \in Open -> Go(st, "waiting")
      [] OTHER -> Return(st, Certain(status))

Look(st) == Go(st, "inspecting") /\ UNCHANGED <<lookRest, memory>>

\* The receipt in memory answers; without one the store is asked.
Inspects(st) ==
    LET o == OperationIn[st]
    IN  /\ at[st] = "inspecting"
        /\ \/ /\ SessionIn[st] \notin owned \cup marker
              /\ Return(st, Refusal("denied"))
           \/ /\ SessionIn[st] \in owned \cup marker
              /\ IF memory[o] # "none" THEN Looked(st, memory[o]) ELSE Go(st, "reading")
        /\ UNCHANGED <<lookRest, memory>>

\* The store's answer replaces what memory holds by now.
InspectReads(st) ==
    LET o == OperationIn[st]
    IN  /\ at[st] = "reading"
        /\ IF disk[o] = "none"
           THEN Return(st, Refusal("invalid")) /\ memory' = memory
           ELSE /\ memory' = [memory EXCEPT ![o] = FromDisk(o)]
                /\ Looked(st, FromDisk(o))
        /\ UNCHANGED lookRest

--------------------------------------------------------------------------------
\* The pump of a session's signals

pumpRest == <<opening, owned, busy, saving, request, closeVars, marker, provider, asked, native>>

\* An end frees the session at once and is saved before the next signal is read.
PumpReads(o) ==
    LET s == HomeOf[o]
    IN  /\ pump[s] = "reading" /\ o \in unread
        /\ unread' = unread \ {o}
        /\ IF memory[o] = "none"
           THEN UNCHANGED <<active, memory, pumpVars>>
           ELSE /\ active' = IF active[s] = o THEN [active EXCEPT ![s] = NoOperation] ELSE active
                /\ memory' = [memory EXCEPT ![o] = native[o]]
                /\ pump' = [pump EXCEPT ![s] = "saving"]
                /\ writing' = [writing EXCEPT ![s] = o]
        /\ UNCHANGED <<pumpRest, at, said, disk, mayFail>>

\* The stream fails, or a save in the loop does: the pump is gone for good,
\* and the operation the session still holds becomes unknown.
PumpBreaks(s) ==
    LET o == active[s]
    IN  /\ pump[s] \in {"reading", "saving"}
        /\ Fault(IF pump[s] = "reading" THEN "signals" ELSE "save")
        /\ IF o # NoOperation /\ memory[o] # "none"
           THEN /\ memory' = [memory EXCEPT ![o] = "unknown"]
                /\ pump' = [pump EXCEPT ![s] = "failing"]
                /\ writing' = [writing EXCEPT ![s] = o]
           ELSE /\ pump' = [pump EXCEPT ![s] = "over"]
                /\ writing' = [writing EXCEPT ![s] = NoOperation]
                /\ memory' = memory
        /\ UNCHANGED <<pumpRest, active, at, said, disk, unread>>

PumpSaves(s) ==
    LET o == writing[s]
    IN  /\ pump[s] \in {"saving", "failing"}
        /\ disk' = [disk EXCEPT ![o] = IF pump[s] = "saving" THEN native[o] ELSE "unknown"]
        /\ at' = Woken(o)
        /\ pump' = [pump EXCEPT ![s] = IF @ = "saving" THEN "reading" ELSE "over"]
        /\ writing' = [writing EXCEPT ![s] = NoOperation]
        /\ UNCHANGED <<pumpRest, active, memory, said, unread, mayFail>>

\* A closed session's signals end once they have been read.
PumpEnds(s) ==
    /\ pump[s] = "reading" /\ provider[s] = "closed"
    /\ \A o \in unread : HomeOf[o] # s
    /\ pump' = [pump EXCEPT ![s] = "over"]
    /\ UNCHANGED <<pumpRest, writing, active, memory, at, said, disk, unread, mayFail>>

--------------------------------------------------------------------------------
\* Cancellation and close

\* requestCancellation: each session once, its operation interrupted or, when
\* it has none, the session closed.  The request leaves at once.
RequestCancellation ==
    request' = [s \in Sessions |->
                  IF s \notin owned \/ request[s] # "none" THEN request[s]
                  ELSE IF active[s] # NoOperation THEN active[s] ELSE "close"]

cancelRest == <<opening, sessionState, memory, at, saving, said, pumpVars, closeVars,
                storeVars, asked, mayFail>>

\* An interruption stops an operation that runs, or is refused; either way it
\* is not asked for again.
ProviderInterrupts(s) ==
    LET o == request[s]
    IN  /\ o \in Operations
        /\ request' = [request EXCEPT ![s] = "done"]
        /\ \/ /\ native[o] = "running" /\ provider[s] = "open"
              /\ native' = [native EXCEPT ![o] = "interrupted"]
              /\ unread' = unread \cup {o}
           \/ UNCHANGED <<native, unread>>
        /\ UNCHANGED <<cancelRest, provider>>

ProviderCloses(s) ==
    /\ request[s] = "close"
    /\ request' = [request EXCEPT ![s] = "done"]
    /\ provider' = [provider EXCEPT ![s] = "closed"]
    /\ UNCHANGED <<cancelRest, native, unread>>

closeRest == <<opening, sessionState, memory, at, saving, said, pumpVars, request,
               storeVars, asked, native, unread>>

\* A close that waits for nothing.
AtOnce == TRUE

OpeningsSettled == \A s \in Sessions : opening[s] \in {"none", "open"} \cup Refusals

\* close(): openings under way settle first, then every session is closed.
CloseWaits ==
    /\ closing = "openings"
    /\ OpeningsSettled
    /\ closing' = "sessions" /\ toClose' = owned
    /\ UNCHANGED <<closeRest, unclosed, provider, mayFail>>

CloseSession(s) ==
    /\ closing = "sessions" /\ s \in toClose
    /\ toClose' = toClose \ {s}
    /\ Released(s)
    /\ UNCHANGED <<closeRest, closing>>

CloseEnds ==
    /\ closing = "sessions" /\ toClose = {}
    /\ closing' = IF unclosed = {} THEN "ok" ELSE "failed"
    /\ UNCHANGED <<closeRest, toClose, unclosed, provider, mayFail>>

--------------------------------------------------------------------------------
\* The provider at work

nativeRest == <<bridgeMemory, storeVars, provider, asked, mayFail>>

ProviderStarts(o) ==
    /\ o \in asked /\ native[o] = "none" /\ provider[HomeOf[o]] = "open"
    /\ native' = [native EXCEPT ![o] = "running"]
    /\ UNCHANGED <<nativeRest, unread>>

ProviderEnds(o) ==
    /\ native[o] = "running" /\ provider[HomeOf[o]] = "open"
    /\ \E end \in Ends : native' = [native EXCEPT ![o] = end]
    /\ unread' = unread \cup {o}
    /\ UNCHANGED nativeRest

Bridge ==
    \/ \E s \in Sessions :
        \/ OpeningReads(s) \/ OpeningMarks(s) \/ OpeningAnswered(s) \/ OpeningLeaves(s)
        \/ PumpBreaks(s) \/ PumpSaves(s) \/ PumpEnds(s)
        \/ ProviderInterrupts(s) \/ ProviderCloses(s) \/ CloseSession(s)
    \/ \E st \in Agents :
        \/ CreateReturns(st) \/ SubmitLooks(st) \/ SubmitRecords(st)
        \/ SubmitAnswered(st) \/ SubmitSettles(st) \/ Inspects(st) \/ InspectReads(st)
    \/ \E o \in Operations : PumpReads(o) \/ ProviderStarts(o) \/ ProviderEnds(o)
    \/ CloseWaits \/ CloseEnds

\* The host's process ends: the bridge forgets, the provider's sessions with
\* it; the store and what the operations did remain.
BridgeLost ==
    /\ opening' = [s \in Sessions |-> "none"]
    /\ owned' = {} /\ busy' = {}
    /\ active' = [s \in Sessions |-> NoOperation]
    /\ memory' = [o \in Operations |-> "none"]
    /\ at' = [st \in Steps |-> "out"]
    /\ saving' = [st \in Steps |-> "none"]
    /\ said' = [st \in Steps |-> Nothing]
    /\ pump' = [s \in Sessions |-> "off"]
    /\ writing' = [s \in Sessions |-> NoOperation]
    /\ request' = [s \in Sessions |-> "none"]
    /\ closing' = "no" /\ toClose' = {} /\ unclosed' = {}
    /\ provider' = [s \in Sessions |-> IF provider[s] = "none" THEN "none" ELSE "closed"]
    /\ unread' = {}
    /\ UNCHANGED <<storeVars, asked, native>>

================================================================================
