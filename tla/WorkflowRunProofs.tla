-------------------------- MODULE WorkflowRunProofs --------------------------
(***************************************************************************)
(* Theorems about one durable run together with the bridge its agent steps *)
(* go to, for any sessions, operations, steps and programs, and any number *)
(* of faults.  Every step of the system is a step of the run alone, of the *)
(* bridge alone, or one of the few they take together (NextSteps,          *)
(* BridgeSteps), so most proofs have one line per action of the side that  *)
(* matters and one for the other side's frame.                             *)
(*                                                                         *)
(* The inductive invariant has a half for each.  Of the bridge it says     *)
(* that an operation the provider may have been given is on the disk       *)
(* first, that a session is busy with one operation at a time, and that    *)
(* what is recorded or said of an operation is true of it and stays true.  *)
(* Of the run it says how a step's activity, task and handler keep pace,   *)
(* and that an operation that is still open is remembered by a step that   *)
(* answered with a doubt or has not answered.                              *)
(***************************************************************************)
EXTENDS WorkflowRun, FiniteSetTheorems, TLAPS

--------------------------------------------------------------------------------
\* The bridge

\* Where a submit stands once the session is busy with it, and once it has
\* looked at the store.
Submitting == {"looking", "recording", "executing", "settling"}
Taken == {"recording", "executing", "settling"}

\* A session the provider has open is the bridge's, on its way back, or known
\* not to have been given back; once close() is at the sessions, no opening is
\* under way any more.
OpeningsMatch ==
    /\ \A s \in Sessions :
        /\ s \in owned => opening[s] = "open"
        /\ opening[s] \in {"asking", "leaving", "open"} => s \in marker
        /\ provider[s] = "open" => s \in owned \/ opening[s] = "leaving" \/ s \in unclosed
        /\ closing \in {"sessions", "ok", "failed"} =>
            /\ opening[s] \in {"none", "open"} \cup Refusals
            /\ provider[s] = "open" => s \in toClose \cup unclosed
    /\ closing = "ok" => toClose = {} /\ unclosed = {}

\* An operation was asked for in a session that the bridge holds, or held in an
\* earlier process; that one is not opened again.
AskedAtHome ==
    \A o \in asked :
        /\ HomeOf[o] \in marker
        /\ HomeOf[o] \in owned \/ opening[HomeOf[o]] \notin {"marking", "asking"}

\* Each step stands where its kind leads, and a session has one submit.
StepsInPlace ==
    /\ \A st \in Steps :
        /\ at[st] \in Submitting => KindOf[st] = "submit" /\ SessionIn[st] \in busy
        /\ at[st] = "opening" => KindOf[st] = "create"
        /\ at[st] \in {"inspecting", "reading", "waiting"} => KindOf[st] \in {"result", "inspect"}
    /\ \A st, other \in Steps :
        at[st] \in Submitting /\ at[other] \in Submitting /\ SessionIn[st] = SessionIn[other] =>
            st = other

\* A submit that has taken its session has the session's operation, until the
\* end of that operation has been read.
Holding(st) ==
    LET o == OperationIn[st]
    IN  /\ memory[o] # "none"
        /\ active[SessionIn[st]] \in {o, NoOperation}
        /\ at[st] = "recording" => active[SessionIn[st]] = o
        /\ at[st] # "recording" => disk[o] # "none"
        /\ at[st] = "settling" => saving[st] \in {"running", "unknown", "denied"}
        /\ saving[st] = "denied" => o \notin asked
SubmitsHold == \A st \in Steps : at[st] \in Taken => Holding(st)

\* The provider knows of nothing it was not asked, and signals only ends.
EndsAreEnds ==
    /\ \A o \in Operations : native[o] # "none" => o \in asked
    /\ \A o \in unread : native[o] \in Final
    /\ \A s \in Sessions :
        /\ pump[s] \in {"saving", "failing"} => writing[s] \in Operations
        /\ pump[s] = "saving" => native[writing[s]] \in Final

\* A word about an operation is true.
True(o, word) == (word \in Final => native[o] = word) /\ (word = "denied" => o \notin asked)
Told(o, m) == m.ok => True(o, m.is)
ReceiptsTrue == \A o \in Operations : True(o, memory[o]) /\ True(o, disk[o])
AnswersTrue ==
    \A st \in Agents : OperationIn[st] \in Operations =>
        /\ Told(OperationIn[st], said[st]) /\ Told(OperationIn[st], outcome[st])
        /\ Told(OperationIn[st], answer[st])
WordsAreTrue == ReceiptsTrue /\ AnswersTrue

\* Nothing certain is said of an operation that was not recorded.
Vague(m) == m.ok => m.is \notin Final \cup {"denied"}
Unrecorded(o) ==
    /\ o \notin asked /\ disk[o] \in {"none", "unknown"}
    /\ memory[o] \in {"none", "submitting", "unknown"}
Unanswered(o) ==
    \A st \in Agents : OperationIn[st] = o =>
        Vague(said[st]) /\ Vague(outcome[st]) /\ Vague(answer[st])
Untouched(o) == Unrecorded(o) /\ Unanswered(o)
Fresh(o) == disk[o] = "none" \/ \E st \in Steps : at[st] = "recording" /\ OperationIn[st] = o
NothingBeforeRecord == \A o \in Operations : Fresh(o) => Untouched(o)

\* In a session the bridge holds, what is unsettled is the active operation,
\* and nowhere are two.
Unfinished(o) == o \in asked /\ native[o] \in {"none", "running"}
UnsettledIsActive ==
    /\ \A o \in Operations : Unfinished(o) /\ HomeOf[o] \in owned => active[HomeOf[o]] = o
    /\ \A o, p \in Operations : Unfinished(o) /\ Unfinished(p) /\ HomeOf[o] = HomeOf[p] => o = p

--------------------------------------------------------------------------------
\* The run

Plain == {Refusal("invalid"), Refusal("denied")}
Doubt == {Refusal(code) : code \in InDoubt}

\* An activity, its task in the dispatcher and its handler in the bridge.
TaskMatches(st) ==
    /\ activity[st] # "none" => st \in Agents /\ step[st] # "new"
    /\ child[st] # "none" => KindOf[st] = "child"
    /\ task[st] # "none" => activity[st] \in {"posted", "closed"}
    /\ activity[st] = "adrift" => answer[st] = Refusal("cancelled")
    /\ task[st] \in {"none", "intent"} => at[st] = "out" /\ said[st] = Nothing
    /\ at[st] # "out" => said[st] = Nothing
    /\ task[st] \in {"none", "intent", "handling"} => outcome[st] = Nothing
    /\ answer[st] # Nothing => activity[st] \in {"adrift", "closed"}
    /\ task[st] \in {"intent", "handling", "ending"} => answer[st] \in {Nothing} \cup Doubt
    /\ at[st] # "out" \/ said[st] # Nothing =>
        outcome[st] \in {Nothing, Refusal("unknown")} /\ answer[st] \in {Nothing} \cup Doubt
TasksMatch == \A st \in Steps : TaskMatches(st)

\* How the run recorded what it heard.
Recorded(st) ==
    /\ step[st] = "completed" => answer[st].ok
    /\ step[st] = "failed" => st \in unresolved \/ answer[st] \in Plain
PendingNamed(o) ==
    pending[o] # NoStep => pending[o] \in Agents /\ OperationIn[pending[o]] = o
RecordsMatch ==
    /\ \A st \in Agents : Recorded(st)
    /\ \A o \in Operations : PendingNamed(o)

\* The stages of the run's end, and who is covered at each.
EndingMatches ==
    /\ status \in {"cleaning", "stopping"} => scopeOff
    /\ status \in {"running", "cleaning", "completed"} => cleanup = "none"
    /\ status = "stopping" => cleanup # "none"
    /\ cleanup = "answered" /\ status = "stopping" =>
        \A st \in Agents : step[st] = "running" => st \in listed \cup missed
    /\ status \in {"cancelled", "failed"} =>
        \/ "cleanup" \in unresolved
        \/ \A st \in Agents : step[st] = "running" => st \in unresolved \cup missed

\* A submit that may have been the one that asked: it is past its handler's
\* refusals, and nobody said anything definite of it.
Past(st) ==
    \/ task[st] \in {"handling", "ending", "ended"}
    \/ task[st] = "none" /\ activity[st] \in {"lost", "closed"}
Witness(st, o) ==
    /\ KindOf[st] = "submit" /\ OperationIn[st] = o /\ Past(st) /\ at[st] # "looking"
    /\ said[st] \notin Plain /\ outcome[st] \notin Plain /\ answer[st] \notin Plain

\* An operation in doubt is on the run's books.
Traced(o) ==
    \/ \E st \in Agents : OperationIn[st] = o /\ st \in unresolved \cup missed
    \/ status \in {"running", "completed"} /\ pending[o] # NoStep
    \/ \E st \in Agents : Witness(st, o) /\ step[st] = "running"
DoubtIsTraced == \A o \in Operations : Unfinished(o) => Traced(o)

IInv ==
    /\ TypeOK
    /\ OpeningsMatch /\ AskedAtHome /\ StepsInPlace /\ SubmitsHold /\ EndsAreEnds
    /\ WordsAreTrue /\ NothingBeforeRecord /\ UnsettledIsActive
    /\ TasksMatch /\ RecordsMatch /\ EndingMatches /\ DoubtIsTraced

--------------------------------------------------------------------------------
\* The steps of the run, by what they change

Openings == \E s \in Sessions :
    OpeningReads(s) \/ OpeningMarks(s) \/ OpeningAnswered(s) \/ OpeningLeaves(s)
Submissions == \E st \in Agents :
    SubmitLooks(st) \/ SubmitRecords(st) \/ SubmitAnswered(st) \/ SubmitSettles(st)
Answering == \E st \in Agents : CreateReturns(st) \/ Inspects(st) \/ InspectReads(st)
Pumping ==
    \/ \E s \in Sessions : PumpBreaks(s) \/ PumpSaves(s) \/ PumpEnds(s)
    \/ \E o \in Operations : PumpReads(o)
Working ==
    \/ \E s \in Sessions : ProviderInterrupts(s)
    \/ \E o \in Operations : ProviderStarts(o) \/ ProviderEnds(o)
Closing ==
    \/ \E s \in Sessions : ProviderCloses(s) \/ CloseSession(s)
    \/ CloseWaits \/ CloseEnds

\* The program and the end of the run; the wire between Temporal and the host;
\* the dispatcher.
Running == \E st \in Steps :
    \/ CallStep(st) \/ Hear(st) \/ WaitEnds(st)
    \/ ChildStarts(st) \/ ChildSeen(st) \/ ChildEnds(st) \/ ChildHeard(st)
Stopping == Cancel \/ Complete \/ Throw \/ CleanUp \/ End
Wire == \E st \in Steps : PickUp(st) \/ Reply(st) \/ CancelActivity(st) \/ TimeOut(st)
Dispatching == \E st \in Steps :
    Arrive(st) \/ HandlerReturns(st) \/ TaskTimesOut(st) \/ TaskEnds(st) \/ DeliverCancel(st)
CleanUps == CleanupArrives \/ CleanupFails

\* What none of these changes.
held == <<opening, sessionState, memory, at, saving, pumpVars, closeVars, storeVars, provider,
          asked, native, unread>>

\* A handler is called for a step that is nowhere in the bridge.
Called(st) ==
    /\ at[st] = "out" /\ said[st] = Nothing /\ task[st] = "intent"
    /\ task' = [task EXCEPT ![st] = "handling"]
    /\ UNCHANGED <<program, record, temporal, outcome, runOff>>
Creating(st) == Called(st) /\ KindOf[st] = "create" /\ Create(st)
Submits(st) == Called(st) /\ KindOf[st] = "submit" /\ Submit(st)
Looking(st) == Called(st) /\ KindOf[st] \in {"result", "inspect"} /\ Look(st)

\* The tuples of the frame conditions stand for their variables throughout.
USE DEF bridgeVars, bridgeMemory, storeVars, providerVars, sessionState, pumpVars,
       closeVars,
        createRest, submitRest, lookRest, pumpRest, cancelRest, nativeRest, closeRest,
        bridgeButRequest, stepRest, endRest, wireRest, taskRest

\* Every step is one of these.
LEMMA NextSteps ==
    ASSUME [Next]_vars
    PROVE  \/ Openings /\ UNCHANGED runVars
           \/ Submissions /\ UNCHANGED runVars
           \/ Answering /\ UNCHANGED runVars
           \/ Pumping /\ UNCHANGED runVars
           \/ Working /\ UNCHANGED runVars
           \/ Closing /\ UNCHANGED runVars
           \/ Running \/ Stopping \/ Wire \/ Dispatching \/ CleanUps
           \/ \E st \in Steps : Handle(st)
           \/ HostCloses \/ HostRestarts \/ UNCHANGED vars
<1>1. CASE Bridge /\ UNCHANGED runVars
    BY <1>1 DEF Bridge, Openings, Submissions, Answering, Pumping, Working, Closing
<1>2. CASE UNCHANGED vars
    BY <1>2
<1>3. CASE \/ \E st \in Steps :
              \/ CallStep(st) \/ Hear(st) \/ WaitEnds(st)
              \/ ChildStarts(st) \/ ChildSeen(st) \/ ChildEnds(st) \/ ChildHeard(st)
              \/ PickUp(st) \/ Reply(st) \/ CancelActivity(st) \/ TimeOut(st)
              \/ Arrive(st) \/ Handle(st) \/ HandlerReturns(st) \/ TaskTimesOut(st)
              \/ TaskEnds(st) \/ DeliverCancel(st)
           \/ Cancel \/ Complete \/ Throw \/ CleanUp \/ End
           \/ CleanupArrives \/ CleanupFails \/ HostCloses \/ HostRestarts
    BY <1>3 DEF Running, Stopping, Wire, Dispatching, CleanUps
<1> QED BY <1>1, <1>2, <1>3 DEF Next

\* What the bridge's own steps leave alone.
LEMMA BridgeFrames ==
    /\ Openings => UNCHANGED <<active, busy, memory, at, saving, said, writing, request,
                               closing, toClose, disk, asked, native, unread>>
    /\ Submissions => UNCHANGED submitRest
    /\ Answering => UNCHANGED lookRest
    /\ Pumping => UNCHANGED <<pumpRest, said>>
    /\ Working => UNCHANGED <<cancelRest, provider>>
    /\ Closing => UNCHANGED <<opening, sessionState, memory, at, saving, said, pumpVars,
                             storeVars, asked, native, unread>>
<1>1. Openings => UNCHANGED <<active, busy, memory, at, saving, said, writing, request,
                               closing, toClose, disk, asked, native, unread>>
    BY DEF Openings, OpeningReads, OpeningMarks, OpeningAnswered, OpeningLeaves
<1>2. Submissions => UNCHANGED submitRest
    BY DEF Submissions, SubmitLooks, SubmitRecords, SubmitAnswered, SubmitSettles
<1>3. Answering => UNCHANGED lookRest
    BY DEF Answering, CreateReturns, Inspects, InspectReads
<1>4. Pumping => UNCHANGED <<pumpRest, said>>
    BY DEF Pumping, PumpBreaks, PumpSaves, PumpEnds, PumpReads
<1>5. Working => UNCHANGED <<cancelRest, provider>>
    BY DEF Working, ProviderInterrupts, ProviderStarts, ProviderEnds
<1>6. Closing => UNCHANGED <<opening, sessionState, memory, at, saving, said, pumpVars,
                                      storeVars, asked, native, unread>>
    BY DEF Closing, ProviderCloses, CloseSession, CloseWaits, CloseEnds
<1> QED BY <1>1, <1>2, <1>3, <1>4, <1>5, <1>6

\* The program, Temporal and the dispatcher leave the bridge to itself, but for
\* the answers they take from it and the cancellations they ask of it.
LEMMA RunFrames ==
    ASSUME Running \/ Stopping \/ Wire \/ Dispatching \/ CleanUps \/ UNCHANGED vars
    PROVE  UNCHANGED held
<1>1. CASE Running
    BY <1>1 DEF Running, held, CallStep, Hear, WaitEnds, ChildStarts, ChildSeen, ChildEnds,
           ChildHeard, NoStep
<1>2. CASE Stopping
    BY <1>2 DEF Stopping, held, Cancel, Complete, Throw, CleanUp, End
<1>3. CASE Wire
    BY <1>3 DEF Wire, held, PickUp, Reply, CancelActivity, TimeOut
<1>4. CASE Dispatching
    BY <1>4 DEF Dispatching, held, Arrive, HandlerReturns, TaskTimesOut, TaskEnds, DeliverCancel
<1>5. CASE CleanUps
    BY <1>5 DEF CleanUps, held, CleanupArrives, CleanupFails
<1>6. CASE UNCHANGED vars
    BY <1>6 DEF vars, held
<1> QED BY <1>1, <1>2, <1>3, <1>4, <1>5, <1>6

\* A handler is called by the kind of its step.
LEMMA Handled ==
    ASSUME TypeOK, TasksMatch, NEW st \in Steps, Handle(st)
    PROVE  /\ st \in Agents
           /\ Creating(st) \/ Submits(st) \/ Looking(st)
<1>1. st \in Agents /\ Called(st)
    BY DEF TypeOK, TasksMatch, TaskMatches, Handle, Called
<1> QED BY <1>1 DEF Handle, Agents, AgentKinds, Creating, Submits, Looking

\* Every step, as the bridge sees it.
LEMMA BridgeSteps ==
    ASSUME TypeOK, TasksMatch, [Next]_vars
    PROVE  \/ Openings \/ Submissions \/ Answering \/ Pumping \/ Working \/ Closing
           \/ \E st \in Agents : Creating(st) \/ Submits(st) \/ Looking(st)
           \/ HostCloses \/ BridgeLost \/ UNCHANGED held
BY NextSteps, Handled, RunFrames DEF HostRestarts

\* Where nothing of the run changes.
LEMMA StandsStill ==
    ASSUME UNCHANGED runVars
    PROVE  UNCHANGED <<program, status, cancelled, scopeOff, step, pending, unresolved, missed,
                       child, handles, activity, answer, posted, cleanup, listed,
                       task, outcome,
                       bound, runOff>>
<1>1. UNCHANGED record /\ UNCHANGED temporal /\ UNCHANGED dispatcher /\ UNCHANGED program
    BY DEF runVars
<1>2. UNCHANGED <<status, cancelled, scopeOff, step, pending, unresolved, missed,
       child, handles>>
    BY <1>1 DEF record
<1>3. UNCHANGED <<activity, answer, posted, cleanup, listed, task, outcome, bound,
       runOff>>
    BY <1>1 DEF temporal, dispatcher
<1> QED BY <1>1, <1>2, <1>3

\* A save that reached the disk moves its step on and wakes those that wait.
LEMMA SaveWakes ==
    ASSUME BridgeTypeOK, NEW st \in Steps, NEW o, NEW word, NEW next, Saved(st, o, word, next)
    PROVE  /\ at'[st] = next
           /\ \A x \in Steps \ {st} :
                \/ at'[x] = at[x]
                \/ at[x] = "waiting" /\ OperationIn[x] = o /\ at'[x] = "inspecting"
BY DEF BridgeTypeOK, Saved, Woken

\* A submit names an operation of its session.
LEMMA SubmitsName ==
    ASSUME StepsInPlace, NEW st \in Steps, at[st] \in Submitting
    PROVE  /\ st \in Agents /\ KindOf[st] = "submit" /\ SessionIn[st] \in busy
           /\ OperationIn[st] \in Operations /\ HomeOf[OperationIn[st]] = SessionIn[st]
BY BridgeConstants DEF StepsInPlace, Agents

--------------------------------------------------------------------------------
\* Types

\* BridgeTypeOK in parts.
SessionTypes ==
    /\ opening \in [Sessions -> {"none", "reading", "marking", "asking", "leaving", "open"}
                                  \cup Refusals]
    /\ owned \subseteq Sessions /\ busy \subseteq owned
    /\ marker \subseteq Sessions
    /\ provider \in [Sessions -> {"none", "open", "closed"}]
    /\ closing \in {"no", "openings", "sessions", "ok", "failed"}
    /\ toClose \subseteq Sessions /\ unclosed \subseteq Sessions
ReceiptTypes ==
    /\ active \in [Sessions -> Operations \cup {NoOperation}]
    /\ memory \in [Operations -> Receipts] /\ disk \in [Operations -> Receipts]
    /\ saving \in [Steps -> Receipts]
PlaceTypes ==
    at \in [Steps -> {"out", "opening", "looking", "recording", "executing", "settling",
                      "inspecting", "reading", "waiting"}]
WorkTypes ==
    /\ pump \in [Sessions -> {"off", "reading", "saving", "failing", "over"}]
    /\ writing \in [Sessions -> Operations \cup {NoOperation}]
    /\ asked \subseteq Operations
    /\ native \in [Operations -> Final \cup {"none", "running"}]
    /\ unread \subseteq Operations
SaidTypes ==
    said \in [Steps -> Answers \cup {Nothing}]
RequestTypes ==
    request \in [Sessions -> {"none", "close", "done"} \cup Operations]
FaultTypes ==
    mayFail \subseteq FailureKinds

\* The parts are the whole.
LEMMA BridgeTypes ==
    BridgeTypeOK <=> SessionTypes /\ ReceiptTypes /\ PlaceTypes /\ WorkTypes
                      /\ SaidTypes /\ RequestTypes /\ FaultTypes
BY DEF BridgeTypeOK, SessionTypes, ReceiptTypes, PlaceTypes, WorkTypes, SaidTypes, RequestTypes,
       FaultTypes

EndTypes ==
    /\ program \in Programs
    /\ status \in {"running", "cleaning", "stopping", "completed", "cancelled", "failed"}
    /\ cancelled \in BOOLEAN /\ scopeOff \in BOOLEAN
    /\ cleanup \in {"none", "sent", "answered", "failed"}
    /\ listed \subseteq Steps
RecordTypes ==
    /\ step \in [Steps -> {"new", "running", "completed", "failed"}]
    /\ pending \in [Operations -> Steps \cup {NoStep}]
    /\ unresolved \subseteq Steps \cup {"cleanup"} /\ missed \subseteq Steps
    /\ child \in [Steps -> {"none", "initiated", "running", "ended", "terminated"}]
    /\ handles \subseteq Steps
TaskTypes ==
    /\ activity \in [Steps -> {"none", "scheduled", "posted", "adrift", "lost", "closed"}]
    /\ answer \in [Steps -> Reports]
    /\ posted \subseteq Steps
    /\ task \in [Steps -> {"none", "intent", "handling", "ending", "ended"}]
    /\ outcome \in [Steps -> Answers \cup {Nothing}]
    /\ bound \in BOOLEAN /\ runOff \in BOOLEAN

\* TypeOK in parts.
LEMMA RunTypesParts == TypeOK <=> BridgeTypeOK /\ EndTypes /\ RecordTypes /\ TaskTypes
BY DEF TypeOK, EndTypes, RecordTypes, TaskTypes

\* What the sidecar reports: answers, a doubt, or nothing yet.
LEMMA KnownReports ==
    /\ Refusal("unknown") \in Answers
    /\ Answers \cup {Nothing, Refusal("cancelled"), Refusal("timeout")} \subseteq Reports
BY DEF Answers, Reports, Refusals

\* An abort answers "unknown", which is an answer.
LEMMA AbortTypes ==
    ASSUME TaskTypes, NEW steps, Abort(steps)
    PROVE  /\ task' \in [Steps -> {"none", "intent", "handling", "ending", "ended"}]
           /\ outcome' \in [Steps -> Answers \cup {Nothing}]
<1>1. task' \in [Steps -> {"none", "intent", "handling", "ending", "ended"}]
    BY DEF Abort, TaskTypes
<1>2. outcome' \in [Steps -> Answers \cup {Nothing}]
    BY KnownReports DEF Abort, TaskTypes
<1> QED BY <1>1, <1>2

\* The types of the run and of its end.
LEMMA EndTypesStep ==
    ASSUME EndTypes, TaskTypes, [Next]_vars
    PROVE  EndTypes'
<1>1. ASSUME Cancel PROVE EndTypes'
    BY <1>1 DEF Cancel, EndTypes
<1>2. ASSUME Complete PROVE EndTypes'
    BY <1>2 DEF Complete, EndTypes
<1>3. ASSUME Throw PROVE EndTypes'
    BY <1>3, BridgeConstants, RunConstants DEF Throw, EndTypes, LeftOpen, NoStep, dispatcher,
           Agents
<1>4. ASSUME CleanUp PROVE EndTypes'
    BY <1>4 DEF CleanUp, EndTypes
<1>5. ASSUME End PROVE EndTypes'
    BY <1>5 DEF End, EndTypes
<1>6. ASSUME CleanupArrives PROVE EndTypes'
    BY <1>6 DEF CleanupArrives, EndTypes
<1>7. ASSUME CleanupFails PROVE EndTypes'
    BY <1>7 DEF CleanupFails, EndTypes, record
<1>8. ASSUME \/ \E st \in Steps : CallStep(st) \/ Hear(st) \/ WaitEnds(st) \/ ChildStarts(st)
                                  \/ ChildSeen(st) \/ ChildEnds(st) \/ ChildHeard(st)
                                  \/ PickUp(st) \/ Reply(st)
      PROVE  EndTypes'
    BY <1>8 DEF CallStep, Hear, WaitEnds, ChildStarts, ChildSeen, ChildEnds, ChildHeard, PickUp,
           Reply, Agents, dispatcher, NoStep, temporal, Report, Fault, record, EndTypes
<1>9. ASSUME \/ \E st \in Steps : CancelActivity(st) \/ TimeOut(st) \/ Arrive(st)
                                  \/ HandlerReturns(st) \/ TaskTimesOut(st) \/ TaskEnds(st)
                                  \/ DeliverCancel(st) \/ Handle(st)
             \/ HostCloses
      PROVE  EndTypes'
    BY <1>9 DEF CancelActivity, TimeOut, Arrive, HandlerReturns, TaskTimesOut, TaskEnds,
           DeliverCancel, Handle, HostCloses, Abort, record, temporal, EndTypes
<1>10. ASSUME HostRestarts PROVE EndTypes'
    BY <1>10 DEF HostRestarts, record, EndTypes
<1>11. ASSUME UNCHANGED runVars PROVE EndTypes'
    BY <1>11, StandsStill DEF EndTypes
<1> QED BY <1>1, <1>2, <1>3, <1>4, <1>5, <1>6, <1>7, <1>8, <1>9, <1>10, <1>11, NextSteps DEF vars,
               Running, Stopping, Wire, Dispatching, CleanUps

\* The types of its records of steps and operations.
LEMMA RecordTypesStep ==
    ASSUME EndTypes, RecordTypes, TaskTypes, [Next]_vars
    PROVE  RecordTypes'
<1>1. ASSUME NEW st \in Steps, CallStep(st) PROVE RecordTypes'
    BY <1>1 DEF CallStep, RecordTypes
<1>2. ASSUME NEW st \in Steps, Hear(st) PROVE RecordTypes'
    BY <1>2 DEF Hear, RecordTypes
<1>3. ASSUME NEW st \in Steps, WaitEnds(st) PROVE RecordTypes'
    BY <1>3 DEF WaitEnds, RecordTypes
<1>4. ASSUME NEW st \in Steps, ChildStarts(st) PROVE RecordTypes'
    BY <1>4 DEF ChildStarts, RecordTypes
<1>5. ASSUME NEW st \in Steps, ChildSeen(st) PROVE RecordTypes'
    BY <1>5 DEF ChildSeen, RecordTypes
<1>6. ASSUME NEW st \in Steps, ChildEnds(st) PROVE RecordTypes'
    BY <1>6 DEF ChildEnds, RecordTypes
<1>7. ASSUME NEW st \in Steps, ChildHeard(st) PROVE RecordTypes'
    BY <1>7 DEF ChildHeard, RecordTypes
<1>8. ASSUME Throw PROVE RecordTypes'
    BY <1>8 DEF Throw, RecordTypes, LeftOpen
<1>9. ASSUME End PROVE RecordTypes'
    BY <1>9 DEF End, EndTypes, RecordTypes
<1>10. ASSUME CleanupArrives PROVE RecordTypes'
    BY <1>10 DEF CleanupArrives, RecordTypes, Agents
<1>11. ASSUME \/ Cancel \/ Complete \/ CleanUp
              \/ \E st \in Steps : PickUp(st) \/ Reply(st) \/ CancelActivity(st)
                                   \/ TimeOut(st) \/ Arrive(st) \/ HandlerReturns(st)
       PROVE  RecordTypes'
    BY <1>11 DEF Cancel, Complete, CleanUp, PickUp, Reply, CancelActivity, TimeOut, Arrive,
           HandlerReturns, record, RecordTypes
<1>12. ASSUME \/ \E st \in Steps : TaskTimesOut(st) \/ TaskEnds(st) \/ DeliverCancel(st)
                                   \/ Handle(st)
              \/ CleanupFails \/ HostCloses \/ HostRestarts
       PROVE  RecordTypes'
    BY <1>12 DEF TaskTimesOut, TaskEnds, DeliverCancel, CleanupFails, Handle, HostCloses,
           HostRestarts, Abort, record, RecordTypes
<1>13. ASSUME UNCHANGED runVars PROVE RecordTypes'
    BY <1>13, StandsStill DEF EndTypes, RecordTypes
<1> QED BY <1>1, <1>2, <1>3, <1>4, <1>5, <1>6, <1>7, <1>8, <1>9, <1>10, <1>11, <1>12, <1>13,
               NextSteps DEF vars, Running, Stopping, Wire, Dispatching, CleanUps

\* The types of activities, tasks and their answers.
LEMMA TaskTypesStep ==
    ASSUME SaidTypes, EndTypes, RecordTypes, TaskTypes, [Next]_vars
    PROVE  TaskTypes'
<1>1. ASSUME NEW st \in Steps, CallStep(st) PROVE TaskTypes'
    BY <1>1 DEF CallStep, TaskTypes, dispatcher
<1>2. ASSUME NEW st \in Steps, PickUp(st) PROVE TaskTypes'
    BY <1>2 DEF PickUp, TaskTypes, dispatcher
<1>3. ASSUME NEW st \in Steps, Reply(st) PROVE TaskTypes'
    BY <1>3, KnownReports DEF Reply, TaskTypes, Report, dispatcher
<1>4. ASSUME NEW st \in Steps, CancelActivity(st) PROVE TaskTypes'
    BY <1>4, KnownReports DEF CancelActivity, TaskTypes, Report, dispatcher
<1>5. ASSUME NEW st \in Steps, TimeOut(st) PROVE TaskTypes'
    BY <1>5, KnownReports DEF TimeOut, TaskTypes, Report, dispatcher
<1>6. ASSUME NEW st \in Steps, Arrive(st) PROVE TaskTypes'
    BY <1>6, KnownReports DEF Arrive, TaskTypes, temporal
<1>7. ASSUME NEW st \in Steps, Handle(st) PROVE TaskTypes'
    BY <1>7 DEF Handle, TaskTypes, temporal
<1>8. ASSUME NEW st \in Steps, HandlerReturns(st) PROVE TaskTypes'
    BY <1>8 DEF HandlerReturns, TaskTypes, SaidTypes, temporal
<1>9. ASSUME NEW st \in Steps, TaskTimesOut(st) PROVE TaskTypes'
    BY <1>9, AbortTypes DEF TaskTimesOut, TaskTypes, temporal
<1>10. ASSUME NEW st \in Steps, TaskEnds(st) PROVE TaskTypes'
    BY <1>10 DEF TaskEnds, TaskTypes, temporal
<1>11. ASSUME NEW st \in Steps, DeliverCancel(st) PROVE TaskTypes'
    BY <1>11, AbortTypes DEF DeliverCancel, DispatcherCancel, TaskTypes
<1>12. ASSUME CleanupArrives PROVE TaskTypes'
    BY <1>12, AbortTypes DEF CleanupArrives, TaskTypes, DispatcherCancel
<1>13. ASSUME HostCloses PROVE TaskTypes'
    BY <1>13, AbortTypes DEF HostCloses, TaskTypes
<1>14. ASSUME HostRestarts PROVE TaskTypes'
    BY <1>14, KnownReports, AbortTypes DEF HostRestarts, TaskTypes, SaidTypes, Fault, BridgeLost,
           record, Agents
<1>15. ASSUME \/ \E st \in Steps : Hear(st) \/ WaitEnds(st) \/ ChildStarts(st)
                                   \/ ChildSeen(st) \/ ChildEnds(st) \/ ChildHeard(st)
              \/ Cancel \/ Complete \/ Throw
       PROVE  TaskTypes'
    BY <1>15 DEF Hear, WaitEnds, ChildStarts, ChildSeen, ChildEnds, ChildHeard, Cancel, Complete,
           Throw, NoStep, temporal, dispatcher, TaskTypes, SaidTypes
<1>16. ASSUME CleanUp \/ End \/ CleanupFails PROVE TaskTypes'
    BY <1>16 DEF CleanUp, End, CleanupFails, dispatcher, TaskTypes
<1>17. ASSUME UNCHANGED runVars PROVE TaskTypes'
    BY <1>17, StandsStill DEF TaskTypes
<1> QED BY <1>1, <1>2, <1>3, <1>4, <1>5, <1>6, <1>7, <1>8, <1>9, <1>10, <1>11, <1>12, <1>13,
               <1>14, <1>15, <1>16, <1>17, NextSteps DEF vars, Running, Stopping, Wire,
               Dispatching, CleanUps

\* The types of sessions: a submit is of a session the bridge holds.
LEMMA SessionTypesStep ==
    ASSUME TypeOK, SessionTypes, TasksMatch, StepsInPlace, [Next]_vars
    PROVE  SessionTypes'
<1>1. ASSUME NEW s \in Sessions, OpeningReads(s) PROVE SessionTypes'
    BY <1>1 DEF OpeningReads, SessionTypes, Refusals
<1>2. ASSUME NEW s \in Sessions, OpeningMarks(s) PROVE SessionTypes'
    BY <1>2 DEF OpeningMarks, SessionTypes, Refusals
<1>3. ASSUME NEW s \in Sessions, OpeningAnswered(s) PROVE SessionTypes'
    BY <1>3 DEF OpeningAnswered, SessionTypes, Refusals
<1>4. ASSUME NEW s \in Sessions, OpeningLeaves(s) PROVE SessionTypes'
    BY <1>4 DEF OpeningLeaves, SessionTypes, Released, Refusals
<1>5. ASSUME NEW st \in Agents, SubmitLooks(st) PROVE SessionTypes'
    BY <1>5 DEF SubmitLooks, SessionTypes, Leave
<1>6. ASSUME NEW st \in Agents, SubmitRecords(st) PROVE SessionTypes'
    BY <1>6 DEF SubmitRecords, SessionTypes, Leave
<1>7. ASSUME NEW st \in Agents, SubmitAnswered(st) PROVE SessionTypes'
    BY <1>7 DEF SubmitAnswered, SessionTypes, Settle, Leave, SettleUnlessFinal
<1>8. ASSUME NEW st \in Agents, SubmitSettles(st) PROVE SessionTypes'
    BY <1>8 DEF SubmitSettles, SessionTypes, Settle, Leave
<1>9. ASSUME NEW s \in Sessions, ProviderCloses(s) PROVE SessionTypes'
    BY <1>9 DEF ProviderCloses, SessionTypes
<1>10. ASSUME NEW s \in Sessions, CloseSession(s) PROVE SessionTypes'
    BY <1>10 DEF CloseSession, SessionTypes, Released
<1>11. ASSUME CloseWaits PROVE SessionTypes'
    BY <1>11 DEF CloseWaits, SessionTypes
<1>12. ASSUME CloseEnds PROVE SessionTypes'
    BY <1>12 DEF CloseEnds, SessionTypes
<1>13. ASSUME NEW st \in Agents, Creating(st) PROVE SessionTypes'
    BY <1>13 DEF Creating, SessionTypes, Create
<1>14. ASSUME NEW st \in Agents, Submits(st) PROVE SessionTypes'
    BY <1>14 DEF Submits, SessionTypes, Submit, Holds
<1>15. ASSUME HostCloses PROVE SessionTypes'
    BY <1>15 DEF HostCloses, SessionTypes
<1>16. ASSUME BridgeLost PROVE SessionTypes'
    BY <1>16 DEF BridgeLost, SessionTypes
<1>17. ASSUME Answering \/ Pumping \/ Working \/ UNCHANGED held PROVE SessionTypes'
    BY <1>17, BridgeFrames DEF held, SessionTypes
<1>18. ASSUME (\E st \in Agents : Looking(st)) PROVE SessionTypes'
    BY <1>18 DEF Looking, SessionTypes, Look
<1> QED BY <1>1, <1>2, <1>3, <1>4, <1>5, <1>6, <1>7, <1>8, <1>9, <1>10, <1>11, <1>12, <1>13,
               <1>14, <1>15, <1>16, <1>17, <1>18, BridgeSteps DEF Openings, Submissions, Closing

\* The types of receipts: what is written is a receipt or a final status.
LEMMA ReceiptTypesStep ==
    ASSUME TypeOK, EndsAreEnds, ReceiptTypes, WorkTypes, TasksMatch, StepsInPlace, [Next]_vars
    PROVE  ReceiptTypes'
<1>1. ASSUME NEW st \in Agents, SubmitLooks(st) PROVE ReceiptTypes'
    BY <1>1, BridgeConstants DEF SubmitLooks, ReceiptTypes, FromDisk, Receipts, Open, Agents
<1>2. ASSUME NEW st \in Agents, SubmitRecords(st) PROVE ReceiptTypes'
    BY <1>2 DEF SubmitRecords, ReceiptTypes, Saved, Receipts, Open, Agents
<1>3. ASSUME NEW st \in Agents, SubmitAnswered(st) PROVE ReceiptTypes'
    BY <1>3 DEF SubmitAnswered, ReceiptTypes, Settle, SettleUnlessFinal, LostAnswer, Receipts,
           Open
<1>4. ASSUME NEW st \in Agents, SubmitSettles(st) PROVE ReceiptTypes'
    BY <1>4 DEF SubmitSettles, ReceiptTypes, Saved, Settle, Receipts, Agents
<1>5. ASSUME NEW st \in Agents, InspectReads(st) PROVE ReceiptTypes'
    BY <1>5 DEF InspectReads, ReceiptTypes, FromDisk, Receipts
<1>6. ASSUME NEW o \in Operations, PumpReads(o) PROVE ReceiptTypes'
    BY <1>6 DEF PumpReads, ReceiptTypes, WorkTypes, Receipts, Open
<1>7. ASSUME NEW s \in Sessions, PumpBreaks(s) PROVE ReceiptTypes'
    BY <1>7 DEF PumpBreaks, ReceiptTypes, Receipts
<1>8. ASSUME NEW s \in Sessions, PumpSaves(s) PROVE ReceiptTypes'
    BY <1>8 DEF PumpSaves, ReceiptTypes, EndsAreEnds, Receipts
<1>9. ASSUME BridgeLost PROVE ReceiptTypes'
    BY <1>9 DEF BridgeLost, ReceiptTypes, Receipts
<1>10. ASSUME Openings \/ Working \/ Closing \/ UNCHANGED held PROVE ReceiptTypes'
    BY <1>10, BridgeFrames DEF held, ReceiptTypes
<1>11. ASSUME \/ \E st \in Agents : CreateReturns(st) \/ Inspects(st) \/ Creating(st)
                                    \/ Submits(st) \/ Looking(st)
              \/ \E s \in Sessions : PumpEnds(s)
              \/ HostCloses
       PROVE  ReceiptTypes'
    BY <1>11 DEF CreateReturns, Inspects, PumpEnds, Creating, Submits, Looking, HostCloses,
           ReceiptTypes, Create, Submit, Look
<1> QED BY <1>1, <1>2, <1>3, <1>4, <1>5, <1>6, <1>7, <1>8, <1>9, <1>10, <1>11,
               BridgeSteps DEF Submissions, Answering, Pumping

\* The types of where a step stands.
LEMMA PlaceTypesStep ==
    ASSUME TypeOK, PlaceTypes, TasksMatch, [Next]_vars
    PROVE  PlaceTypes'
<1>1. ASSUME NEW st \in Agents, CreateReturns(st) PROVE PlaceTypes'
    BY <1>1 DEF CreateReturns, PlaceTypes, Return
<1>2. ASSUME NEW st \in Agents, SubmitLooks(st) PROVE PlaceTypes'
    BY <1>2 DEF SubmitLooks, PlaceTypes, Leave, Go, Return
<1>3. ASSUME NEW st \in Agents, SubmitRecords(st) PROVE PlaceTypes'
    BY <1>3, BridgeConstants DEF SubmitRecords, PlaceTypes, Saved, Leave, Fault, Woken, Return,
           Agents
<1>4. ASSUME NEW st \in Agents, SubmitAnswered(st) PROVE PlaceTypes'
    BY <1>4 DEF SubmitAnswered, PlaceTypes, Settle, Leave, SettleUnlessFinal, Go, Return
<1>5. ASSUME NEW st \in Agents, SubmitSettles(st) PROVE PlaceTypes'
    BY <1>5, BridgeConstants DEF SubmitSettles, PlaceTypes, Saved, Frees, Fault, Open, Settle,
           Leave, Woken, Go, Return, Agents
<1>6. ASSUME NEW st \in Agents, Inspects(st) PROVE PlaceTypes'
    BY <1>6 DEF Inspects, PlaceTypes, Return, Looked, Go
<1>7. ASSUME NEW st \in Agents, InspectReads(st) PROVE PlaceTypes'
    BY <1>7 DEF InspectReads, PlaceTypes, Return, Looked, Go
<1>8. ASSUME NEW s \in Sessions, PumpSaves(s) PROVE PlaceTypes'
    BY <1>8 DEF PumpSaves, PlaceTypes, Woken
<1>9. ASSUME NEW st \in Agents, Creating(st) PROVE PlaceTypes'
    BY <1>9 DEF Creating, PlaceTypes, Create, Return, Go
<1>10. ASSUME NEW st \in Agents, Submits(st) PROVE PlaceTypes'
    BY <1>10 DEF Submits, PlaceTypes, Submit, Return, Go
<1>11. ASSUME NEW st \in Agents, Looking(st) PROVE PlaceTypes'
    BY <1>11 DEF Looking, PlaceTypes, Look, Go, Agents
<1>12. ASSUME BridgeLost PROVE PlaceTypes'
    BY <1>12 DEF BridgeLost, PlaceTypes
<1>13. ASSUME Openings \/ Working \/ Closing \/ UNCHANGED held PROVE PlaceTypes'
    BY <1>13, BridgeFrames DEF held, PlaceTypes
<1>14. ASSUME \/ \E s \in Sessions : PumpBreaks(s) \/ PumpEnds(s)
              \/ \E o \in Operations : PumpReads(o)
              \/ HostCloses
       PROVE  PlaceTypes'
    BY <1>14 DEF PumpBreaks, PumpEnds, PumpReads, HostCloses, PlaceTypes
<1> QED BY <1>1, <1>2, <1>3, <1>4, <1>5, <1>6, <1>7, <1>8, <1>9, <1>10, <1>11, <1>12, <1>13,
               <1>14, BridgeSteps DEF Submissions, Answering, Pumping

\* The types of the provider, its signals and the saves under way.
LEMMA WorkTypesStep ==
    ASSUME TypeOK, WorkTypes, ReceiptTypes, TasksMatch, StepsInPlace, [Next]_vars
    PROVE  WorkTypes'
<1>1. ASSUME NEW s \in Sessions, OpeningAnswered(s) PROVE WorkTypes'
    BY <1>1 DEF OpeningAnswered, WorkTypes
<1>2. ASSUME NEW st \in Agents, SubmitRecords(st) PROVE WorkTypes'
    BY <1>2, BridgeConstants DEF SubmitRecords, WorkTypes, StepsInPlace, Submitting, Agents
<1>3. ASSUME NEW st \in Agents, SubmitAnswered(st) PROVE WorkTypes'
    BY <1>3 DEF SubmitAnswered, WorkTypes
<1>4. ASSUME NEW o \in Operations, PumpReads(o) PROVE WorkTypes'
    BY <1>4 DEF PumpReads, WorkTypes
<1>5. ASSUME NEW s \in Sessions, PumpBreaks(s) PROVE WorkTypes'
    BY <1>5 DEF PumpBreaks, WorkTypes, ReceiptTypes
<1>6. ASSUME NEW s \in Sessions, PumpSaves(s) PROVE WorkTypes'
    BY <1>6 DEF PumpSaves, WorkTypes
<1>7. ASSUME NEW s \in Sessions, PumpEnds(s) PROVE WorkTypes'
    BY <1>7 DEF PumpEnds, WorkTypes
<1>8. ASSUME NEW s \in Sessions, ProviderInterrupts(s) PROVE WorkTypes'
    BY <1>8 DEF ProviderInterrupts, WorkTypes, Final
<1>9. ASSUME NEW o \in Operations, ProviderStarts(o) PROVE WorkTypes'
    BY <1>9 DEF ProviderStarts, WorkTypes
<1>10. ASSUME NEW o \in Operations, ProviderEnds(o) PROVE WorkTypes'
    BY <1>10, BridgeConstants DEF ProviderEnds, WorkTypes, Final
<1>11. ASSUME BridgeLost PROVE WorkTypes'
    BY <1>11 DEF BridgeLost, WorkTypes
<1>12. ASSUME Answering \/ Closing \/ UNCHANGED held PROVE WorkTypes'
    BY <1>12, BridgeFrames DEF held, WorkTypes
<1>13. ASSUME \/ \E s \in Sessions : OpeningReads(s) \/ OpeningMarks(s) \/ OpeningLeaves(s)
              \/ \E st \in Agents : SubmitLooks(st) \/ SubmitSettles(st) \/ Creating(st)
                                    \/ Submits(st) \/ Looking(st)
              \/ HostCloses
       PROVE  WorkTypes'
    BY <1>13 DEF OpeningReads, OpeningMarks, OpeningLeaves, SubmitLooks, SubmitSettles, Creating,
           Submits, Looking, HostCloses, WorkTypes, Create, Submit, Look
<1> QED BY <1>1, <1>2, <1>3, <1>4, <1>5, <1>6, <1>7, <1>8, <1>9, <1>10, <1>11, <1>12, <1>13,
               BridgeSteps DEF Openings, Submissions, Pumping, Working

\* What a handler may return.
LEMMA KnownAnswers ==
    /\ Value("created") \in Answers
    /\ \A code \in Refusals : Refusal(code) \in Answers
    /\ \A word \in Receipts \ {"none"} : Value(word) \in Answers /\ Certain(word) \in Answers
<1>1. Value("created") \in Answers /\ \A code \in Refusals : Refusal(code) \in Answers
    BY DEF Answers
<1>2. ASSUME NEW word \in Receipts \ {"none"}
      PROVE  Value(word) \in Answers /\ Certain(word) \in Answers
    BY <1>1 DEF Receipts, Certain, Answers, Refusals
<1> QED BY <1>1, <1>2

\* A handler that looks at a receipt returns or waits.
LEMMA LookedSays ==
    ASSUME NEW st, NEW word \in Receipts \ {"none"}, Looked(st, word)
    PROVE  (\E told \in Answers : Return(st, told)) \/ \E pc : Go(st, pc)
BY KnownAnswers DEF Looked

\* What the store has of an operation, as the bridge takes it.
LEMMA ReadFromDisk ==
    ASSUME ReceiptTypes, NEW o \in Operations, disk[o] # "none"
    PROVE  FromDisk(o) \in Receipts \ {"none"}
BY DEF ReceiptTypes, FromDisk, Receipts

\* A step is somewhere in its handler, or returns with an answer.
LEMMA SaysAnAnswer ==
    ASSUME SaidTypes, NEW st, (\E told \in Answers : Return(st, told)) \/ \E pc : Go(st, pc)
    PROVE  SaidTypes'
BY DEF SaidTypes, Return, Go

\* The type of what handlers say: certain() is asked only of receipts there are.
LEMMA SaidTypesStep ==
    ASSUME TypeOK, ReceiptTypes, SaidTypes, TasksMatch, StepsInPlace, SubmitsHold, [Next]_vars
    PROVE  SaidTypes'
<1>1. ASSUME NEW st \in Agents, CreateReturns(st), UNCHANGED runVars PROVE SaidTypes'
  <2>1. (\E told \in Answers : Return(st, told)) \/ \E pc : Go(st, pc)
    BY <1>1, KnownAnswers DEF CreateReturns
  <2> QED BY <2>1, SaysAnAnswer
<1>2. ASSUME NEW st \in Agents, SubmitLooks(st), UNCHANGED runVars PROVE SaidTypes'
  <2>1. (\E told \in Answers : Return(st, told)) \/ \E pc : Go(st, pc)
    BY <1>2, KnownAnswers, ReadFromDisk, SubmitsName DEF SubmitLooks, Refusals, Leave,
           ReceiptTypes, Submitting, Agents
  <2> QED BY <2>1, SaysAnAnswer
<1>3. ASSUME NEW st \in Agents, SubmitRecords(st), UNCHANGED runVars PROVE SaidTypes'
    BY <1>3, KnownAnswers DEF SubmitRecords, Leave, Return, SaidTypes, Refusals
<1>4. ASSUME NEW st \in Agents, SubmitAnswered(st), UNCHANGED runVars PROVE SaidTypes'
  <2>1. (\E told \in Answers : Return(st, told)) \/ \E pc : Go(st, pc)
    BY <1>4, KnownAnswers, SubmitsName DEF SubmitAnswered, Leave, Settle, SettleUnlessFinal,
           ReceiptTypes, Submitting, Agents, SubmitsHold, Holding, Taken
  <2> QED BY <2>1, SaysAnAnswer
<1>5. ASSUME NEW st \in Agents, SubmitSettles(st), UNCHANGED runVars PROVE SaidTypes'
    BY <1>5, KnownAnswers, SubmitsName DEF SubmitSettles, Refusals, Leave, Return, Go, Settle,
           SaidTypes, ReceiptTypes, Submitting, SubmitsHold, Holding, Taken
<1>6. ASSUME NEW st \in Agents, Inspects(st), UNCHANGED runVars PROVE SaidTypes'
  <2>1. (\E told \in Answers : Return(st, told)) \/ \E pc : Go(st, pc)
    BY <1>6, KnownAnswers, LookedSays, BridgeConstants DEF Inspects, Refusals, ReceiptTypes,
           Agents, StepsInPlace
  <2> QED BY <2>1, SaysAnAnswer
<1>7. ASSUME NEW st \in Agents, InspectReads(st), UNCHANGED runVars PROVE SaidTypes'
  <2>1. (\E told \in Answers : Return(st, told)) \/ \E pc : Go(st, pc)
    BY <1>7, KnownAnswers, LookedSays, ReadFromDisk, BridgeConstants DEF InspectReads, Refusals,
           Agents, StepsInPlace
  <2> QED BY <2>1, SaysAnAnswer
<1>8. ASSUME NEW st \in Agents, Creating(st) PROVE SaidTypes'
  <2>1. (\E told \in Answers : Return(st, told)) \/ \E pc : Go(st, pc)
    BY <1>8, KnownAnswers DEF Creating, Create, Refusals
  <2> QED BY <2>1, SaysAnAnswer
<1>9. ASSUME NEW st \in Agents, Submits(st) PROVE SaidTypes'
  <2>1. (\E told \in Answers : Return(st, told)) \/ \E pc : Go(st, pc)
    BY <1>9, KnownAnswers, BridgeConstants DEF Submits, Submit, Refusals, ReceiptTypes
  <2> QED BY <2>1, SaysAnAnswer
<1>10. ASSUME NEW st \in Agents, Looking(st) PROVE SaidTypes'
    BY <1>10 DEF Looking, Look, Go, SaidTypes
<1>11. ASSUME NEW st \in Steps, HandlerReturns(st) PROVE SaidTypes'
    BY <1>11 DEF HandlerReturns, SaidTypes
<1>12. ASSUME HostRestarts PROVE SaidTypes'
    BY <1>12 DEF HostRestarts, SaidTypes, BridgeLost
<1>13. ASSUME \/ \E st \in Steps : CallStep(st) \/ Hear(st) \/ WaitEnds(st) \/ ChildStarts(st)
                                   \/ ChildSeen(st) \/ ChildEnds(st) \/ ChildHeard(st)
              \/ Cancel \/ Complete
       PROVE  SaidTypes'
    BY <1>13 DEF CallStep, Hear, WaitEnds, ChildStarts, ChildSeen, ChildEnds, ChildHeard, Cancel,
           Complete, Agents, dispatcher, NoStep, temporal, SaidTypes
<1>14. ASSUME \/ Throw \/ CleanUp \/ End
              \/ \E st \in Steps : PickUp(st) \/ Reply(st) \/ CancelActivity(st)
                                   \/ TimeOut(st) \/ Arrive(st) \/ TaskTimesOut(st)
       PROVE  SaidTypes'
    BY <1>14 DEF Throw, CleanUp, End, PickUp, Reply, CancelActivity, TimeOut, Arrive,
           TaskTimesOut, Report, Fault, record, dispatcher, Abort, temporal, SaidTypes
<1>15. ASSUME \/ \E st \in Steps : TaskEnds(st) \/ DeliverCancel(st)
              \/ CleanupArrives \/ CleanupFails \/ HostCloses
       PROVE  SaidTypes'
    BY <1>15 DEF TaskEnds, DeliverCancel, CleanupArrives, CleanupFails, HostCloses, SaidTypes
<1>16. ASSUME UNCHANGED runVars,
              Openings \/ Pumping \/ Working \/ Closing \/ UNCHANGED bridgeVars
       PROVE  SaidTypes'
    BY <1>16, BridgeFrames DEF SaidTypes
<1> QED BY <1>1, <1>2, <1>3, <1>4, <1>5, <1>6, <1>7, <1>8, <1>9, <1>10, <1>11, <1>12, <1>13,
               <1>14, <1>15, <1>16, NextSteps, Handled DEF vars, Running, Stopping, Wire,
               Dispatching, CleanUps, Submissions, Answering

\* The types of cancellation requests and of close().
LEMMA RequestTypesStep ==
    ASSUME TypeOK, ReceiptTypes, RequestTypes, TasksMatch, [Next]_vars
    PROVE  RequestTypes'
<1>1. ASSUME NEW s \in Sessions, ProviderInterrupts(s), UNCHANGED runVars PROVE RequestTypes'
    BY <1>1 DEF ProviderInterrupts, RequestTypes
<1>2. ASSUME NEW s \in Sessions, ProviderCloses(s), UNCHANGED runVars PROVE RequestTypes'
    BY <1>2 DEF ProviderCloses, RequestTypes
<1>3. ASSUME NEW st \in Agents, Creating(st) PROVE RequestTypes'
    BY <1>3 DEF Creating, RequestTypes, Create
<1>4. ASSUME NEW st \in Agents, Submits(st) PROVE RequestTypes'
    BY <1>4 DEF Submits, RequestTypes, Submit
<1>5. ASSUME NEW st \in Agents, Looking(st) PROVE RequestTypes'
    BY <1>5 DEF Looking, RequestTypes, Look
<1>6. ASSUME NEW st \in Steps, HandlerReturns(st) PROVE RequestTypes'
    BY <1>6 DEF HandlerReturns, RequestTypes, ReceiptTypes, RequestCancellation
<1>7. ASSUME NEW st \in Steps, TaskTimesOut(st) PROVE RequestTypes'
    BY <1>7 DEF TaskTimesOut, RequestTypes, ReceiptTypes, RequestCancellation
<1>8. ASSUME NEW st \in Steps, DeliverCancel(st) PROVE RequestTypes'
    BY <1>8 DEF DeliverCancel, RequestTypes, ReceiptTypes, DispatcherCancel, RequestCancellation
<1>9. ASSUME CleanupArrives PROVE RequestTypes'
    BY <1>9 DEF CleanupArrives, RequestTypes, ReceiptTypes, DispatcherCancel, RequestCancellation
<1>10. ASSUME HostRestarts PROVE RequestTypes'
    BY <1>10 DEF HostRestarts, RequestTypes, BridgeLost
<1>11. ASSUME \/ \E st \in Steps : CallStep(st) \/ Hear(st) \/ WaitEnds(st) \/ ChildStarts(st)
                                   \/ ChildSeen(st) \/ ChildEnds(st) \/ ChildHeard(st)
              \/ Cancel \/ Complete
       PROVE  RequestTypes'
    BY <1>11 DEF CallStep, Hear, WaitEnds, ChildStarts, ChildSeen, ChildEnds, ChildHeard, Cancel,
           Complete, Agents, dispatcher, NoStep, temporal, RequestTypes, ReceiptTypes
<1>12. ASSUME \/ Throw \/ CleanUp \/ End
              \/ \E st \in Steps : PickUp(st) \/ Reply(st) \/ CancelActivity(st)
                                   \/ TimeOut(st) \/ Arrive(st) \/ TaskEnds(st)
       PROVE  RequestTypes'
    BY <1>12 DEF Throw, CleanUp, End, PickUp, Reply, CancelActivity, TimeOut, Arrive, TaskEnds,
           Report, Fault, record, dispatcher, temporal, RequestTypes, ReceiptTypes
<1>13. ASSUME CleanupFails \/ HostCloses PROVE RequestTypes'
    BY <1>13 DEF CleanupFails, HostCloses, RequestTypes
<1>14. ASSUME UNCHANGED runVars,
              Openings \/ Submissions \/ Answering \/ Pumping \/ UNCHANGED bridgeVars
       PROVE  RequestTypes'
    BY <1>14, BridgeFrames DEF RequestTypes
<1>15. ASSUME UNCHANGED runVars,
              \/ \E o \in Operations : ProviderStarts(o) \/ ProviderEnds(o)
              \/ \E s \in Sessions : CloseSession(s)
              \/ CloseWaits \/ CloseEnds
       PROVE  RequestTypes'
    BY <1>15 DEF ProviderStarts, ProviderEnds, CloseSession, CloseWaits, CloseEnds, RequestTypes
<1> QED BY <1>1, <1>2, <1>3, <1>4, <1>5, <1>6, <1>7, <1>8, <1>9, <1>10, <1>11, <1>12, <1>13,
               <1>14, <1>15, NextSteps, Handled DEF vars, Running, Stopping, Wire, Dispatching,
               CleanUps, Working, Closing

\* A fault uses up what may fail.
LEMMA FaultTypesStep ==
    ASSUME TypeOK, FaultTypes, TasksMatch, [Next]_vars
    PROVE  FaultTypes'
<1>1. ASSUME NEW s \in Sessions, OpeningMarks(s), UNCHANGED runVars PROVE FaultTypes'
    BY <1>1 DEF OpeningMarks, FaultTypes, Fault
<1>2. ASSUME NEW s \in Sessions, OpeningAnswered(s), UNCHANGED runVars PROVE FaultTypes'
    BY <1>2 DEF OpeningAnswered, FaultTypes, Fault
<1>3. ASSUME NEW s \in Sessions, OpeningLeaves(s), UNCHANGED runVars PROVE FaultTypes'
    BY <1>3 DEF OpeningLeaves, FaultTypes, Released, Fault
<1>4. ASSUME NEW st \in Agents, SubmitRecords(st), UNCHANGED runVars PROVE FaultTypes'
    BY <1>4 DEF SubmitRecords, FaultTypes, Fault
<1>5. ASSUME NEW st \in Agents, SubmitAnswered(st), UNCHANGED runVars PROVE FaultTypes'
    BY <1>5 DEF SubmitAnswered, FaultTypes, Fault
<1>6. ASSUME NEW st \in Agents, SubmitSettles(st), UNCHANGED runVars PROVE FaultTypes'
    BY <1>6 DEF SubmitSettles, FaultTypes, Fault
<1>7. ASSUME NEW s \in Sessions, PumpBreaks(s), UNCHANGED runVars PROVE FaultTypes'
    BY <1>7 DEF PumpBreaks, FaultTypes, Fault
<1>8. ASSUME NEW s \in Sessions, CloseSession(s), UNCHANGED runVars PROVE FaultTypes'
    BY <1>8 DEF CloseSession, FaultTypes, Released, Fault
<1>9. ASSUME NEW st \in Agents, Creating(st) PROVE FaultTypes'
    BY <1>9 DEF Creating, FaultTypes, Create
<1>10. ASSUME NEW st \in Agents, Submits(st) PROVE FaultTypes'
    BY <1>10 DEF Submits, FaultTypes, Submit
<1>11. ASSUME NEW st \in Agents, Looking(st) PROVE FaultTypes'
    BY <1>11 DEF Looking, FaultTypes, Look
<1>12. ASSUME NEW st \in Steps, Reply(st) PROVE FaultTypes'
    BY <1>12 DEF Reply, FaultTypes, Fault
<1>13. ASSUME NEW st \in Steps, TaskTimesOut(st) PROVE FaultTypes'
    BY <1>13 DEF TaskTimesOut, FaultTypes, Fault
<1>14. ASSUME CleanupFails PROVE FaultTypes'
    BY <1>14 DEF CleanupFails, FaultTypes, Fault
<1>15. ASSUME HostCloses PROVE FaultTypes'
    BY <1>15 DEF HostCloses, FaultTypes
<1>16. ASSUME HostRestarts PROVE FaultTypes'
    BY <1>16 DEF HostRestarts, FaultTypes, Fault
<1>17. ASSUME \/ \E st \in Steps : CallStep(st) \/ Hear(st) \/ WaitEnds(st) \/ ChildStarts(st)
                                   \/ ChildSeen(st) \/ ChildEnds(st) \/ ChildHeard(st)
              \/ Cancel \/ Complete
       PROVE  FaultTypes'
    BY <1>17 DEF CallStep, Hear, WaitEnds, ChildStarts, ChildSeen, ChildEnds, ChildHeard, Cancel,
           Complete, Agents, dispatcher, NoStep, temporal, FaultTypes
<1>18. ASSUME \/ Throw \/ CleanUp \/ End
              \/ \E st \in Steps : PickUp(st) \/ CancelActivity(st) \/ TimeOut(st)
                                   \/ Arrive(st) \/ HandlerReturns(st) \/ TaskEnds(st)
       PROVE  FaultTypes'
    BY <1>18 DEF Throw, CleanUp, End, PickUp, CancelActivity, TimeOut, Arrive, HandlerReturns,
           TaskEnds, Report, dispatcher, record, temporal, FaultTypes
<1>19. ASSUME (\E st \in Steps : DeliverCancel(st)) \/ CleanupArrives PROVE FaultTypes'
    BY <1>19 DEF DeliverCancel, CleanupArrives, FaultTypes
<1>20. ASSUME UNCHANGED runVars, Answering \/ Working \/ UNCHANGED bridgeVars PROVE FaultTypes'
    BY <1>20, BridgeFrames DEF FaultTypes
<1>21. ASSUME UNCHANGED runVars,
              \/ \E s \in Sessions : OpeningReads(s) \/ PumpSaves(s) \/ PumpEnds(s)
                                     \/ ProviderCloses(s)
              \/ \E st \in Agents : SubmitLooks(st)
              \/ \E o \in Operations : PumpReads(o)
              \/ CloseWaits \/ CloseEnds
       PROVE  FaultTypes'
    BY <1>21 DEF OpeningReads, SubmitLooks, PumpSaves, PumpEnds, PumpReads, ProviderCloses,
           CloseWaits, CloseEnds, FaultTypes
<1> QED BY <1>1, <1>2, <1>3, <1>4, <1>5, <1>6, <1>7, <1>8, <1>9, <1>10, <1>11, <1>12, <1>13,
               <1>14, <1>15, <1>16, <1>17, <1>18, <1>19, <1>20, <1>21, NextSteps,
               Handled DEF vars, Running, Stopping, Wire, Dispatching, CleanUps, Openings,
               Submissions, Pumping, Closing

\* The life of a session, from its opening to whoever gives it back.
LEMMA OpeningsStep ==
    ASSUME TypeOK, BridgeTypeOK, TasksMatch, OpeningsMatch, [Next]_vars
    PROVE  OpeningsMatch'
<1>1. ASSUME NEW s \in Sessions, OpeningReads(s) PROVE OpeningsMatch'
    BY <1>1 DEF OpeningReads, OpeningsMatch, Refusals
<1>2. ASSUME NEW s \in Sessions, OpeningMarks(s) PROVE OpeningsMatch'
    BY <1>2 DEF OpeningMarks, BridgeTypeOK, OpeningsMatch, Refusals
<1>3. ASSUME NEW s \in Sessions, OpeningAnswered(s) PROVE OpeningsMatch'
    BY <1>3 DEF OpeningAnswered, BridgeTypeOK, OpeningsMatch, Refusals
<1>4. ASSUME NEW s \in Sessions, OpeningLeaves(s) PROVE OpeningsMatch'
    BY <1>4 DEF OpeningLeaves, BridgeTypeOK, OpeningsMatch, Released, Refusals
<1>5. ASSUME NEW s \in Sessions, ProviderCloses(s) PROVE OpeningsMatch'
    BY <1>5 DEF ProviderCloses, OpeningsMatch
<1>6. ASSUME NEW s \in Sessions, CloseSession(s) PROVE OpeningsMatch'
    BY <1>6 DEF CloseSession, BridgeTypeOK, OpeningsMatch, Released
<1>7. ASSUME CloseWaits PROVE OpeningsMatch'
    BY <1>7 DEF CloseWaits, OpeningsMatch, OpeningsSettled, Refusals
<1>8. ASSUME CloseEnds PROVE OpeningsMatch'
    BY <1>8 DEF CloseEnds, OpeningsMatch
<1>9. ASSUME NEW st \in Agents, Creating(st) PROVE OpeningsMatch'
    BY <1>9 DEF Creating, BridgeTypeOK, OpeningsMatch, Create
<1>10. ASSUME HostCloses PROVE OpeningsMatch'
    BY <1>10 DEF HostCloses, OpeningsMatch
<1>11. ASSUME BridgeLost PROVE OpeningsMatch'
    BY <1>11 DEF BridgeLost, OpeningsMatch
<1>12. ASSUME Submissions \/ Answering \/ Pumping \/ Working \/ UNCHANGED held PROVE OpeningsMatch'
    BY <1>12, BridgeFrames DEF held, OpeningsMatch
<1>13. ASSUME \/ \E st \in Agents : Submits(st) \/ Looking(st)
       PROVE  OpeningsMatch'
    BY <1>13 DEF Submits, Looking, OpeningsMatch, Submit, Look
<1> QED BY <1>1, <1>2, <1>3, <1>4, <1>5, <1>6, <1>7, <1>8, <1>9, <1>10, <1>11, <1>12, <1>13,
               BridgeSteps DEF Openings, Closing

\* An operation is asked for by a submit, which has the session.
LEMMA AskedStep ==
    ASSUME TypeOK, BridgeTypeOK, TasksMatch, OpeningsMatch, StepsInPlace, AskedAtHome, [Next]_vars
    PROVE  AskedAtHome'
<1>1. ASSUME NEW s \in Sessions, OpeningReads(s) PROVE AskedAtHome'
    BY <1>1 DEF OpeningReads, AskedAtHome
<1>2. ASSUME NEW s \in Sessions, OpeningMarks(s) PROVE AskedAtHome'
    BY <1>2 DEF OpeningMarks, BridgeTypeOK, AskedAtHome
<1>3. ASSUME NEW s \in Sessions, OpeningAnswered(s) PROVE AskedAtHome'
    BY <1>3 DEF OpeningAnswered, BridgeTypeOK, AskedAtHome
<1>4. ASSUME NEW s \in Sessions, OpeningLeaves(s) PROVE AskedAtHome'
    BY <1>4 DEF OpeningLeaves, AskedAtHome
<1>5. ASSUME NEW st \in Agents, SubmitRecords(st) PROVE AskedAtHome'
    BY <1>5, BridgeConstants DEF SubmitRecords, BridgeTypeOK, OpeningsMatch, StepsInPlace,
           AskedAtHome, Submitting, Agents
<1>6. ASSUME NEW st \in Agents, SubmitAnswered(st) PROVE AskedAtHome'
    BY <1>6 DEF SubmitAnswered, AskedAtHome
<1>7. ASSUME NEW st \in Agents, Creating(st) PROVE AskedAtHome'
    BY <1>7 DEF Creating, BridgeTypeOK, AskedAtHome, Create
<1>8. ASSUME BridgeLost PROVE AskedAtHome'
    BY <1>8 DEF BridgeLost, BridgeTypeOK, AskedAtHome
<1>9. ASSUME Answering \/ Pumping \/ Working \/ Closing \/ UNCHANGED held PROVE AskedAtHome'
    BY <1>9, BridgeFrames DEF held, AskedAtHome
<1>10. ASSUME \/ \E st \in Agents : SubmitLooks(st) \/ SubmitSettles(st) \/ Submits(st)
                                    \/ Looking(st)
              \/ HostCloses
       PROVE  AskedAtHome'
    BY <1>10 DEF SubmitLooks, SubmitSettles, Submits, Looking, HostCloses, AskedAtHome, Submit,
           Look
<1> QED BY <1>1, <1>2, <1>3, <1>4, <1>5, <1>6, <1>7, <1>8, <1>9, <1>10, BridgeSteps DEF Openings,
               Submissions

\* The provider ends only what it was asked for, and the pump writes only ends.
LEMMA EndsStep ==
    ASSUME TypeOK, BridgeTypeOK, TasksMatch, EndsAreEnds, [Next]_vars
    PROVE  EndsAreEnds'
<1>1. ASSUME NEW s \in Sessions, OpeningAnswered(s) PROVE EndsAreEnds'
    BY <1>1 DEF OpeningAnswered, BridgeTypeOK, EndsAreEnds
<1>2. ASSUME NEW st \in Agents, SubmitRecords(st) PROVE EndsAreEnds'
    BY <1>2 DEF SubmitRecords, EndsAreEnds
<1>3. ASSUME NEW st \in Agents, SubmitAnswered(st) PROVE EndsAreEnds'
    BY <1>3 DEF SubmitAnswered, EndsAreEnds
<1>4. ASSUME NEW o \in Operations, PumpReads(o) PROVE EndsAreEnds'
    BY <1>4 DEF PumpReads, BridgeTypeOK, EndsAreEnds
<1>5. ASSUME NEW s \in Sessions, PumpBreaks(s) PROVE EndsAreEnds'
    BY <1>5 DEF PumpBreaks, BridgeTypeOK, EndsAreEnds
<1>6. ASSUME NEW s \in Sessions, PumpSaves(s) PROVE EndsAreEnds'
    BY <1>6 DEF PumpSaves, BridgeTypeOK, EndsAreEnds
<1>7. ASSUME NEW s \in Sessions, PumpEnds(s) PROVE EndsAreEnds'
    BY <1>7 DEF PumpEnds, EndsAreEnds
<1>8. ASSUME NEW s \in Sessions, ProviderInterrupts(s) PROVE EndsAreEnds'
    BY <1>8 DEF ProviderInterrupts, BridgeTypeOK, EndsAreEnds, Final
<1>9. ASSUME NEW o \in Operations, ProviderStarts(o) PROVE EndsAreEnds'
    BY <1>9 DEF ProviderStarts, EndsAreEnds, Final
<1>10. ASSUME NEW o \in Operations, ProviderEnds(o) PROVE EndsAreEnds'
    BY <1>10, BridgeConstants DEF ProviderEnds, BridgeTypeOK, EndsAreEnds, Final
<1>11. ASSUME BridgeLost PROVE EndsAreEnds'
    BY <1>11 DEF BridgeLost, EndsAreEnds
<1>12. ASSUME Answering \/ Closing \/ UNCHANGED held PROVE EndsAreEnds'
    BY <1>12, BridgeFrames DEF held, EndsAreEnds
<1>13. ASSUME \/ \E s \in Sessions : OpeningReads(s) \/ OpeningMarks(s) \/ OpeningLeaves(s)
              \/ \E st \in Agents : SubmitLooks(st) \/ SubmitSettles(st) \/ Creating(st)
                                    \/ Submits(st) \/ Looking(st)
              \/ HostCloses
       PROVE  EndsAreEnds'
    BY <1>13 DEF OpeningReads, OpeningMarks, OpeningLeaves, SubmitLooks, SubmitSettles, Creating,
           Submits, Looking, HostCloses, EndsAreEnds, Create, Submit, Look
<1> QED BY <1>1, <1>2, <1>3, <1>4, <1>5, <1>6, <1>7, <1>8, <1>9, <1>10, <1>11, <1>12, <1>13,
               BridgeSteps DEF Openings, Submissions, Pumping, Working

\* A submit takes a session that nobody is busy with, and every other step leaves
\* a step's place to its kind.
LEMMA PlaceStep ==
    ASSUME TypeOK, BridgeTypeOK, TasksMatch, StepsInPlace, [Next]_vars
    PROVE  StepsInPlace'
<1>1. ASSUME NEW st \in Agents, CreateReturns(st) PROVE StepsInPlace'
    BY <1>1 DEF CreateReturns, BridgeTypeOK, StepsInPlace, Return, Submitting
<1>2. ASSUME NEW st \in Agents, SubmitLooks(st) PROVE StepsInPlace'
    BY <1>2 DEF SubmitLooks, BridgeTypeOK, StepsInPlace, Leave, Go, Refusals, Submitting, Return,
           Agents
<1>3. ASSUME NEW st \in Agents, SubmitRecords(st) PROVE StepsInPlace'
  <2>1. CASE Saved(st, OperationIn[st], "submitting", "executing") /\ UNCHANGED busy
    BY <1>3, <2>1, SaveWakes DEF SubmitRecords, Agents, StepsInPlace, Submitting
  <2>2. CASE Leave(st, Refusal("unknown"))
    BY <1>3, <2>2 DEF SubmitRecords, Leave, Return, Agents, BridgeTypeOK, StepsInPlace, Submitting
  <2> QED BY <1>3, <2>1, <2>2 DEF SubmitRecords
<1>4. ASSUME NEW st \in Agents, SubmitAnswered(st) PROVE StepsInPlace'
    BY <1>4 DEF SubmitAnswered, BridgeTypeOK, StepsInPlace, Settle, Leave, SettleUnlessFinal,
           Refusals, Submitting, Go, Return, Agents
<1>5. ASSUME NEW st \in Agents, SubmitSettles(st) PROVE StepsInPlace'
  <2>1. CASE Saved(st, OperationIn[st], saving[st],
         "out") /\ busy' = busy \ {SessionIn[st]}
    BY <1>5, <2>1, SaveWakes DEF SubmitSettles, Agents, StepsInPlace, Submitting
  <2>2. CASE Settle(st, "unknown")
    BY <1>5, <2>2 DEF SubmitSettles, Settle, Go, StepsInPlace
  <2>3. CASE \E answered : Leave(st, answered)
    BY <1>5, <2>3 DEF SubmitSettles, Leave, Return, Agents, BridgeTypeOK, StepsInPlace, Submitting
  <2> QED BY <1>5, <2>1, <2>2, <2>3 DEF SubmitSettles
<1>6. ASSUME NEW st \in Agents, Inspects(st) PROVE StepsInPlace'
    BY <1>6 DEF Inspects, BridgeTypeOK, StepsInPlace, Return, Looked, Go, Submitting
<1>7. ASSUME NEW st \in Agents, InspectReads(st) PROVE StepsInPlace'
  <2>1. \/ at' = [at EXCEPT ![st] = "out"]
        \/ at' = [at EXCEPT ![st] = "waiting"] /\ KindOf[st] = "result"
    BY <1>7 DEF InspectReads, Return, Looked, Go
  <2>2. busy' = busy
    BY <1>7 DEF InspectReads, lookRest, sessionState
  <2> QED BY <2>1, <2>2 DEF BridgeTypeOK, StepsInPlace, Submitting
<1>8. ASSUME NEW s \in Sessions, PumpSaves(s) PROVE StepsInPlace'
    BY <1>8 DEF PumpSaves, StepsInPlace, Woken, Submitting
<1>9. ASSUME NEW st \in Agents, Creating(st) PROVE StepsInPlace'
  <2>1. at' \in {[at EXCEPT ![st] = "out"], [at EXCEPT ![st] = "opening"]}
    BY <1>9 DEF Creating, Create, Return, Go
  <2>2. busy' = busy /\ KindOf[st] = "create"
    BY <1>9 DEF Creating, Create
  <2> QED BY <2>1, <2>2 DEF BridgeTypeOK, StepsInPlace, Submitting
<1>10. ASSUME NEW st \in Agents, Submits(st) PROVE StepsInPlace'
    BY <1>10 DEF Submits, BridgeTypeOK, StepsInPlace, Submit, Submitting, Return, Go
<1>11. ASSUME NEW st \in Agents, Looking(st) PROVE StepsInPlace'
    BY <1>11 DEF Looking, StepsInPlace, Look, Submitting, Go
<1>12. ASSUME BridgeLost PROVE StepsInPlace'
    BY <1>12 DEF BridgeLost, StepsInPlace, Submitting
<1>13. ASSUME Openings \/ Working \/ Closing \/ UNCHANGED held PROVE StepsInPlace'
    BY <1>13, BridgeFrames DEF held, StepsInPlace
<1>14. ASSUME \/ \E s \in Sessions : PumpBreaks(s) \/ PumpEnds(s)
              \/ \E o \in Operations : PumpReads(o)
              \/ HostCloses
       PROVE  StepsInPlace'
    BY <1>14 DEF PumpBreaks, PumpEnds, PumpReads, HostCloses, StepsInPlace
<1> QED BY <1>1, <1>2, <1>3, <1>4, <1>5, <1>6, <1>7, <1>8, <1>9, <1>10, <1>11, <1>12, <1>13,
               <1>14, BridgeSteps DEF Submissions, Answering, Pumping

\* While a submit has its session, nobody else gives the session another operation;
\* a pump that reads an end clears it, and nobody has denied what was asked.
LEMMA HoldStep ==
    ASSUME TypeOK, BridgeTypeOK, TasksMatch, StepsInPlace, SubmitsHold, EndsAreEnds,
           NothingBeforeRecord, [Next]_vars
    PROVE  SubmitsHold'
<1>1. ASSUME NEW st \in Agents, CreateReturns(st) PROVE SubmitsHold'
    BY <1>1 DEF CreateReturns, BridgeTypeOK, SubmitsHold, Return, Taken, Holding
<1>2. ASSUME NEW st \in Agents, SubmitLooks(st) PROVE SubmitsHold'
    BY <1>2, BridgeConstants DEF SubmitLooks, BridgeTypeOK, StepsInPlace, SubmitsHold, Leave, Go,
           Submitting, Taken, Holding, Return, Agents
<1>3. ASSUME NEW st \in Agents, SubmitRecords(st) PROVE SubmitsHold'
  <2>1. CASE Saved(st, OperationIn[st], "submitting", "executing")
    <3> SUFFICES ASSUME NEW x \in Steps, at'[x] \in Taken PROVE Holding(x)'
      BY DEF SubmitsHold
    <3>1. x = st \/ (at[x] = at'[x] /\ Holding(x))
      BY <2>1, <1>3, SaveWakes DEF Agents, Taken, SubmitsHold
    <3>2. CASE x = st
      <4>1. OperationIn[st] \in Operations /\ at[st] = "recording" /\ Holding(st)
        BY <1>3, SubmitsName DEF SubmitRecords, SubmitsHold, Taken, Submitting, Agents
      <4>2. disk'[OperationIn[st]] = "submitting" /\ saving'[st] = "none"
        BY <2>1, <1>3, <4>1 DEF SubmitRecords, Saved, BridgeTypeOK, Agents
      <4>3. at'[st] = "executing"
        BY <2>1, SaveWakes DEF Agents
      <4> QED BY <1>3, <3>2, <4>1, <4>2, <4>3 DEF SubmitRecords, Holding
    <3>3. CASE x # st
      <4>1. OperationIn[x] # OperationIn[st]
        BY <1>3, <3>1, <3>3, BridgeConstants DEF SubmitRecords, StepsInPlace, Submitting, Taken,
               Agents
      <4> QED BY <2>1, <3>1, <3>3, <4>1, <1>3 DEF SubmitRecords, Saved, Holding
    <3> QED BY <3>2, <3>3
  <2>2. CASE Leave(st, Refusal("unknown")) /\ UNCHANGED <<disk, asked>>
    BY <1>3, <2>2 DEF SubmitRecords, Leave, Return, SubmitsHold, Holding, Taken
  <2> QED BY <1>3, <2>1, <2>2 DEF SubmitRecords
<1>4. ASSUME NEW st \in Agents, SubmitAnswered(st) PROVE SubmitsHold'
    BY <1>4, BridgeConstants DEF SubmitAnswered, BridgeTypeOK, StepsInPlace, SubmitsHold, Settle,
           Leave, SettleUnlessFinal, LostAnswer, Submitting, Taken, Holding, Go, Return, Agents
<1>5. ASSUME NEW st \in Agents, SubmitSettles(st) PROVE SubmitsHold'
  <2>1. CASE Saved(st, OperationIn[st], saving[st], "out") /\ memory' = memory
    <3> SUFFICES ASSUME NEW x \in Steps, at'[x] \in Taken PROVE Holding(x)'
      BY DEF SubmitsHold
    <3>1. x # st /\ at[x] = at'[x] /\ Holding(x)
      BY <2>1, <1>5, SaveWakes DEF Agents, Taken, SubmitsHold
    <3>2. SessionIn[x] # SessionIn[st]
      BY <1>5, <3>1 DEF SubmitSettles, StepsInPlace, Submitting, Taken, Agents
    <3>3. saving'[x] = saving[x] /\ active'[SessionIn[x]] = active[SessionIn[x]]
      BY <2>1, <3>1, <3>2, <1>5, BridgeConstants DEF SubmitSettles, BridgeTypeOK, Settle
    <3>4. disk[OperationIn[x]] # "none" => disk'[OperationIn[x]] # "none"
      BY <2>1, <1>5 DEF Saved, SubmitSettles, SubmitsHold, Holding, Taken, Agents
    <3> QED BY <2>1, <3>1, <3>3, <3>4, <1>5 DEF SubmitSettles, Holding
  <2>2. CASE Settle(st, "unknown") /\ UNCHANGED <<active, disk>>
    BY <1>5, <2>2 DEF SubmitSettles, Settle, Go, SubmitsHold, Holding
  <2>3. CASE /\ \E answered : Leave(st, answered)
             /\ saving' = [saving EXCEPT ![st] = "none"] /\ UNCHANGED <<active, memory, disk>>
    BY <1>5, <2>3 DEF SubmitSettles, Leave, Return, BridgeTypeOK, SubmitsHold, Holding, Taken
  <2> QED BY <1>5, <2>1, <2>2, <2>3 DEF SubmitSettles
<1>6. ASSUME NEW st \in Agents, Inspects(st) PROVE SubmitsHold'
    BY <1>6 DEF Inspects, BridgeTypeOK, SubmitsHold, Return, Looked, Go, Taken, Holding
<1>7. ASSUME NEW st \in Agents, InspectReads(st) PROVE SubmitsHold'
    BY <1>7, BridgeConstants DEF InspectReads, BridgeTypeOK, StepsInPlace, SubmitsHold, Return,
           FromDisk, Looked, Nothing, Final, Submitting, Taken, Holding, Go, Agents
<1>8. ASSUME NEW o \in Operations, PumpReads(o) PROVE SubmitsHold'
  <2>1. o \in asked
    BY <1>8 DEF PumpReads, EndsAreEnds, Final
  <2> SUFFICES ASSUME NEW x \in Steps, at[x] \in Taken, Holding(x) PROVE Holding(x)'
    BY <1>8 DEF PumpReads, SubmitsHold
  <2>2. OperationIn[x] \in Operations
    BY SubmitsName DEF Taken, Submitting
  <2>3. memory'[OperationIn[x]] # "none"
    BY <1>8, <2>2 DEF PumpReads, BridgeTypeOK, Holding, EndsAreEnds, Final
  <2>4. at[x] = "recording" => OperationIn[x] # o
    BY <2>1, <2>2 DEF NothingBeforeRecord, Untouched, Unrecorded, Fresh
  <2>5. SessionIn[x] \in Sessions /\ HomeOf[o] \in Sessions
    BY BridgeConstants
  <2>6. \/ active'[SessionIn[x]] = active[SessionIn[x]]
        \/ active[SessionIn[x]] = o /\ active'[SessionIn[x]] = NoOperation
    BY <1>8, <2>5 DEF PumpReads, BridgeTypeOK
  <2> QED BY <1>8, <2>3, <2>4, <2>6 DEF PumpReads, Holding
<1>9. ASSUME NEW s \in Sessions, PumpBreaks(s) PROVE SubmitsHold'
  <2>1. memory' = memory \/ \E o \in Operations : memory' = [memory EXCEPT ![o] = "unknown"]
    BY <1>9 DEF PumpBreaks, BridgeTypeOK
  <2>0. memory \in [Operations -> Receipts]
    BY DEF BridgeTypeOK
  <2>2. \A o \in Operations : memory[o] # "none" => memory'[o] # "none"
    BY <2>0, <2>1
  <2> QED BY <1>9, <2>2, SubmitsName DEF PumpBreaks, SubmitsHold, Holding, Taken, Submitting
<1>10. ASSUME NEW s \in Sessions, PumpSaves(s) PROVE SubmitsHold'
    BY <1>10 DEF PumpSaves, SubmitsHold, EndsAreEnds, Woken, Final, Taken, Holding
<1>11. ASSUME NEW st \in Agents, Creating(st) PROVE SubmitsHold'
    BY <1>11 DEF Creating, BridgeTypeOK, SubmitsHold, Create, Taken, Holding, Return, Go
<1>12. ASSUME NEW st \in Agents, Submits(st) PROVE SubmitsHold'
    BY <1>12 DEF Submits, BridgeTypeOK, SubmitsHold, Submit, Taken, Holding, Return, Go
<1>13. ASSUME NEW st \in Agents, Looking(st) PROVE SubmitsHold'
    BY <1>13 DEF Looking, SubmitsHold, Look, Taken, Holding, Go
<1>14. ASSUME BridgeLost PROVE SubmitsHold'
    BY <1>14 DEF BridgeLost, SubmitsHold, Taken
<1>15. ASSUME Openings \/ Working \/ Closing \/ UNCHANGED held PROVE SubmitsHold'
    BY <1>15, BridgeFrames DEF held, SubmitsHold, Holding
<1>16. ASSUME (\E s \in Sessions : PumpEnds(s)) \/ HostCloses PROVE SubmitsHold'
    BY <1>16 DEF PumpEnds, HostCloses, SubmitsHold, Holding
<1> QED BY <1>1, <1>2, <1>3, <1>4, <1>5, <1>6, <1>7, <1>8, <1>9, <1>10, <1>11, <1>12, <1>13,
               <1>14, <1>15, <1>16, BridgeSteps DEF Submissions, Answering, Pumping

\* Only a submit with nothing active asks for an operation, and an operation is
\* cleared from its session only once it is over or known to have been refused.
LEMMA ActiveStep ==
    ASSUME TypeOK, BridgeTypeOK, TasksMatch, StepsInPlace, SubmitsHold, EndsAreEnds,
           AskedAtHome, NothingBeforeRecord, OpeningsMatch, WordsAreTrue,
           UnsettledIsActive, [Next]_vars
    PROVE  UnsettledIsActive'
<1>1. ASSUME NEW s \in Sessions, OpeningAnswered(s) PROVE UnsettledIsActive'
    BY <1>1 DEF OpeningAnswered, AskedAtHome, UnsettledIsActive, Unfinished
<1>2. ASSUME NEW st \in Agents, SubmitLooks(st) PROVE UnsettledIsActive'
    BY <1>2, BridgeConstants DEF SubmitLooks, BridgeTypeOK, UnsettledIsActive, Unfinished
<1>3. ASSUME NEW st \in Agents, SubmitRecords(st) PROVE UnsettledIsActive'
    BY <1>3, BridgeConstants DEF SubmitRecords, BridgeTypeOK, StepsInPlace, SubmitsHold,
           EndsAreEnds, OpeningsMatch, UnsettledIsActive, Submitting, Taken, Holding, Unfinished,
           Agents
<1>4. ASSUME NEW st \in Agents, SubmitAnswered(st) PROVE UnsettledIsActive'
    BY <1>4 DEF SubmitAnswered, UnsettledIsActive, Unfinished
<1>5. ASSUME NEW st \in Agents, SubmitSettles(st) PROVE UnsettledIsActive'
  <2>1. UNCHANGED <<asked, native, owned>> /\ OperationIn[st] \in Operations
    BY <1>5, SubmitsName DEF SubmitSettles, Submitting, Agents
  <2>2. active' = active \/ memory[OperationIn[st]] = "denied"
    BY <1>5 DEF SubmitSettles, Frees
  <2>3. CASE active' = active
    BY <2>1, <2>3 DEF UnsettledIsActive, Unfinished
  <2>4. CASE memory[OperationIn[st]] = "denied"
    <3>1. ~Unfinished(OperationIn[st])
      BY <2>1, <2>4 DEF WordsAreTrue, ReceiptsTrue, True, Unfinished
    <3>2. \A s \in Sessions : active'[s] = active[s] \/ active[s] = OperationIn[st]
      BY <1>5 DEF SubmitSettles, SubmitsHold, Holding, Taken, BridgeTypeOK, Agents
    <3> QED BY <2>1, <3>1, <3>2, BridgeConstants DEF UnsettledIsActive, Unfinished
  <2> QED BY <2>2, <2>3, <2>4
<1>6. ASSUME NEW o \in Operations, PumpReads(o) PROVE UnsettledIsActive'
    BY <1>6 DEF PumpReads, BridgeTypeOK, EndsAreEnds, UnsettledIsActive, Final, Unfinished
<1>7. ASSUME NEW s \in Sessions, ProviderInterrupts(s) PROVE UnsettledIsActive'
    BY <1>7 DEF ProviderInterrupts, BridgeTypeOK, UnsettledIsActive, Unfinished
<1>8. ASSUME NEW o \in Operations, ProviderStarts(o) PROVE UnsettledIsActive'
    BY <1>8 DEF ProviderStarts, UnsettledIsActive, Unfinished
<1>9. ASSUME NEW o \in Operations, ProviderEnds(o) PROVE UnsettledIsActive'
    BY <1>9 DEF ProviderEnds, UnsettledIsActive, Unfinished
<1>10. ASSUME BridgeLost PROVE UnsettledIsActive'
    BY <1>10 DEF BridgeLost, UnsettledIsActive, Unfinished
<1>11. ASSUME Answering \/ Closing \/ UNCHANGED held PROVE UnsettledIsActive'
    BY <1>11, BridgeFrames DEF held, UnsettledIsActive, Unfinished
<1>12. ASSUME \/ \E s \in Sessions : OpeningReads(s) \/ OpeningMarks(s) \/ OpeningLeaves(s)
                                     \/ PumpBreaks(s) \/ PumpSaves(s) \/ PumpEnds(s)
              \/ \E st \in Agents : Creating(st) \/ Submits(st) \/ Looking(st)
              \/ HostCloses
       PROVE  UnsettledIsActive'
    BY <1>12 DEF OpeningReads, OpeningMarks, OpeningLeaves, PumpBreaks, PumpSaves, PumpEnds,
           Creating, Submits, Looking, HostCloses, UnsettledIsActive, Create, Submit, Look,
           Unfinished
<1> QED BY <1>1, <1>2, <1>3, <1>4, <1>5, <1>6, <1>7, <1>8, <1>9, <1>10, <1>11, <1>12,
               BridgeSteps DEF Openings, Submissions, Pumping, Working

\* The answers that leave an effect in doubt.
LEMMA KnownDoubt ==
    /\ Refusal("cancelled") \in Doubt /\ Refusal("timeout") \in Doubt
    /\ Refusal("unknown") \in Doubt
    /\ Nothing # Refusal("cancelled") /\ Nothing # Refusal("timeout")
    /\ Nothing # Refusal("unknown")
BY DEF Doubt, InDoubt, Refusal, Nothing

\* The types a task goes by.
TaskRanges ==
    /\ step \in [Steps -> {"new", "running", "completed", "failed"}]
    /\ child \in [Steps -> {"none", "initiated", "running", "ended", "terminated"}]
    /\ activity \in [Steps -> {"none", "scheduled", "posted", "adrift", "lost", "closed"}]
    /\ answer \in [Steps -> Reports] /\ outcome \in [Steps -> Answers \cup {Nothing}]
    /\ task \in [Steps -> {"none", "intent", "handling", "ending", "ended"}]
    /\ at \in [Steps -> {"out", "opening", "looking", "recording", "executing", "settling",
                         "inspecting", "reading", "waiting"}]
    /\ said \in [Steps -> Answers \cup {Nothing}]

\* No submit of a fresh operation has got past its first save.
LEMMA FreshIsBeforeAsking ==
    ASSUME BridgeTypeOK, StepsInPlace, SubmitsHold, NEW o \in Operations, Fresh(o),
           NEW st \in Steps, OperationIn[st] = o
    PROVE  at[st] \notin {"executing", "settling"}
<1> SUFFICES ASSUME at[st] \in {"executing", "settling"} PROVE FALSE
    OBVIOUS
<1>1. disk[o] # "none"
    BY DEF SubmitsHold, Holding, Taken
<1>2. PICK x \in Steps : at[x] = "recording" /\ OperationIn[x] = o
    BY <1>1 DEF Fresh
<1>3. SessionIn[x] = SessionIn[st]
    BY <1>2, SubmitsName DEF Submitting
<1> QED BY <1>2, <1>3 DEF StepsInPlace, Submitting

\* Receipts stay true: submit, the pump and inspect write only what they know.
LEMMA TrueStep ==
    ASSUME TypeOK, BridgeTypeOK, TasksMatch, StepsInPlace, SubmitsHold, EndsAreEnds,
           NothingBeforeRecord, ReceiptsTrue, [Next]_vars
    PROVE  ReceiptsTrue'
<1>1. ASSUME NEW st \in Agents, SubmitLooks(st) PROVE ReceiptsTrue'
    BY <1>1 DEF SubmitLooks, BridgeTypeOK, ReceiptsTrue, FromDisk, Final, True
<1>2. ASSUME NEW st \in Agents, SubmitRecords(st) PROVE ReceiptsTrue'
  <2>1. OperationIn[st] \in Operations /\ Untouched(OperationIn[st])
    BY <1>2, SubmitsName DEF SubmitRecords, Submitting, Agents, NothingBeforeRecord, Fresh
  <2>2. native' = native /\ memory' = memory
    BY <1>2 DEF SubmitRecords
  <2>3. \/ asked' = asked /\ disk' = disk
        \/ /\ asked' = asked \cup {OperationIn[st]}
           /\ disk' = [disk EXCEPT ![OperationIn[st]] = "submitting"]
    BY <1>2 DEF SubmitRecords, Saved
  <2>4. \A op \in Operations : disk'[op] \in {disk[op], "submitting"}
    BY <2>3 DEF BridgeTypeOK
  <2> QED BY <2>1, <2>2, <2>3, <2>4 DEF ReceiptsTrue, True, Untouched, Unrecorded, Final
<1>3. ASSUME NEW st \in Agents, SubmitAnswered(st) PROVE ReceiptsTrue'
    BY <1>3 DEF SubmitAnswered, BridgeTypeOK, ReceiptsTrue, Settle, SettleUnlessFinal, LostAnswer,
           Final, True
<1>4. ASSUME NEW st \in Agents, SubmitSettles(st) PROVE ReceiptsTrue'
    BY <1>4 DEF SubmitSettles, BridgeTypeOK, SubmitsHold, ReceiptsTrue, Saved, Settle, Final,
           Taken, Holding, True, Agents
<1>5. ASSUME NEW st \in Agents, InspectReads(st) PROVE ReceiptsTrue'
    BY <1>5 DEF InspectReads, BridgeTypeOK, ReceiptsTrue, FromDisk, Final, True
<1>6. ASSUME NEW o \in Operations, PumpReads(o) PROVE ReceiptsTrue'
    BY <1>6 DEF PumpReads, BridgeTypeOK, ReceiptsTrue, Final, True
<1>7. ASSUME NEW s \in Sessions, PumpBreaks(s) PROVE ReceiptsTrue'
    BY <1>7 DEF PumpBreaks, BridgeTypeOK, ReceiptsTrue, Final, True
<1>8. ASSUME NEW s \in Sessions, PumpSaves(s) PROVE ReceiptsTrue'
    BY <1>8 DEF PumpSaves, EndsAreEnds, ReceiptsTrue, Final, True
<1>9. ASSUME NEW s \in Sessions, ProviderInterrupts(s) PROVE ReceiptsTrue'
    BY <1>9 DEF ProviderInterrupts, BridgeTypeOK, ReceiptsTrue, Final, True
<1>10. ASSUME NEW o \in Operations, ProviderStarts(o) PROVE ReceiptsTrue'
    BY <1>10 DEF ProviderStarts, ReceiptsTrue, Final, True
<1>11. ASSUME NEW o \in Operations, ProviderEnds(o) PROVE ReceiptsTrue'
    BY <1>11 DEF ProviderEnds, ReceiptsTrue, Final, True
<1>12. ASSUME BridgeLost PROVE ReceiptsTrue'
    BY <1>12 DEF BridgeLost, ReceiptsTrue, Final, True
<1>13. ASSUME Openings \/ Closing \/ UNCHANGED held PROVE ReceiptsTrue'
    BY <1>13, BridgeFrames DEF held, ReceiptsTrue, True
<1>14. ASSUME \/ \E st \in Agents : CreateReturns(st) \/ Inspects(st) \/ Creating(st)
                                    \/ Submits(st) \/ Looking(st)
              \/ \E s \in Sessions : PumpEnds(s)
              \/ HostCloses
       PROVE  ReceiptsTrue'
    BY <1>14 DEF CreateReturns, Inspects, PumpEnds, Creating, Submits, Looking, HostCloses,
           ReceiptsTrue, Create, Submit, Look, True
<1> QED BY <1>1, <1>2, <1>3, <1>4, <1>5, <1>6, <1>7, <1>8, <1>9, <1>10, <1>11, <1>12, <1>13,
               <1>14, BridgeSteps DEF Submissions, Answering, Pumping, Working

\* An operation that is fresh after a step was fresh before it.
LEMMA FreshStep ==
    ASSUME TypeOK, BridgeTypeOK, TasksMatch, StepsInPlace, SubmitsHold, EndsAreEnds,
           NothingBeforeRecord, NEW op \in Operations, [Next]_vars
    PROVE  Fresh(op)' => Fresh(op)
<1>1. ASSUME NEW st \in Agents, CreateReturns(st) PROVE Fresh(op)' => Fresh(op)
    BY <1>1 DEF CreateReturns, BridgeTypeOK, Fresh, Return
<1>2. ASSUME NEW st \in Agents, SubmitLooks(st) PROVE Fresh(op)' => Fresh(op)
    BY <1>2 DEF SubmitLooks, BridgeTypeOK, Fresh, Leave, Go, Return
<1>3. ASSUME NEW st \in Agents, SubmitRecords(st) PROVE Fresh(op)' => Fresh(op)
  <2>1. CASE Saved(st, OperationIn[st], "submitting", "executing")
    <3>1. disk'[op] = "none" => disk[op] = "none"
      BY <2>1 DEF Saved, BridgeTypeOK
    <3>2. \A x \in Steps : at'[x] = "recording" => at[x] = "recording"
      BY <2>1, SaveWakes DEF Agents
    <3> QED BY <3>1, <3>2 DEF Fresh
  <2>2. CASE Leave(st, Refusal("unknown")) /\ UNCHANGED disk
    BY <2>2 DEF Leave, Return, Fresh
  <2> QED BY <1>3, <2>1, <2>2 DEF SubmitRecords
<1>4. ASSUME NEW st \in Agents, SubmitAnswered(st) PROVE Fresh(op)' => Fresh(op)
    BY <1>4 DEF SubmitAnswered, BridgeTypeOK, Fresh, Settle, Leave, SettleUnlessFinal, Go, Return
<1>5. ASSUME NEW st \in Agents, SubmitSettles(st) PROVE Fresh(op)' => Fresh(op)
  <2>1. CASE Saved(st, OperationIn[st], saving[st], "out")
    <3>0. saving[st] # "none"
      BY <1>5 DEF SubmitSettles, SubmitsHold, Holding, Taken, Agents
    <3>1. disk'[op] = "none" => disk[op] = "none"
      BY <2>1, <3>0 DEF Saved, BridgeTypeOK
    <3>2. \A x \in Steps : at'[x] = "recording" => at[x] = "recording"
      BY <2>1, SaveWakes DEF Agents
    <3> QED BY <3>1, <3>2 DEF Fresh
  <2>2. CASE UNCHANGED disk /\ (Settle(st, "unknown") \/ \E told : Leave(st, told))
    BY <2>2 DEF Settle, Go, Leave, Return, BridgeTypeOK, Fresh
  <2> QED BY <1>5, <2>1, <2>2 DEF SubmitSettles
<1>6. ASSUME NEW st \in Agents, Inspects(st) PROVE Fresh(op)' => Fresh(op)
    BY <1>6 DEF Inspects, BridgeTypeOK, Fresh, Return, Looked, Go
<1>7. ASSUME NEW st \in Agents, InspectReads(st) PROVE Fresh(op)' => Fresh(op)
    BY <1>7 DEF InspectReads, BridgeTypeOK, Fresh, Return, Looked, Go
<1>8. ASSUME NEW s \in Sessions, PumpSaves(s) PROVE Fresh(op)' => Fresh(op)
    BY <1>8 DEF PumpSaves, EndsAreEnds, Fresh, Woken, Final
<1>9. ASSUME NEW st \in Agents, Creating(st) PROVE Fresh(op)' => Fresh(op)
    BY <1>9 DEF Creating, BridgeTypeOK, Fresh, Create, Return, Go
<1>10. ASSUME NEW st \in Agents, Submits(st) PROVE Fresh(op)' => Fresh(op)
    BY <1>10 DEF Submits, BridgeTypeOK, Fresh, Submit, Return, Go
<1>11. ASSUME NEW st \in Agents, Looking(st) PROVE Fresh(op)' => Fresh(op)
    BY <1>11 DEF Looking, Fresh, Look, Go
<1>12. ASSUME BridgeLost PROVE Fresh(op)' => Fresh(op)
    BY <1>12 DEF BridgeLost, Fresh
<1>13. ASSUME Openings \/ Working \/ Closing \/ UNCHANGED held PROVE Fresh(op)' => Fresh(op)
    BY <1>13, BridgeFrames DEF held, Fresh
<1>14. ASSUME \/ \E s \in Sessions : PumpBreaks(s) \/ PumpEnds(s)
              \/ \E o \in Operations : PumpReads(o)
              \/ HostCloses
       PROVE  Fresh(op)' => Fresh(op)
    BY <1>14 DEF PumpBreaks, PumpEnds, PumpReads, HostCloses, Fresh
<1> QED BY <1>1, <1>2, <1>3, <1>4, <1>5, <1>6, <1>7, <1>8, <1>9, <1>10, <1>11, <1>12, <1>13,
               <1>14, BridgeSteps DEF Submissions, Answering, Pumping

\* Nobody records anything definite of a fresh operation.
LEMMA UnrecordedStep ==
    ASSUME TypeOK, BridgeTypeOK, TasksMatch, StepsInPlace, SubmitsHold, EndsAreEnds,
           NothingBeforeRecord, NEW op \in Operations, Fresh(op), Fresh(op)',
           Unrecorded(op), [Next]_vars
    PROVE  Unrecorded(op)'
<1>1. ASSUME NEW st \in Agents, SubmitLooks(st) PROVE Unrecorded(op)'
    BY <1>1 DEF SubmitLooks, BridgeTypeOK, Unrecorded, FromDisk
<1>2. ASSUME NEW st \in Agents, SubmitRecords(st) PROVE Unrecorded(op)'
  <2>1. CASE Saved(st, OperationIn[st], "submitting",
         "executing") /\ asked' = asked \cup {OperationIn[st]}
    <3>1. op # OperationIn[st]
      <4> SUFFICES ASSUME op = OperationIn[st] PROVE FALSE
        OBVIOUS
      <4>1. disk'[op] # "none"
        BY <2>1 DEF Saved, BridgeTypeOK
      <4>2. PICK x \in Steps : at'[x] = "recording" /\ OperationIn[x] = op
        BY <4>1 DEF Fresh
      <4>3. x # st /\ at[x] = "recording" /\ at[st] = "recording"
        BY <1>2, <2>1, <4>2, SaveWakes DEF SubmitRecords, Agents
      <4> QED BY <4>2, <4>3, SubmitsName DEF StepsInPlace, Submitting, Agents
    <3> QED BY <1>2, <2>1, <3>1 DEF SubmitRecords, Saved, Unrecorded
  <2>2. CASE UNCHANGED <<disk, asked>>
    BY <1>2, <2>2 DEF SubmitRecords, Unrecorded
  <2> QED BY <1>2, <2>1, <2>2 DEF SubmitRecords
<1>3. ASSUME NEW st \in Agents, SubmitAnswered(st) PROVE Unrecorded(op)'
    BY <1>3, FreshIsBeforeAsking DEF SubmitAnswered, BridgeTypeOK, Unrecorded, Settle,
           SettleUnlessFinal, Agents
<1>4. ASSUME NEW st \in Agents, SubmitSettles(st) PROVE Unrecorded(op)'
    BY <1>4, FreshIsBeforeAsking DEF SubmitSettles, BridgeTypeOK, Unrecorded, Saved, Settle,
           Agents
<1>5. ASSUME NEW st \in Agents, InspectReads(st) PROVE Unrecorded(op)'
    BY <1>5 DEF InspectReads, BridgeTypeOK, Unrecorded, FromDisk
<1>6. ASSUME NEW o \in Operations, PumpReads(o) PROVE Unrecorded(op)'
    BY <1>6 DEF PumpReads, BridgeTypeOK, EndsAreEnds, Unrecorded
<1>7. ASSUME NEW s \in Sessions, PumpBreaks(s) PROVE Unrecorded(op)'
    BY <1>7 DEF PumpBreaks, BridgeTypeOK, Unrecorded
<1>8. ASSUME NEW s \in Sessions, PumpSaves(s) PROVE Unrecorded(op)'
    BY <1>8 DEF PumpSaves, EndsAreEnds, Unrecorded
<1>9. ASSUME BridgeLost PROVE Unrecorded(op)'
    BY <1>9 DEF BridgeLost, Unrecorded
<1>10. ASSUME Openings \/ Working \/ Closing \/ UNCHANGED held PROVE Unrecorded(op)'
    BY <1>10, BridgeFrames DEF held, Unrecorded
<1>11. ASSUME \/ \E st \in Agents : CreateReturns(st) \/ Inspects(st) \/ Creating(st)
                                    \/ Submits(st) \/ Looking(st)
              \/ \E s \in Sessions : PumpEnds(s)
              \/ HostCloses
       PROVE  Unrecorded(op)'
    BY <1>11 DEF CreateReturns, Inspects, PumpEnds, Creating, Submits, Looking, HostCloses,
           Unrecorded, Create, Submit, Look
<1> QED BY <1>1, <1>2, <1>3, <1>4, <1>5, <1>6, <1>7, <1>8, <1>9, <1>10, <1>11,
               BridgeSteps DEF Submissions, Answering, Pumping

\* An answer is a value or a refusal.
LEMMA AnswersRead ==
    /\ \A code : Refusal(code).ok = FALSE
    /\ \A word : Value(word).ok = TRUE /\ Value(word).is = word
    /\ Nothing.ok = FALSE
BY DEF Refusal, Value, Nothing

\* certain() says what the receipt says, or nothing certain.
LEMMA CertainReads ==
    ASSUME NEW word
    PROVE  ~Certain(word).ok \/ Certain(word) = Value(word)
BY AnswersRead DEF Certain

\* What a step newly says is in the bridge's memory.
SaysTrue(st) ==
    \/ said'[st] = said[st] \/ ~said'[st].ok
    \/ said'[st] = Value("created") \/ said'[st] = Value(memory'[OperationIn[st]])

\* An outcome was said, and an answer was an outcome, or they leave a doubt.
OutcomeFrom(st) == outcome'[st] \in {outcome[st], said[st], Refusal("unknown"), Nothing}
AnswerFrom(st) == answer'[st] \in {answer[st], outcome[st]} \cup Doubt

\* A doubt, or nothing, is no value and no plain refusal.
LEMMA DoubtIsRefusal == \A told \in Doubt \cup {Nothing} : ~told.ok /\ told \notin Plain
BY DEF Doubt, InDoubt, Plain, Refusal, Nothing

\* A handler that looks at a receipt says what it reads, or nothing certain.
LEMMA LookedTrue ==
    ASSUME NEW st \in Steps, NEW x \in Steps, DOMAIN said = Steps, NEW word, Looked(st, word)
    PROVE  \/ said'[x] = said[x]
           \/ x = st /\ (~said'[st].ok \/ said'[st] = Value(word))
BY CertainReads DEF Looked, Return, Go

\* What a step newly says is a refusal, or stands in memory.
LEMMA SaysStep ==
    ASSUME TypeOK, TasksMatch, StepsInPlace, NEW x \in Agents, [Next]_vars
    PROVE  SaysTrue(x)
<1>1. ASSUME NEW st \in Agents, CreateReturns(st), UNCHANGED runVars PROVE SaysTrue(x)
  <2>0. DOMAIN said = Steps /\ DOMAIN memory = Operations
    BY DEF TypeOK, BridgeTypeOK
  <2> QED BY <1>1, <2>0, AnswersRead DEF CreateReturns, Return, SaysTrue, Agents
<1>2. ASSUME NEW st \in Agents, SubmitLooks(st), UNCHANGED runVars PROVE SaysTrue(x)
  <2>0. DOMAIN said = Steps /\ DOMAIN memory = Operations
    BY DEF TypeOK, BridgeTypeOK
  <2> QED BY <1>2, <2>0, AnswersRead, CertainReads, SubmitsName DEF SubmitLooks, Leave, Return,
                 Go, SaysTrue, Agents, Submitting
<1>3. ASSUME NEW st \in Agents, SubmitRecords(st), UNCHANGED runVars PROVE SaysTrue(x)
  <2>0. DOMAIN said = Steps /\ DOMAIN memory = Operations
    BY DEF TypeOK, BridgeTypeOK
  <2> QED BY <1>3, <2>0, AnswersRead DEF SubmitRecords, Leave, Return, SaysTrue, Agents
<1>4. ASSUME NEW st \in Agents, SubmitAnswered(st), UNCHANGED runVars PROVE SaysTrue(x)
  <2>0. DOMAIN said = Steps /\ DOMAIN memory = Operations
    BY DEF TypeOK, BridgeTypeOK
  <2> QED BY <1>4, <2>0, CertainReads DEF SubmitAnswered, Leave, Return, Settle,
                 SettleUnlessFinal, Go, SaysTrue, Agents
<1>5. ASSUME NEW st \in Agents, SubmitSettles(st), UNCHANGED runVars PROVE SaysTrue(x)
  <2>0. DOMAIN said = Steps /\ DOMAIN memory = Operations
    BY DEF TypeOK, BridgeTypeOK
  <2> QED BY <1>5, <2>0, AnswersRead, CertainReads DEF SubmitSettles, Leave, Return, Settle, Go,
                 SaysTrue, Agents
<1>6. ASSUME NEW st \in Agents, Inspects(st), UNCHANGED runVars PROVE SaysTrue(x)
  <2>0. DOMAIN said = Steps /\ DOMAIN memory = Operations
    BY DEF TypeOK, BridgeTypeOK
  <2> QED BY <1>6, <2>0, AnswersRead, LookedTrue DEF Inspects, Return, Go, SaysTrue, Agents
<1>7. ASSUME NEW st \in Agents, InspectReads(st), UNCHANGED runVars PROVE SaysTrue(x)
  <2>0. DOMAIN said = Steps /\ DOMAIN memory = Operations
    BY DEF TypeOK, BridgeTypeOK
  <2> QED BY <1>7, <2>0, AnswersRead, LookedTrue, BridgeConstants DEF InspectReads, Return,
                 SaysTrue, Agents, StepsInPlace
<1>8. ASSUME NEW st \in Agents, Creating(st) PROVE SaysTrue(x)
  <2>0. DOMAIN said = Steps /\ DOMAIN memory = Operations
    BY DEF TypeOK, BridgeTypeOK
  <2> QED BY <1>8, <2>0, AnswersRead DEF Creating, Create, Return, Go, SaysTrue, Agents
<1>9. ASSUME NEW st \in Agents, Submits(st) PROVE SaysTrue(x)
  <2>0. DOMAIN said = Steps /\ DOMAIN memory = Operations
    BY DEF TypeOK, BridgeTypeOK
  <2> QED BY <1>9, <2>0, AnswersRead, CertainReads DEF Submits, Submit, Return, Go, SaysTrue,
                 Agents
<1>10. ASSUME NEW st \in Agents, Looking(st) PROVE SaysTrue(x)
  <2>0. DOMAIN said = Steps /\ DOMAIN memory = Operations
    BY DEF TypeOK, BridgeTypeOK
  <2> QED BY <1>10, <2>0 DEF Looking, Look, Go, SaysTrue
<1>11. ASSUME NEW st \in Steps, HandlerReturns(st) PROVE SaysTrue(x)
  <2>0. DOMAIN said = Steps /\ DOMAIN memory = Operations
    BY DEF TypeOK, BridgeTypeOK
  <2> QED BY <1>11, <2>0, AnswersRead DEF HandlerReturns, SaysTrue
<1>12. ASSUME HostRestarts PROVE SaysTrue(x)
  <2>0. DOMAIN said = Steps /\ DOMAIN memory = Operations
    BY DEF TypeOK, BridgeTypeOK
  <2> QED BY <1>12, <2>0, AnswersRead DEF HostRestarts, BridgeLost, SaysTrue, Agents
<1>13. ASSUME \/ \E st \in Steps : CallStep(st) \/ Hear(st) \/ WaitEnds(st) \/ ChildStarts(st)
                                   \/ ChildSeen(st) \/ ChildEnds(st) \/ ChildHeard(st)
              \/ Cancel \/ Complete
       PROVE  SaysTrue(x)
    BY <1>13 DEF CallStep, Hear, WaitEnds, ChildStarts, ChildSeen, ChildEnds, ChildHeard, Cancel,
           Complete, Agents, dispatcher, NoStep, temporal, SaysTrue
<1>14. ASSUME \/ Throw \/ CleanUp \/ End
              \/ \E st \in Steps : PickUp(st) \/ Reply(st) \/ CancelActivity(st)
                                   \/ TimeOut(st) \/ Arrive(st) \/ TaskTimesOut(st)
       PROVE  SaysTrue(x)
    BY <1>14 DEF Throw, CleanUp, End, PickUp, Reply, CancelActivity, TimeOut, Arrive,
           TaskTimesOut, Report, Fault, record, dispatcher, Abort, temporal, SaysTrue
<1>15. ASSUME \/ \E st \in Steps : TaskEnds(st) \/ DeliverCancel(st)
              \/ CleanupArrives \/ CleanupFails \/ HostCloses
       PROVE  SaysTrue(x)
    BY <1>15 DEF TaskEnds, DeliverCancel, CleanupArrives, CleanupFails, HostCloses, SaysTrue
<1>16. ASSUME UNCHANGED runVars,
              Openings \/ Pumping \/ Working \/ Closing \/ UNCHANGED bridgeVars
       PROVE  SaysTrue(x)
    BY <1>16, BridgeFrames DEF SaysTrue
<1> QED BY <1>1, <1>2, <1>3, <1>4, <1>5, <1>6, <1>7, <1>8, <1>9, <1>10, <1>11, <1>12, <1>13,
               <1>14, <1>15, <1>16, NextSteps, Handled DEF vars, Running, Stopping, Wire,
               Dispatching, CleanUps, Submissions, Answering

\* A task settles with what its handler said, or is given up.
LEMMA OutcomeStep ==
    ASSUME TypeOK, NEW x \in Steps, [Next]_vars
    PROVE  OutcomeFrom(x)
<1>1. ASSUME NEW st \in Steps, Arrive(st) PROVE OutcomeFrom(x)
  <2>1. outcome' = outcome \/ outcome' = [outcome EXCEPT ![st] = Refusal("unknown")]
    BY <1>1 DEF Arrive
  <2> QED BY <2>1 DEF OutcomeFrom, TypeOK
<1>2. ASSUME NEW st \in Steps, HandlerReturns(st) PROVE OutcomeFrom(x)
  <2>1. outcome' = outcome \/ outcome' = [outcome EXCEPT ![st] = said[st]]
    BY <1>2 DEF HandlerReturns
  <2> QED BY <2>1 DEF OutcomeFrom, TypeOK
<1>3. ASSUME NEW st \in Steps, TaskTimesOut(st) PROVE OutcomeFrom(x)
    BY <1>3, KnownDoubt DEF TaskTimesOut, OutcomeFrom, TypeOK, Fault, Abort, NoStep, record,
           temporal, Agents
<1>4. ASSUME NEW st \in Steps, DeliverCancel(st) PROVE OutcomeFrom(x)
    BY <1>4, KnownDoubt DEF DeliverCancel, OutcomeFrom, TypeOK, DispatcherCancel, record, NoStep,
           Abort, Agents
<1>5. ASSUME CleanupArrives PROVE OutcomeFrom(x)
    BY <1>5, KnownDoubt DEF CleanupArrives, OutcomeFrom, TypeOK, Active, Agents, DispatcherCancel,
           NoStep, Abort
<1>6. ASSUME HostCloses PROVE OutcomeFrom(x)
    BY <1>6, KnownDoubt DEF HostCloses, OutcomeFrom, TypeOK, Ended, Abort, record, NoStep, Agents
<1>7. ASSUME HostRestarts PROVE OutcomeFrom(x)
    BY <1>7, KnownDoubt DEF HostRestarts, OutcomeFrom, TypeOK, Fault, BridgeLost, record, NoStep,
           Agents
<1>8. ASSUME \/ \E st \in Steps : CallStep(st) \/ Hear(st) \/ WaitEnds(st) \/ ChildStarts(st)
                                  \/ ChildSeen(st) \/ ChildEnds(st) \/ ChildHeard(st)
             \/ Cancel \/ Complete
      PROVE  OutcomeFrom(x)
    BY <1>8 DEF CallStep, Hear, WaitEnds, ChildStarts, ChildSeen, ChildEnds, ChildHeard, Cancel,
           Complete, Agents, dispatcher, NoStep, temporal, OutcomeFrom, TypeOK
<1>9. ASSUME \/ Throw \/ CleanUp \/ End \/ CleanupFails
             \/ \E st \in Steps : PickUp(st) \/ Reply(st) \/ CancelActivity(st) \/ TimeOut(st)
                                  \/ TaskEnds(st)
      PROVE  OutcomeFrom(x)
    BY <1>9 DEF Throw, CleanUp, End, PickUp, Reply, CancelActivity, TimeOut, TaskEnds,
           CleanupFails, Report, Fault, record, dispatcher, temporal, OutcomeFrom, TypeOK, NoStep
<1>10. ASSUME (\E st \in Steps : Handle(st)) PROVE OutcomeFrom(x)
    BY <1>10 DEF Handle, Create, Submit, Look, Return, Go, Holds, record, temporal, OutcomeFrom,
           TypeOK, NoStep
<1>11. ASSUME UNCHANGED runVars PROVE OutcomeFrom(x)
    BY <1>11, StandsStill DEF OutcomeFrom, TypeOK, NoStep
<1> QED BY <1>1, <1>2, <1>3, <1>4, <1>5, <1>6, <1>7, <1>8, <1>9, <1>10, <1>11, NextSteps DEF vars,
               Running, Stopping, Wire, Dispatching, CleanUps

\* The sidecar reports what a task settled with, or a doubt.
LEMMA AnswerStep ==
    ASSUME TypeOK, NEW x \in Steps, [Next]_vars
    PROVE  AnswerFrom(x)
<1>1. ASSUME NEW st \in Steps, Reply(st) PROVE AnswerFrom(x)
  <2>1. \/ answer' = [answer EXCEPT ![st] = outcome[st]]
        \/ answer' = [answer EXCEPT ![st] = Refusal("unknown")]
    BY <1>1 DEF Reply, Report
  <2> QED BY <2>1, KnownDoubt DEF AnswerFrom, TypeOK
<1>2. ASSUME NEW st \in Steps, CancelActivity(st) PROVE AnswerFrom(x)
    BY <1>2, KnownDoubt DEF CancelActivity, AnswerFrom, TypeOK, Ended, Report, NoStep, record,
           dispatcher, Agents
<1>3. ASSUME NEW st \in Steps, TimeOut(st) PROVE AnswerFrom(x)
    BY <1>3, KnownDoubt DEF TimeOut, AnswerFrom, TypeOK, Report, NoStep, record, dispatcher,
           Agents
<1>4. ASSUME \/ \E st \in Steps : CallStep(st) \/ Hear(st) \/ WaitEnds(st) \/ ChildStarts(st)
                                  \/ ChildSeen(st) \/ ChildEnds(st) \/ ChildHeard(st)
             \/ Cancel \/ Complete
      PROVE  AnswerFrom(x)
    BY <1>4 DEF CallStep, Hear, WaitEnds, ChildStarts, ChildSeen, ChildEnds, ChildHeard, Cancel,
           Complete, Agents, dispatcher, NoStep, temporal, AnswerFrom, TypeOK
<1>5. ASSUME \/ Throw \/ CleanUp \/ End
             \/ \E st \in Steps : PickUp(st) \/ Arrive(st) \/ HandlerReturns(st)
                                  \/ TaskTimesOut(st) \/ TaskEnds(st) \/ DeliverCancel(st)
      PROVE  AnswerFrom(x)
    BY <1>5 DEF Throw, CleanUp, End, PickUp, Arrive, HandlerReturns, TaskTimesOut, TaskEnds,
           DeliverCancel, Fault, record, dispatcher, temporal, AnswerFrom, TypeOK, NoStep
<1>6. ASSUME \/ CleanupArrives \/ CleanupFails \/ HostCloses \/ HostRestarts
             \/ \E st \in Steps : Handle(st)
      PROVE  AnswerFrom(x)
    BY <1>6 DEF CleanupArrives, CleanupFails, Handle, HostCloses, HostRestarts, Active, Agents,
           Fault, record, dispatcher, Create, Submit, Look, BridgeLost, Return, Go, Holds,
           temporal, AnswerFrom, TypeOK, NoStep
<1>7. ASSUME UNCHANGED runVars PROVE AnswerFrom(x)
    BY <1>7, StandsStill DEF AnswerFrom, TypeOK, NoStep
<1> QED BY <1>1, <1>2, <1>3, <1>4, <1>5, <1>6, <1>7, NextSteps DEF vars, Running, Stopping, Wire,
               Dispatching, CleanUps

\* What is true of an operation stays true; only one that nobody has said
\* anything definite of is asked for.
LEMMA TruthStands ==
    ASSUME TypeOK, BridgeTypeOK, TasksMatch, StepsInPlace, EndsAreEnds,
           NothingBeforeRecord, [Next]_vars,
           NEW op \in Operations, NEW word, True(op, word),
           Untouched(op) => word \notin Final \cup {"denied"}
    PROVE  True(op, word)'
<1>1. ASSUME NEW st \in Agents, SubmitRecords(st) PROVE True(op, word)'
  <2>1. OperationIn[st] \in Operations /\ Untouched(OperationIn[st])
    BY <1>1, SubmitsName DEF SubmitRecords, Submitting, Agents, NothingBeforeRecord, Fresh
  <2>2. native' = native /\ asked' \in {asked, asked \cup {OperationIn[st]}}
    BY <1>1 DEF SubmitRecords
  <2> QED BY <2>1, <2>2 DEF True
<1>2. ASSUME NEW st \in Agents, SubmitAnswered(st) PROVE True(op, word)'
    BY <1>2 DEF SubmitAnswered, True
<1>3. ASSUME NEW s \in Sessions, ProviderInterrupts(s) PROVE True(op, word)'
    BY <1>3 DEF ProviderInterrupts, True, BridgeTypeOK, Final
<1>4. ASSUME NEW o \in Operations, ProviderStarts(o) \/ ProviderEnds(o) PROVE True(op, word)'
    BY <1>4 DEF ProviderStarts, ProviderEnds, True, BridgeTypeOK, Final
<1>5. ASSUME \/ \E st \in Agents : SubmitLooks(st) \/ SubmitSettles(st)
             \/ \E st \in Agents : Creating(st) \/ Submits(st) \/ Looking(st)
      PROVE  True(op, word)'
    BY <1>5 DEF SubmitLooks, SubmitSettles, Creating, Submits, Looking, Create, Submit, Look, True
<1>6. ASSUME Openings \/ Answering \/ Pumping \/ Closing PROVE True(op, word)'
    BY <1>6, BridgeFrames DEF True
<1>7. ASSUME HostCloses \/ BridgeLost \/ UNCHANGED held PROVE True(op, word)'
    BY <1>7 DEF HostCloses, BridgeLost, held, True
<1> QED BY <1>1, <1>2, <1>3, <1>4, <1>5, <1>6, <1>7, BridgeSteps DEF Submissions, Working

\* What a step is told, it has heard before, or it stands in the receipts.
LEMMA AnswersStep ==
    ASSUME TypeOK, BridgeTypeOK, TasksMatch, StepsInPlace, EndsAreEnds,
           NothingBeforeRecord, AnswersTrue,
           ReceiptsTrue', [Next]_vars
    PROVE  AnswersTrue'
<1> SUFFICES ASSUME NEW st \in Agents, OperationIn[st] \in Operations
             PROVE  /\ Told(OperationIn[st], said[st])' /\ Told(OperationIn[st], outcome[st])'
                    /\ Told(OperationIn[st], answer[st])'
    BY DEF AnswersTrue
<1> DEFINE o == OperationIn[st]
<1>0. st \in Steps /\ Told(o, said[st]) /\ Told(o, outcome[st]) /\ Told(o, answer[st])
    BY DEF AnswersTrue, Agents
<1>1. ASSUME NEW told \in {said[st], outcome[st], answer[st]}, told.ok PROVE True(o,
       told.is)'
  <2>1. True(o, told.is)
    BY <1>0, <1>1 DEF Told
  <2>2. Untouched(o) => told.is \notin Final \cup {"denied"}
    BY <1>1 DEF Untouched, Unanswered, Vague
  <2> QED BY <2>1, <2>2, TruthStands
<1>2. Told(o, said[st])'
  <2>1. CASE said'[st] = said[st]
    BY <2>1, <1>1 DEF Told
  <2>2. CASE ~said'[st].ok \/ said'[st] = Value("created")
    BY <2>2, AnswersRead DEF Told, True, Final
  <2>3. CASE said'[st] = Value(memory'[o])
    BY <2>3, AnswersRead DEF Told, ReceiptsTrue
  <2> QED BY <2>1, <2>2, <2>3, SaysStep DEF SaysTrue
<1>3. Told(o, outcome[st])'
    BY <1>0, <1>1, OutcomeStep, AnswersRead DEF OutcomeFrom, Told
<1>4. Told(o, answer[st])'
    BY <1>0, <1>1, AnswerStep, DoubtIsRefusal DEF AnswerFrom, Told
<1> QED BY <1>2, <1>3, <1>4

\* A fresh operation stays untouched.
LEMMA NothingStep ==
    ASSUME TypeOK, BridgeTypeOK, TasksMatch, StepsInPlace, SubmitsHold, EndsAreEnds,
           NothingBeforeRecord, [Next]_vars
    PROVE  NothingBeforeRecord'
<1> SUFFICES ASSUME NEW op \in Operations, Fresh(op)' PROVE Untouched(op)'
    BY DEF NothingBeforeRecord
<1>1. Fresh(op) /\ Untouched(op)
    BY FreshStep DEF NothingBeforeRecord
<1>2. Unrecorded(op)'
    BY <1>1, UnrecordedStep DEF Untouched
<1>3. ASSUME NEW st \in Agents, OperationIn[st] = op
      PROVE  Vague(said[st])' /\ Vague(outcome[st])' /\ Vague(answer[st])'
  <2>0. st \in Steps /\ Vague(said[st]) /\ Vague(outcome[st]) /\ Vague(answer[st])
    BY <1>1, <1>3 DEF Agents, Untouched, Unanswered
  <2>1. Vague(said[st])'
    <3>1. CASE said'[st] = said[st]
      BY <3>1, <2>0 DEF Vague
    <3>2. CASE ~said'[st].ok \/ said'[st] = Value("created")
      BY <3>2, AnswersRead DEF Vague, Final
    <3>3. CASE said'[st] = Value(memory'[op])
      BY <3>3, <1>2, AnswersRead DEF Vague, Unrecorded, Final
    <3> QED BY <1>3, <3>1, <3>2, <3>3, SaysStep DEF SaysTrue
  <2>2. Vague(outcome[st])'
    BY <2>0, OutcomeStep, AnswersRead DEF OutcomeFrom, Vague
  <2>3. Vague(answer[st])'
    BY <2>0, AnswerStep, DoubtIsRefusal DEF AnswerFrom, Vague
  <2> QED BY <2>1, <2>2, <2>3
<1> QED BY <1>2, <1>3 DEF Untouched, Unanswered

\* A step's activity, task and handler keep pace with each other.
LEMMA TaskStep ==
    ASSUME TypeOK, TasksMatch, StepsInPlace, NEW x \in Steps, [Next]_vars
    PROVE  TaskMatches(x)'
<1>0. TaskRanges /\ TaskMatches(x)
    BY DEF TypeOK, BridgeTypeOK, TaskRanges, TasksMatch
<1> USE DEF TaskRanges
<1>1. ASSUME NEW st \in Agents, CreateReturns(st), UNCHANGED runVars PROVE TaskMatches(x)'
    BY <1>1, StandsStill, <1>0 DEF CreateReturns, TaskMatches, Return
<1>2. ASSUME NEW st \in Agents, SubmitLooks(st), UNCHANGED runVars PROVE TaskMatches(x)'
    BY <1>2, StandsStill, <1>0 DEF SubmitLooks, TaskMatches, Leave, Go, Return
<1>3. ASSUME NEW st \in Agents, SubmitRecords(st), UNCHANGED runVars PROVE TaskMatches(x)'
  <2>1. CASE Saved(st, OperationIn[st], "submitting", "executing") /\ said' = said
    BY <1>3, <2>1, StandsStill, <1>0 DEF SubmitRecords, TaskMatches, Saved, Woken, Agents
  <2>2. CASE Leave(st, Refusal("unknown"))
    BY <1>3, <2>2, StandsStill, <1>0 DEF SubmitRecords, TaskMatches, Leave, Return, Agents
  <2> QED BY <1>3, <2>1, <2>2 DEF SubmitRecords
<1>4. ASSUME NEW st \in Agents, SubmitAnswered(st), UNCHANGED runVars PROVE TaskMatches(x)'
    BY <1>4, StandsStill, <1>0 DEF SubmitAnswered, TaskMatches, Settle, Leave, SettleUnlessFinal,
           Go, Return
<1>5. ASSUME NEW st \in Agents, SubmitSettles(st), UNCHANGED runVars PROVE TaskMatches(x)'
  <2>1. CASE Saved(st, OperationIn[st], saving[st],
         "out") /\ said' = [said EXCEPT ![st] = Certain(memory[OperationIn[st]])]
    BY <1>5, <2>1, <1>0, StandsStill, SaveWakes DEF SubmitSettles, TaskMatches, Agents, TypeOK
  <2>2. CASE Settle(st, "unknown")
    BY <1>5, <2>2, <1>0, <1>0, StandsStill DEF SubmitSettles, Settle, Go, TaskMatches
  <2>3. CASE \E told : Leave(st, told)
    BY <1>5, <2>3, <1>0, <1>0, StandsStill DEF SubmitSettles, Leave, Return, TaskMatches
  <2> QED BY <1>5, <2>1, <2>2, <2>3 DEF SubmitSettles
<1>6. ASSUME NEW st \in Agents, Inspects(st), UNCHANGED runVars PROVE TaskMatches(x)'
    BY <1>6, StandsStill, <1>0 DEF Inspects, TaskMatches, Return, Looked, Go
<1>7. ASSUME NEW st \in Agents, InspectReads(st), UNCHANGED runVars PROVE TaskMatches(x)'
    BY <1>7, StandsStill, <1>0 DEF InspectReads, TaskMatches, Return, Looked, Go
<1>8. ASSUME NEW s \in Sessions, PumpSaves(s), UNCHANGED runVars PROVE TaskMatches(x)'
    BY <1>8, StandsStill, <1>0 DEF PumpSaves, TaskMatches, Woken
<1>9. ASSUME NEW st \in Agents, Creating(st) PROVE TaskMatches(x)'
    BY <1>9, <1>0 DEF Creating, TaskMatches, Called, Create, record, temporal, Return, Go
<1>10. ASSUME NEW st \in Agents, Submits(st) PROVE TaskMatches(x)'
    BY <1>10, <1>0 DEF Submits, TaskMatches, Called, Submit, record, temporal, Return, Go
<1>11. ASSUME NEW st \in Agents, Looking(st) PROVE TaskMatches(x)'
    BY <1>11, <1>0 DEF Looking, TaskMatches, Called, Look, record, temporal, Go
<1>12. ASSUME NEW st \in Steps, CallStep(st) PROVE TaskMatches(x)'
    BY <1>12, <1>0 DEF CallStep, TaskMatches, dispatcher
<1>13. ASSUME NEW st \in Steps, Hear(st) PROVE TaskMatches(x)'
    BY <1>13, <1>0, KnownDoubt, BridgeConstants DEF Hear, TaskMatches, Ended, NoStep, temporal,
           dispatcher, Agents
<1>14. ASSUME NEW st \in Steps, WaitEnds(st) PROVE TaskMatches(x)'
    BY <1>14, <1>0 DEF WaitEnds, TaskMatches, temporal, dispatcher
<1>15. ASSUME NEW st \in Steps, ChildStarts(st) PROVE TaskMatches(x)'
    BY <1>15, <1>0 DEF ChildStarts, TaskMatches, temporal, dispatcher
<1>16. ASSUME NEW st \in Steps, ChildSeen(st) PROVE TaskMatches(x)'
    BY <1>16, <1>0 DEF ChildSeen, TaskMatches, temporal, dispatcher
<1>17. ASSUME NEW st \in Steps, ChildEnds(st) PROVE TaskMatches(x)'
    BY <1>17, <1>0 DEF ChildEnds, TaskMatches, temporal, dispatcher
<1>18. ASSUME NEW st \in Steps, ChildHeard(st) PROVE TaskMatches(x)'
    BY <1>18, <1>0 DEF ChildHeard, TaskMatches, temporal, dispatcher
<1>19. ASSUME NEW st \in Steps, PickUp(st) PROVE TaskMatches(x)'
    BY <1>19, <1>0 DEF PickUp, TaskMatches, record, dispatcher
<1>20. ASSUME NEW st \in Steps, Reply(st) PROVE TaskMatches(x)'
    BY <1>20, <1>0, KnownDoubt DEF Reply, TaskMatches, Report, record, dispatcher
<1>21. ASSUME NEW st \in Steps, CancelActivity(st) PROVE TaskMatches(x)'
    BY <1>21, <1>0, KnownDoubt DEF CancelActivity, TaskMatches, Report, record, dispatcher
<1>22. ASSUME NEW st \in Steps, TimeOut(st) PROVE TaskMatches(x)'
    BY <1>22, <1>0 DEF TimeOut, TaskMatches, Report, record, dispatcher
<1>23. ASSUME NEW st \in Steps, Arrive(st) PROVE TaskMatches(x)'
    BY <1>23, <1>0, KnownDoubt DEF Arrive, TaskMatches, record, temporal
<1>24. ASSUME NEW st \in Steps, HandlerReturns(st) PROVE TaskMatches(x)'
    BY <1>24, <1>0 DEF HandlerReturns, TaskMatches, record, temporal
<1>25. ASSUME NEW st \in Steps, TaskTimesOut(st) PROVE TaskMatches(x)'
    BY <1>25, <1>0 DEF TaskTimesOut, TaskMatches, Abort, record, temporal
<1>26. ASSUME NEW st \in Steps, TaskEnds(st) PROVE TaskMatches(x)'
    BY <1>26, <1>0 DEF TaskEnds, TaskMatches, record, temporal
<1>27. ASSUME NEW st \in Steps, DeliverCancel(st) PROVE TaskMatches(x)'
    BY <1>27, <1>0 DEF DeliverCancel, TaskMatches, DispatcherCancel, record, Abort
<1>28. ASSUME Cancel PROVE TaskMatches(x)'
    BY <1>28, <1>0 DEF Cancel, TaskMatches, dispatcher
<1>29. ASSUME Complete PROVE TaskMatches(x)'
    BY <1>29, <1>0 DEF Complete, TaskMatches, dispatcher
<1>30. ASSUME Throw PROVE TaskMatches(x)'
    BY <1>30, <1>0 DEF Throw, TaskMatches, dispatcher
<1>31. ASSUME CleanUp PROVE TaskMatches(x)'
    BY <1>31, <1>0 DEF CleanUp, TaskMatches, dispatcher
<1>32. ASSUME End PROVE TaskMatches(x)'
    BY <1>32, <1>0 DEF End, TaskMatches, dispatcher
<1>33. ASSUME CleanupArrives PROVE TaskMatches(x)'
    BY <1>33, <1>0 DEF CleanupArrives, TaskMatches, DispatcherCancel, Abort
<1>34. ASSUME CleanupFails PROVE TaskMatches(x)'
    BY <1>34, <1>0 DEF CleanupFails, TaskMatches, record, dispatcher
<1>35. ASSUME HostCloses PROVE TaskMatches(x)'
    BY <1>35, <1>0 DEF HostCloses, TaskMatches, Abort, record
<1>36. ASSUME HostRestarts PROVE TaskMatches(x)'
    BY <1>36, <1>0 DEF HostRestarts, TaskMatches, BridgeLost, record
<1>37. ASSUME UNCHANGED runVars, Openings \/ Working \/ Closing \/ UNCHANGED bridgeVars
       PROVE  TaskMatches(x)'
    BY <1>37, <1>0, StandsStill, BridgeFrames DEF TaskMatches
<1>38. ASSUME UNCHANGED runVars,
              \/ \E s \in Sessions : PumpBreaks(s) \/ PumpEnds(s)
              \/ \E o \in Operations : PumpReads(o)
       PROVE  TaskMatches(x)'
    BY <1>38, <1>0, StandsStill DEF PumpBreaks, PumpEnds, PumpReads, TaskMatches
<1> QED BY <1>1, <1>2, <1>3, <1>4, <1>5, <1>6, <1>7, <1>8, <1>9, <1>10, <1>11, <1>12, <1>13,
               <1>14, <1>15, <1>16, <1>17, <1>18, <1>19, <1>20, <1>21, <1>22, <1>23, <1>24, <1>25,
               <1>26, <1>27, <1>28, <1>29, <1>30, <1>31, <1>32, <1>33, <1>34, <1>35, <1>36, <1>37,
               <1>38, NextSteps, Handled DEF vars, Running, Stopping, Wire, Dispatching, CleanUps,
               Submissions, Answering, Pumping

\* A refusal that is no effect in doubt is a plain one.
LEMMA RefusalsAreKnown ==
    /\ \A told \in Reports : ~told.ok /\ told # Nothing /\ told.is \notin InDoubt => told \in Plain
    /\ Nothing \notin Plain
BY DEF Reports, Answers, Refusals, InDoubt, Plain, Refusal, Value, Nothing

\* The run completes a step on a value and fails it on a refusal; a doubt is noted.
LEMMA RecordStep ==
    ASSUME TypeOK, TasksMatch, NEW x \in Agents, Recorded(x), [Next]_vars
    PROVE  Recorded(x)'
<1>0. TaskRanges /\ x \in Steps /\ KindOf[x] \in AgentKinds /\ \A st \in Steps : TaskMatches(st)
    BY DEF TypeOK, BridgeTypeOK, TaskRanges, TasksMatch, Agents
<1> USE DEF TaskRanges, TaskMatches, AgentKinds
<1>1. ASSUME NEW st \in Steps, CallStep(st) PROVE Recorded(x)'
    BY <1>1, <1>0 DEF CallStep, Recorded
<1>2. ASSUME NEW st \in Steps, Hear(st) PROVE Recorded(x)'
  <2>1. answer' = answer /\ unresolved \subseteq unresolved'
    BY <1>2 DEF Hear, temporal
  <2>2. CASE x # st
    BY <1>2, <1>0, <2>1, <2>2 DEF Hear, Recorded
  <2>3. CASE x = st /\ answer[st].ok
    BY <1>2, <1>0, <2>1, <2>3 DEF Hear, Recorded
  <2>4. CASE x = st /\ ~answer[st].ok
    <3>1. /\ step'[x] = "failed"
          /\ unresolved' = unresolved \cup (IF answer[st].is \in InDoubt THEN {st} ELSE {})
      BY <1>2, <1>0, <2>4 DEF Hear
    <3>2. st \in unresolved' \/ answer[st] \in Plain
      BY <1>2, <1>0, <2>4, <3>1, RefusalsAreKnown DEF Hear
    <3> QED BY <2>1, <2>4, <3>1, <3>2 DEF Recorded
  <2> QED BY <2>2, <2>3, <2>4
<1>3. ASSUME NEW st \in Steps, WaitEnds(st) PROVE Recorded(x)'
    BY <1>3, <1>0 DEF WaitEnds, Recorded, temporal
<1>4. ASSUME NEW st \in Steps, ChildHeard(st) PROVE Recorded(x)'
    BY <1>4, <1>0 DEF ChildHeard, Recorded, temporal
<1>5. ASSUME Throw PROVE Recorded(x)'
    BY <1>5, <1>0 DEF Throw, Recorded
<1>6. ASSUME End PROVE Recorded(x)'
    BY <1>6, <1>0 DEF End, Recorded
<1>7. ASSUME NEW st \in Steps, Reply(st) PROVE Recorded(x)'
    BY <1>7, <1>0, RefusalsAreKnown, AnswersRead DEF Reply, Recorded, Report, record
<1>8. ASSUME NEW st \in Steps, CancelActivity(st) PROVE Recorded(x)'
    BY <1>8, <1>0, RefusalsAreKnown, AnswersRead DEF CancelActivity, Recorded, Report, record
<1>9. ASSUME NEW st \in Steps, TimeOut(st) PROVE Recorded(x)'
    BY <1>9, <1>0, RefusalsAreKnown, AnswersRead DEF TimeOut, Recorded, Report, record
<1>10. ASSUME \/ \E st \in Steps : ChildStarts(st) \/ ChildSeen(st) \/ ChildEnds(st)
                                   \/ PickUp(st) \/ Arrive(st) \/ HandlerReturns(st)
              \/ Cancel \/ Complete \/ CleanUp
       PROVE  Recorded(x)'
    BY <1>10, <1>0 DEF ChildStarts, ChildSeen, ChildEnds, Cancel, Complete, CleanUp, PickUp,
           Arrive, HandlerReturns, temporal, record, Recorded
<1>11. ASSUME \/ \E st \in Steps : TaskTimesOut(st) \/ TaskEnds(st) \/ DeliverCancel(st)
                                   \/ Handle(st)
              \/ CleanupArrives \/ CleanupFails \/ HostCloses \/ HostRestarts
       PROVE  Recorded(x)'
    BY <1>11, <1>0 DEF TaskTimesOut, TaskEnds, DeliverCancel, CleanupArrives, CleanupFails,
           Handle, HostCloses, HostRestarts, Fault, record, Active, Agents, dispatcher, Create,
           Submit, Look, BridgeLost, temporal, Return, Go, Holds, Recorded
<1>12. ASSUME UNCHANGED runVars PROVE Recorded(x)'
    BY <1>12, <1>0, StandsStill DEF Recorded
<1> QED BY <1>1, <1>2, <1>3, <1>4, <1>5, <1>6, <1>7, <1>8, <1>9, <1>10, <1>11, <1>12,
               NextSteps DEF vars, Running, Stopping, Wire, Dispatching, CleanUps

\* An open operation is remembered by a step that names it.
LEMMA PendingStep ==
    ASSUME TypeOK, TasksMatch, NEW op \in Operations, PendingNamed(op), [Next]_vars
    PROVE  PendingNamed(op)'
<1>0. /\ TaskRanges
      /\ pending \in [Operations -> Steps \cup {NoStep}]
      /\ \A st \in Steps : TaskMatches(st)
    BY DEF TypeOK, BridgeTypeOK, TaskRanges, TasksMatch
<1> USE DEF TaskRanges, TaskMatches
<1>1. ASSUME NEW st \in Steps, Hear(st) PROVE PendingNamed(op)'
    BY <1>1, <1>0 DEF Hear, PendingNamed
<1>2. ASSUME \/ \E st \in Steps : CallStep(st) \/ WaitEnds(st) \/ ChildStarts(st)
                                  \/ ChildSeen(st) \/ ChildEnds(st) \/ ChildHeard(st)
             \/ Cancel \/ Complete \/ Throw
      PROVE  PendingNamed(op)'
    BY <1>2, <1>0 DEF CallStep, WaitEnds, ChildStarts, ChildSeen, ChildEnds, ChildHeard, Cancel,
           Complete, Throw, Agents, dispatcher, temporal, PendingNamed
<1>3. ASSUME \/ CleanUp \/ End
             \/ \E st \in Steps : PickUp(st) \/ Reply(st) \/ TimeOut(st)
                                  \/ HandlerReturns(st) \/ TaskTimesOut(st)
      PROVE  PendingNamed(op)'
    BY <1>3, <1>0 DEF CleanUp, End, PickUp, Reply, TimeOut, HandlerReturns, TaskTimesOut,
           Report, Fault, record, dispatcher, temporal, PendingNamed, Agents
<1>4. ASSUME \/ \E st \in Steps : TaskEnds(st) \/ DeliverCancel(st) \/ Handle(st)
             \/ CleanupArrives \/ CleanupFails \/ HostCloses \/ HostRestarts
      PROVE  PendingNamed(op)'
    BY <1>4, <1>0 DEF TaskEnds, DeliverCancel, CleanupArrives, CleanupFails, Handle, HostCloses,
           HostRestarts, record, PendingNamed
<1>5. ASSUME NEW st \in Steps, CancelActivity(st) \/ Arrive(st) PROVE PendingNamed(op)'
    BY <1>5, <1>0 DEF CancelActivity, Arrive, Report, record, dispatcher, PendingNamed, Agents
<1>6. ASSUME UNCHANGED runVars PROVE PendingNamed(op)'
    BY <1>6, <1>0, StandsStill DEF PendingNamed
<1> QED BY <1>1, <1>2, <1>3, <1>4, <1>5, <1>6, NextSteps
        DEF vars, Running, Stopping, Wire, Dispatching, CleanUps

\* The cleanup covers every step the run still waits for.
LEMMA EndingStep ==
    ASSUME TypeOK, TasksMatch, EndingMatches, [Next]_vars
    PROVE  EndingMatches'
<1>0. TaskRanges /\ \A st \in Steps : child[st] # "none" => KindOf[st] = "child"
    BY DEF TypeOK, BridgeTypeOK, TaskRanges, TasksMatch, TaskMatches
<1> USE DEF TaskRanges
<1>1. ASSUME NEW st \in Steps, CallStep(st) PROVE EndingMatches'
    BY <1>1, <1>0 DEF CallStep, EndingMatches, Agents
<1>2. ASSUME NEW st \in Steps, Hear(st) PROVE EndingMatches'
  <2>1. /\ unresolved \subseteq unresolved' /\ missed \subseteq missed'
        /\ UNCHANGED <<status, scopeOff, cleanup, listed>> /\ ~Ended
    BY <1>2 DEF Hear, temporal
  <2>2. \A x \in Steps : step'[x] = "running" => step[x] = "running"
    BY <1>2, <1>0 DEF Hear
  <2> QED BY <2>1, <2>2 DEF EndingMatches, Agents
<1>3. ASSUME NEW st \in Steps, WaitEnds(st) PROVE EndingMatches'
    BY <1>3, <1>0 DEF WaitEnds, EndingMatches, temporal
<1>4. ASSUME NEW st \in Steps, ChildHeard(st) PROVE EndingMatches'
    BY <1>4, <1>0 DEF ChildHeard, EndingMatches, temporal
<1>5. ASSUME Cancel PROVE EndingMatches'
    BY <1>5, <1>0 DEF Cancel, EndingMatches
<1>6. ASSUME Complete PROVE EndingMatches'
    BY <1>6, <1>0 DEF Complete, EndingMatches
<1>7. ASSUME Throw PROVE EndingMatches'
    BY <1>7, <1>0 DEF Throw, EndingMatches
<1>8. ASSUME CleanUp PROVE EndingMatches'
    BY <1>8, <1>0 DEF CleanUp, EndingMatches
<1>9. ASSUME End PROVE EndingMatches'
    BY <1>9, <1>0 DEF End, EndingMatches
<1>10. ASSUME CleanupArrives PROVE EndingMatches'
    BY <1>10, <1>0 DEF CleanupArrives, EndingMatches, Agents
<1>11. ASSUME CleanupFails PROVE EndingMatches'
    BY <1>11, <1>0 DEF CleanupFails, EndingMatches, record
<1>12. ASSUME \/ \E st \in Steps : ChildStarts(st) \/ ChildSeen(st) \/ ChildEnds(st)
                                   \/ PickUp(st) \/ Reply(st) \/ CancelActivity(st)
                                   \/ TimeOut(st) \/ Arrive(st) \/ HandlerReturns(st)
       PROVE  EndingMatches'
    BY <1>12, <1>0 DEF ChildStarts, ChildSeen, ChildEnds, PickUp, Reply, CancelActivity, TimeOut,
           Arrive, HandlerReturns, record, temporal, EndingMatches
<1>13. ASSUME NEW st \in Steps,
              TaskTimesOut(st) \/ TaskEnds(st) \/ DeliverCancel(st)
       PROVE  EndingMatches'
    BY <1>13, <1>0 DEF TaskTimesOut, TaskEnds, DeliverCancel, record, temporal, EndingMatches
<1>14. ASSUME NEW st \in Steps, Handle(st) PROVE EndingMatches'
    BY <1>14, <1>0 DEF Handle, record, Create, Submit, Look, temporal, Return, Go, Holds,
           EndingMatches, Agents
<1>15. ASSUME HostCloses \/ HostRestarts PROVE EndingMatches'
    BY <1>15, <1>0 DEF HostCloses, HostRestarts, Fault, record, BridgeLost, temporal,
           EndingMatches
<1>16. ASSUME UNCHANGED runVars PROVE EndingMatches'
    BY <1>16, <1>0, StandsStill DEF EndingMatches
<1> QED BY <1>1, <1>2, <1>3, <1>4, <1>5, <1>6, <1>7, <1>8, <1>9, <1>10, <1>11, <1>12, <1>13,
               <1>14, <1>15, <1>16, NextSteps DEF vars, Running, Stopping, Wire, Dispatching,
               CleanUps

\* A step past its submission stays there.
LEMMA PastStep ==
    ASSUME TypeOK, TasksMatch, NEW x \in Steps, Past(x), [Next]_vars
    PROVE  Past(x)'
<1>0. TaskRanges /\ TaskMatches(x)
    BY DEF TypeOK, BridgeTypeOK, TaskRanges, TasksMatch
<1> USE DEF TaskRanges, TaskMatches
<1>1. ASSUME NEW st \in Steps, CallStep(st) PROVE Past(x)'
    BY <1>1, <1>0 DEF CallStep, Past, dispatcher
<1>2. ASSUME NEW st \in Steps, PickUp(st) PROVE Past(x)'
    BY <1>2, <1>0 DEF PickUp, Past, dispatcher
<1>3. ASSUME NEW st \in Steps, Reply(st) PROVE Past(x)'
    BY <1>3, <1>0 DEF Reply, Past, Report, dispatcher
<1>4. ASSUME NEW st \in Steps, CancelActivity(st) PROVE Past(x)'
    BY <1>4, <1>0 DEF CancelActivity, Past, Report, dispatcher
<1>5. ASSUME NEW st \in Steps, TimeOut(st) PROVE Past(x)'
    BY <1>5, <1>0 DEF TimeOut, Past, Report, dispatcher
<1>6. ASSUME NEW st \in Steps, Arrive(st) PROVE Past(x)'
    BY <1>6, <1>0 DEF Arrive, Past, temporal
<1>7. ASSUME NEW st \in Steps, Handle(st) PROVE Past(x)'
    BY <1>7, <1>0 DEF Handle, Past, temporal
<1>8. ASSUME NEW st \in Steps, HandlerReturns(st) PROVE Past(x)'
    BY <1>8, <1>0 DEF HandlerReturns, Past, temporal
<1>9. ASSUME NEW st \in Steps, TaskTimesOut(st) PROVE Past(x)'
    BY <1>9, <1>0 DEF TaskTimesOut, Past, Abort, temporal
<1>10. ASSUME NEW st \in Steps, TaskEnds(st) PROVE Past(x)'
    BY <1>10, <1>0 DEF TaskEnds, Past, temporal
<1>11. ASSUME NEW st \in Steps, DeliverCancel(st) PROVE Past(x)'
    BY <1>11, <1>0 DEF DeliverCancel, Past, DispatcherCancel, Abort
<1>12. ASSUME CleanupArrives PROVE Past(x)'
    BY <1>12, <1>0 DEF CleanupArrives, Past, DispatcherCancel, Abort
<1>13. ASSUME HostCloses PROVE Past(x)'
    BY <1>13, <1>0 DEF HostCloses, Past, Abort
<1>14. ASSUME HostRestarts PROVE Past(x)'
    BY <1>14, <1>0 DEF HostRestarts, Past
<1>15. ASSUME \/ \E st \in Steps : Hear(st) \/ WaitEnds(st) \/ ChildStarts(st)
                                   \/ ChildSeen(st) \/ ChildEnds(st) \/ ChildHeard(st)
              \/ Cancel \/ Complete \/ Throw
       PROVE  Past(x)'
    BY <1>15, <1>0 DEF Hear, WaitEnds, ChildStarts, ChildSeen, ChildEnds, ChildHeard, Cancel,
           Complete, Throw, NoStep, temporal, dispatcher, Past
<1>16. ASSUME CleanUp \/ End \/ CleanupFails PROVE Past(x)'
    BY <1>16, <1>0 DEF CleanUp, End, CleanupFails, dispatcher, Past
<1>17. ASSUME UNCHANGED runVars PROVE Past(x)'
    BY <1>17, <1>0, StandsStill DEF Past
<1> QED BY <1>1, <1>2, <1>3, <1>4, <1>5, <1>6, <1>7, <1>8, <1>9, <1>10, <1>11, <1>12, <1>13,
               <1>14, <1>15, <1>16, <1>17, NextSteps DEF vars, Running, Stopping, Wire,
               Dispatching, CleanUps

\* A submit looks at the store only at its start.
LEMMA LookingStep ==
    ASSUME TypeOK, TasksMatch, NEW x \in Steps, [Next]_vars
    PROVE  at'[x] = "looking" => at[x] = "looking" \/ task[x] = "intent"
<1> DEFINE StillLooking == at'[x] = "looking" => at[x] = "looking" \/ task[x] = "intent"
<1>0. TaskRanges /\ TaskMatches(x)
    BY DEF TypeOK, BridgeTypeOK, TaskRanges, TasksMatch
<1> USE DEF TaskRanges, TaskMatches
<1>1. ASSUME NEW st \in Agents, CreateReturns(st), UNCHANGED runVars PROVE StillLooking
    BY <1>1, <1>0 DEF CreateReturns, Return
<1>2. ASSUME NEW st \in Agents, SubmitLooks(st), UNCHANGED runVars PROVE StillLooking
    BY <1>2, <1>0 DEF SubmitLooks, Leave, Go, Return
<1>3. ASSUME NEW st \in Agents, SubmitRecords(st), UNCHANGED runVars PROVE StillLooking
    BY <1>3, StandsStill, <1>0 DEF SubmitRecords, Saved, Leave, Fault, Woken, Return, Agents
<1>4. ASSUME NEW st \in Agents, SubmitAnswered(st), UNCHANGED runVars PROVE StillLooking
    BY <1>4, <1>0 DEF SubmitAnswered, Settle, Leave, SettleUnlessFinal, Go, Return
<1>5. ASSUME NEW st \in Agents, SubmitSettles(st), UNCHANGED runVars PROVE StillLooking
    BY <1>5, StandsStill, <1>0 DEF SubmitSettles, Saved, Frees, Fault, Settle, Leave, Woken, Go,
           Return, Agents
<1>6. ASSUME NEW st \in Agents, Inspects(st), UNCHANGED runVars PROVE StillLooking
    BY <1>6, <1>0 DEF Inspects, Return, Looked, Go
<1>7. ASSUME NEW st \in Agents, InspectReads(st), UNCHANGED runVars PROVE StillLooking
    BY <1>7, <1>0 DEF InspectReads, Return, Looked, Go
<1>8. ASSUME NEW s \in Sessions, PumpSaves(s), UNCHANGED runVars PROVE StillLooking
    BY <1>8, <1>0 DEF PumpSaves, Woken
<1>9. ASSUME NEW st \in Agents, Creating(st) PROVE StillLooking
    BY <1>9, <1>0 DEF Creating, Create, Return, Go
<1>10. ASSUME NEW st \in Agents, Submits(st) PROVE StillLooking
    BY <1>10, <1>0 DEF Submits, Called, Submit, Return, Go
<1>11. ASSUME NEW st \in Agents, Looking(st) PROVE StillLooking
    BY <1>11, <1>0 DEF Looking, Look, Go
<1>12. ASSUME HostRestarts PROVE StillLooking
    BY <1>12, <1>0 DEF HostRestarts, BridgeLost
<1>13. ASSUME \/ \E st \in Steps : CallStep(st) \/ Hear(st) \/ WaitEnds(st) \/ ChildStarts(st)
                                   \/ ChildSeen(st) \/ ChildEnds(st) \/ ChildHeard(st)
              \/ Cancel \/ Complete
       PROVE  StillLooking
    BY <1>13, <1>0 DEF CallStep, Hear, WaitEnds, ChildStarts, ChildSeen, ChildEnds, ChildHeard,
           Cancel, Complete, Agents, dispatcher, NoStep, temporal
<1>14. ASSUME \/ Throw \/ CleanUp \/ End
              \/ \E st \in Steps : PickUp(st) \/ Reply(st) \/ CancelActivity(st)
                                   \/ TimeOut(st) \/ Arrive(st) \/ HandlerReturns(st)
       PROVE  StillLooking
    BY <1>14, <1>0 DEF Throw, CleanUp, End, PickUp, Reply, CancelActivity, TimeOut, Arrive,
           HandlerReturns, Report, Fault, record, dispatcher, temporal
<1>15. ASSUME \/ \E st \in Steps : TaskTimesOut(st) \/ TaskEnds(st) \/ DeliverCancel(st)
              \/ CleanupArrives \/ CleanupFails \/ HostCloses
       PROVE  StillLooking
    BY <1>15, <1>0 DEF TaskTimesOut, TaskEnds, DeliverCancel, CleanupArrives, CleanupFails,
           HostCloses, Abort
<1>16. ASSUME UNCHANGED runVars, Openings \/ Working \/ Closing \/ UNCHANGED bridgeVars
       PROVE  StillLooking
    BY <1>16, StandsStill, BridgeFrames
<1>17. ASSUME UNCHANGED runVars,
              \/ \E s \in Sessions : PumpBreaks(s) \/ PumpEnds(s)
              \/ \E o \in Operations : PumpReads(o)
       PROVE  StillLooking
    BY <1>17, <1>0 DEF PumpBreaks, PumpEnds, PumpReads
<1> QED BY <1>1, <1>2, <1>3, <1>4, <1>5, <1>6, <1>7, <1>8, <1>9, <1>10, <1>11, <1>12, <1>13,
               <1>14, <1>15, <1>16, <1>17, NextSteps, Handled DEF vars, Running, Stopping, Wire,
               Dispatching, CleanUps, Submissions, Answering, Pumping

\* A submit that is past looking says nothing definite but what certain() makes of
\* the receipt in memory.
LEMMA SubmitSays ==
    ASSUME TypeOK, TasksMatch, StepsInPlace, NEW x \in Steps, KindOf[x] = "submit",
           at[x] # "looking", task[x] # "intent", [Next]_vars
    PROVE  said'[x] \in {said[x], Nothing, Refusal("unknown"), Certain(memory'[OperationIn[x]])}
<1> DEFINE SaysThat ==
               said'[x] \in {said[x], Nothing, Refusal("unknown"), Certain(memory'[OperationIn[x]])}
<1>0. /\ at \in [Steps -> {"out", "opening", "looking", "recording", "executing",
                           "settling", "inspecting", "reading", "waiting"}]
      /\ DOMAIN said = Steps /\ DOMAIN memory = Operations
      /\ \A st \in Steps :
            /\ at[st] = "opening" => KindOf[st] = "create"
            /\ at[st] \in {"inspecting", "reading", "waiting"} =>
                  KindOf[st] \in {"result", "inspect"}
    BY DEF TypeOK, BridgeTypeOK, StepsInPlace
<1>1. ASSUME NEW st \in Agents, CreateReturns(st), UNCHANGED runVars PROVE SaysThat
    BY <1>1, <1>0 DEF CreateReturns, Return
<1>2. ASSUME NEW st \in Agents, SubmitLooks(st), UNCHANGED runVars PROVE SaysThat
    BY <1>2, <1>0 DEF SubmitLooks, Leave, Go, Return
<1>3. ASSUME NEW st \in Agents, SubmitRecords(st), UNCHANGED runVars PROVE SaysThat
    BY <1>3, <1>0 DEF SubmitRecords, Leave, Return
<1>4. ASSUME NEW st \in Agents, SubmitAnswered(st), UNCHANGED runVars PROVE SaysThat
    BY <1>4, <1>0 DEF SubmitAnswered, Settle, Leave, SettleUnlessFinal, Go, Return
<1>5. ASSUME NEW st \in Agents, SubmitSettles(st), UNCHANGED runVars PROVE SaysThat
    BY <1>5, <1>0 DEF SubmitSettles, Settle, Leave, Go, Return
<1>6. ASSUME NEW st \in Agents, Inspects(st), UNCHANGED runVars PROVE SaysThat
    BY <1>6, <1>0 DEF Inspects, Return, Looked, Go
<1>7. ASSUME NEW st \in Agents, InspectReads(st), UNCHANGED runVars PROVE SaysThat
    BY <1>7, <1>0 DEF InspectReads, Return, Looked, Go
<1>8. ASSUME NEW st \in Agents, Creating(st) PROVE SaysThat
    BY <1>8, <1>0 DEF Creating, Create, Return, Go
<1>9. ASSUME NEW st \in Agents, Submits(st) PROVE SaysThat
    BY <1>9, <1>0 DEF Submits, Called, Submit, Return, Go
<1>10. ASSUME NEW st \in Agents, Looking(st) PROVE SaysThat
    BY <1>10, <1>0 DEF Looking, Look, Go
<1>11. ASSUME NEW st \in Steps, HandlerReturns(st) PROVE SaysThat
    BY <1>11, <1>0 DEF HandlerReturns, Agents
<1>12. ASSUME HostRestarts PROVE SaysThat
    BY <1>12, <1>0 DEF HostRestarts, BridgeLost
<1>13. ASSUME \/ \E st \in Steps : CallStep(st) \/ Hear(st) \/ WaitEnds(st) \/ ChildStarts(st)
                                   \/ ChildSeen(st) \/ ChildEnds(st) \/ ChildHeard(st)
              \/ Cancel \/ Complete
       PROVE  SaysThat
    BY <1>13, <1>0 DEF CallStep, Hear, WaitEnds, ChildStarts, ChildSeen, ChildEnds, ChildHeard,
           Cancel, Complete, Agents, dispatcher, NoStep, temporal
<1>14. ASSUME \/ Throw \/ CleanUp \/ End
              \/ \E st \in Steps : PickUp(st) \/ Reply(st) \/ CancelActivity(st)
                                   \/ TimeOut(st) \/ Arrive(st) \/ TaskTimesOut(st)
       PROVE  SaysThat
    BY <1>14, <1>0 DEF Throw, CleanUp, End, PickUp, Reply, CancelActivity, TimeOut, Arrive,
           TaskTimesOut, Report, Fault, record, dispatcher, Abort, temporal
<1>15. ASSUME \/ \E st \in Steps : TaskEnds(st) \/ DeliverCancel(st)
              \/ CleanupArrives \/ CleanupFails \/ HostCloses
       PROVE  SaysThat
    BY <1>15, <1>0 DEF TaskEnds, DeliverCancel, CleanupArrives, CleanupFails, HostCloses
<1>16. ASSUME UNCHANGED runVars,
              Openings \/ Pumping \/ Working \/ Closing \/ UNCHANGED bridgeVars
       PROVE  SaysThat
    BY <1>16, StandsStill, BridgeFrames
<1> QED BY <1>1, <1>2, <1>3, <1>4, <1>5, <1>6, <1>7, <1>8, <1>9, <1>10, <1>11, <1>12, <1>13,
               <1>14, <1>15, <1>16, NextSteps, Handled DEF vars, Running, Stopping, Wire,
               Dispatching, CleanUps, Submissions, Answering

\* What is open after a step was open before it, or is asked for by it.
LEMMA OpenedBy ==
    ASSUME TypeOK, BridgeTypeOK, TasksMatch, StepsInPlace, NEW o \in Operations,
           Unfinished(o)', ~Unfinished(o), [Next]_vars
    PROVE  \E st \in Agents :
              SubmitRecords(st) /\ OperationIn[st] = o /\ asked' # asked /\ UNCHANGED runVars
<1>1. ASSUME NEW st \in Agents, SubmitRecords(st) PROVE OperationIn[st] = o /\ asked' # asked
    BY <1>1 DEF SubmitRecords, Unfinished
<1>2. ~\E st \in Agents : SubmitAnswered(st)
    BY DEF SubmitAnswered, Unfinished
<1>3. ~\E s \in Sessions : ProviderInterrupts(s)
    BY DEF ProviderInterrupts, Unfinished, BridgeTypeOK
<1>4. ~\E p \in Operations : ProviderStarts(p) \/ ProviderEnds(p)
    BY DEF ProviderStarts, ProviderEnds, Unfinished, BridgeTypeOK
<1>5. /\ ~\E st \in Agents : SubmitLooks(st) \/ SubmitSettles(st)
      /\ ~\E st \in Agents : Creating(st) \/ Submits(st) \/ Looking(st)
    BY DEF SubmitLooks, SubmitSettles, Creating, Submits, Looking, Create, Submit, Look,
           Unfinished
<1>6. ~(Openings \/ Answering \/ Pumping \/ Closing)
    BY BridgeFrames DEF Unfinished
<1>7. ~(HostCloses \/ BridgeLost \/ UNCHANGED held)
    BY DEF HostCloses, BridgeLost, held, Unfinished
<1> QED BY <1>1, <1>2, <1>3, <1>4, <1>5, <1>6, <1>7, NextSteps, Handled,
               RunFrames DEF Submissions, Working, HostRestarts

\* An operation that is open was not told to be over, nor to have been denied.
LEMMA OpenIsNotTold ==
    ASSUME AnswersTrue, NEW st \in Agents, OperationIn[st] \in Operations,
           Unfinished(OperationIn[st]), answer[st].ok
    PROVE  answer[st].is \notin Final \cup {"denied"}
BY DEF AnswersTrue, Told, True, Unfinished, Final

\* The books of the run are not struck out.
LEMMA BooksKept ==
    ASSUME [Next]_vars
    PROVE  unresolved \subseteq unresolved' /\ missed \subseteq missed'
<1>1. CASE Running
    BY <1>1 DEF Running, CallStep, Hear, WaitEnds, ChildStarts, ChildSeen, ChildEnds, ChildHeard
<1>2. CASE Stopping
    BY <1>2 DEF Stopping, Cancel, Complete, Throw, CleanUp, End
<1>3. CASE Wire \/ CleanUps
    BY <1>3 DEF Wire, PickUp, Reply, CancelActivity, TimeOut, CleanUps, CleanupArrives,
           CleanupFails, record
<1>4. CASE Dispatching \/ \E st \in Steps : Handle(st)
    BY <1>4 DEF Dispatching, Arrive, Handle, HandlerReturns, TaskTimesOut, TaskEnds,
           DeliverCancel, record
<1>5. CASE HostCloses \/ HostRestarts \/ UNCHANGED vars
    BY <1>5 DEF HostCloses, HostRestarts, record, vars, runVars
<1>6. CASE UNCHANGED runVars
    BY <1>6, StandsStill
<1> QED BY <1>1, <1>2, <1>3, <1>4, <1>5, <1>6, NextSteps

\* A step of the whole that leaves the run's program where it is.
RunStandsStill == UNCHANGED <<step, status, pending>>

\* What the run does with its steps, its status and its open operations: it
\* calls and hears of a step, a wait or a child ends, and it ends itself.
LEMMA RunMoves ==
    ASSUME [Next]_vars
    PROVE  \/ \E st \in Steps : CallStep(st) \/ Hear(st) \/ WaitEnds(st) \/ ChildHeard(st)
           \/ Complete \/ Throw \/ CleanUp \/ End
           \/ RunStandsStill
<1> USE DEF RunStandsStill
<1>1. CASE Running
    BY <1>1 DEF Running, ChildStarts, ChildSeen, ChildEnds
<1>2. CASE Stopping
    BY <1>2 DEF Stopping, Cancel
<1>3. CASE Wire \/ CleanUps
    BY <1>3 DEF Wire, PickUp, Reply, CancelActivity, TimeOut, CleanUps, CleanupArrives,
           CleanupFails, record
<1>4. CASE Dispatching \/ \E st \in Steps : Handle(st)
    BY <1>4 DEF Dispatching, Arrive, Handle, HandlerReturns, TaskTimesOut, TaskEnds,
           DeliverCancel, record
<1>5. CASE HostCloses \/ HostRestarts \/ UNCHANGED vars
    BY <1>5 DEF HostCloses, HostRestarts, record, vars, runVars
<1>6. CASE UNCHANGED runVars
    BY <1>6, StandsStill
<1> QED BY <1>1, <1>2, <1>3, <1>4, <1>5, <1>6, NextSteps

\* A step that has an answer is an agent's.
LEMMA AnsweredAreAgents ==
    ASSUME TasksMatch, NEW st \in Steps, answer[st] # Nothing
    PROVE  st \in Agents
BY DEF TasksMatch, TaskMatches

\* The submit that asked stays a witness while its operation is open.
LEMMA WitnessStep ==
    ASSUME TypeOK, TasksMatch, StepsInPlace, NEW x \in Agents, NEW o \in Operations, Witness(x, o),
           Unfinished(o)', ReceiptsTrue', [Next]_vars
    PROVE  Witness(x, o)'
<1>1. x \in Steps /\ KindOf[x] = "submit" /\ OperationIn[x] = o /\ task[x] # "intent"
    BY DEF Agents, Witness, Past
<1>2. Past(x)'
    BY <1>1, PastStep DEF Witness
<1>3. at'[x] # "looking"
    BY <1>1, LookingStep DEF Witness
<1>4. said'[x] \notin Plain
  <2>1. Certain(memory'[o]) \notin Plain
    BY DEF ReceiptsTrue, True, Unfinished, Final, Certain, Plain, Refusal, Value
  <2>2. said'[x] \in {said[x], Nothing, Refusal("unknown"), Certain(memory'[o])}
    BY <1>1, SubmitSays DEF Witness
  <2> QED BY <2>1, <2>2, KnownDoubt, DoubtIsRefusal DEF Witness
<1>5. outcome'[x] \notin Plain
    BY <1>1, OutcomeStep, KnownDoubt, DoubtIsRefusal DEF OutcomeFrom, Witness
<1>6. answer'[x] \notin Plain
    BY <1>1, AnswerStep, DoubtIsRefusal DEF AnswerFrom, Witness
<1> QED BY <1>1, <1>2, <1>3, <1>4, <1>5, <1>6 DEF Witness

\* The submit that asks becomes its operation's witness, unless the run has
\* recorded the step by then: it can only have failed, in doubt.
LEMMA AskedIsTraced ==
    ASSUME TypeOK, TasksMatch, StepsInPlace, RecordsMatch, NEW st \in Agents, SubmitRecords(st),
           UNCHANGED runVars, asked' # asked, NEW o \in Operations, OperationIn[st] = o
    PROVE  Traced(o)'
<1>0. TaskRanges /\ TaskMatches(st) /\ Recorded(st) /\ st \in Steps
    BY DEF TypeOK, BridgeTypeOK, TaskRanges, TasksMatch, RecordsMatch, Agents
<1>1. at[st] = "recording" /\ KindOf[st] = "submit" /\ said[st] = Nothing
    BY <1>0, SubmitsName DEF SubmitRecords, Submitting, TaskMatches
<1>2. task[st] \in {"handling", "ending", "ended"} /\ step[st] # "new"
    BY <1>0, <1>1 DEF TaskRanges, TaskMatches
<1>3. outcome[st] \in Doubt \cup {Nothing} /\ answer[st] \in Doubt \cup {Nothing}
    BY <1>0, <1>1, KnownDoubt DEF TaskMatches
<1>4. at'[st] = "executing" /\ said' = said
    BY <1>0 DEF SubmitRecords, Saved, Woken
<1>5. Witness(st, o)'
    BY <1>1, <1>2, <1>3, <1>4, StandsStill, DoubtIsRefusal DEF Witness, Past
<1>6. step[st] = "running" \/ st \in unresolved
    BY <1>0, <1>2, <1>3, DoubtIsRefusal DEF TaskRanges, Recorded
<1> QED BY <1>5, <1>6, StandsStill DEF Traced

\* An operation that the run knows to be open stays on its books.
LEMMA PendingStays ==
    ASSUME TypeOK, TasksMatch, RecordsMatch, AnswersTrue, NEW o \in Operations, Unfinished(o),
           status \in {"running", "completed"}, pending[o] # NoStep, [Next]_vars
    PROVE  Traced(o)'
<1>1. ASSUME NEW st \in Steps, Hear(st) PROVE Traced(o)'
  <2>1. st \in Agents /\ status' = status
    BY <1>1, AnsweredAreAgents DEF Hear
  <2>2. pending'[o] # NoStep
    BY <1>1, <2>1, OpenIsNotTold, RunConstants DEF Hear, TypeOK
  <2> QED BY <2>1, <2>2 DEF Traced
<1>2. ASSUME Throw PROVE Traced(o)'
  <2>1. pending[o] \in Agents /\ OperationIn[pending[o]] = o
    BY DEF RecordsMatch, PendingNamed
  <2>2. pending[o] \in unresolved'
    BY <1>2 DEF Throw, LeftOpen
  <2> QED BY <2>1, <2>2 DEF Traced
<1>3. ASSUME Complete PROVE Traced(o)'
    BY <1>3 DEF Complete, Traced
<1>4. ~CleanUp /\ ~End
    BY DEF CleanUp, End
<1>5. ASSUME NEW st \in Steps, CallStep(st) \/ WaitEnds(st) \/ ChildHeard(st) PROVE Traced(o)'
    BY <1>5 DEF CallStep, WaitEnds, ChildHeard, Traced
<1>6. CASE RunStandsStill
    BY <1>6 DEF RunStandsStill, Traced
<1> QED BY <1>1, <1>2, <1>3, <1>4, <1>5, <1>6, RunMoves

\* The step that asked is heard of, and then the run knows the operation to be
\* open or the effect to be in doubt, or it stays a witness.
LEMMA WitnessStays ==
    ASSUME TypeOK, TasksMatch, StepsInPlace, AnswersTrue, NEW x \in Agents, NEW o \in Operations,
           Witness(x, o), step[x] = "running", Unfinished(o), Unfinished(o)', ReceiptsTrue',
           [Next]_vars
    PROVE  Traced(o)'
<1>0. x \in Steps /\ KindOf[x] = "submit" /\ OperationIn[x] = o /\ Witness(x, o)'
    BY WitnessStep DEF Agents, Witness
<1>1. ASSUME step'[x] = "running" PROVE Traced(o)'
    BY <1>0, <1>1 DEF Traced
<1>2. ASSUME Hear(x) PROVE Traced(o)'
  <2>1. CASE answer[x].ok /\ status = "running"
    <3>1. pending'[o] = x /\ status' = "running"
      BY <1>0, <1>2, <2>1, OpenIsNotTold DEF Hear, TypeOK
    <3> QED BY <1>0, <3>1, RunConstants DEF Traced
  <2>2. CASE answer[x].ok /\ status # "running"
    <3>1. x \in missed'
      BY <1>2, <2>2 DEF Hear
    <3> QED BY <1>0, <3>1 DEF Traced
  <2>3. CASE ~answer[x].ok
    <3>1. answer[x].is \in InDoubt
      BY <1>0, <1>2, <2>3, RefusalsAreKnown DEF Hear, Witness, TypeOK
    <3>2. x \in unresolved'
      BY <1>2, <2>3, <3>1 DEF Hear
    <3> QED BY <1>0, <3>2 DEF Traced
  <2> QED BY <2>1, <2>2, <2>3
<1>3. ASSUME NEW st \in Steps, st # x, Hear(st) PROVE step'[x] = "running"
    BY <1>0, <1>3 DEF Hear, TypeOK
<1>4. ASSUME NEW st \in Steps, CallStep(st) PROVE step'[x] = "running"
    BY <1>0, <1>4 DEF CallStep, TypeOK
<1>5. ASSUME NEW st \in Steps, WaitEnds(st) \/ ChildHeard(st) PROVE step'[x] = "running"
  <2>1. KindOf[x] = "submit" /\ (child[x] # "none" => KindOf[x] = "child")
    BY <1>0 DEF TasksMatch, TaskMatches
  <2>2. st # x
    BY <1>5, <2>1 DEF WaitEnds, ChildHeard
  <2> QED BY <1>0, <1>5, <2>2 DEF WaitEnds, ChildHeard, TypeOK
<1>6. CASE Complete \/ Throw \/ CleanUp \/ End \/ RunStandsStill
    BY <1>1, <1>6 DEF Complete, Throw, CleanUp, End, RunStandsStill
<1> QED BY <1>1, <1>2, <1>3, <1>4, <1>5, <1>6, RunMoves

\* An operation in doubt is on the run's books from the moment it is asked for.
LEMMA DoubtStep ==
    ASSUME IInv, ReceiptsTrue', [Next]_vars
    PROVE  DoubtIsTraced'
<1> SUFFICES ASSUME NEW o \in Operations, Unfinished(o)' PROVE Traced(o)'
    BY DEF DoubtIsTraced
<1> USE DEF IInv
<1>1. CASE ~Unfinished(o)
  <2>1. PICK st \in Agents :
              SubmitRecords(st) /\ OperationIn[st] = o /\ asked' # asked /\ UNCHANGED runVars
    BY <1>1, OpenedBy DEF TypeOK
  <2> QED BY <2>1, AskedIsTraced
<1>2. CASE Unfinished(o)
  <2>1. CASE \E st \in Agents : OperationIn[st] = o /\ st \in unresolved \cup missed
    BY <2>1, BooksKept DEF Traced
  <2>2. CASE status \in {"running", "completed"} /\ pending[o] # NoStep
    BY <1>2, <2>2, PendingStays DEF WordsAreTrue
  <2>3. CASE \E st \in Agents : Witness(st, o) /\ step[st] = "running"
    BY <1>2, <2>3, WitnessStays DEF WordsAreTrue
  <2> QED BY <1>2, <2>1, <2>2, <2>3 DEF DoubtIsTraced, Traced
<1> QED BY <1>1, <1>2

--------------------------------------------------------------------------------
\* The theorems

\* The run starts with nothing asked, held, called or answered.
LEMMA IInvInit == Init => IInv
<1> SUFFICES ASSUME Init PROVE IInv
    OBVIOUS
<1> USE DEF Init, BridgeInit, BridgeEmpty
<1>1. TypeOK
  <2>1. BridgeTypeOK
    BY RunConstants DEF BridgeTypeOK, Receipts
  <2>2. EndTypes /\ RecordTypes /\ TaskTypes
    BY KnownReports DEF EndTypes, RecordTypes, TaskTypes
  <2> QED BY <2>1, <2>2, RunTypesParts
<1>2. OpeningsMatch /\ AskedAtHome /\ StepsInPlace /\ SubmitsHold /\ EndsAreEnds
    BY DEF OpeningsMatch, AskedAtHome, StepsInPlace, SubmitsHold, EndsAreEnds, Submitting, Taken
<1>3. ReceiptsTrue /\ AnswersTrue
    BY AnswersRead DEF ReceiptsTrue, AnswersTrue, True, Told, Agents
<1>4. NothingBeforeRecord
    BY AnswersRead DEF NothingBeforeRecord, Untouched, Unrecorded, Unanswered, Vague, Agents
<1>5. UnsettledIsActive /\ DoubtIsTraced
    BY DEF UnsettledIsActive, DoubtIsTraced, Unfinished
<1>6. TasksMatch /\ RecordsMatch /\ EndingMatches
    BY DEF TasksMatch, TaskMatches, RecordsMatch, Recorded, PendingNamed, EndingMatches, Agents
<1> QED BY <1>1, <1>2, <1>3, <1>4, <1>5, <1>6 DEF IInv, WordsAreTrue

\* Every step keeps every part.
LEMMA IInvStep == IInv /\ [Next]_vars => IInv'
<1> SUFFICES ASSUME IInv, [Next]_vars PROVE IInv'
    OBVIOUS
<1> USE DEF IInv
<1>0. /\ BridgeTypeOK /\ EndTypes /\ RecordTypes /\ TaskTypes
      /\ SessionTypes /\ ReceiptTypes /\ PlaceTypes /\ WorkTypes
      /\ SaidTypes /\ RequestTypes /\ FaultTypes
    BY RunTypesParts, BridgeTypes
<1>1. BridgeTypeOK'
  <2>1. SessionTypes' /\ ReceiptTypes' /\ PlaceTypes' /\ WorkTypes'
    BY <1>0, SessionTypesStep, ReceiptTypesStep, PlaceTypesStep, WorkTypesStep
  <2>2. SaidTypes' /\ RequestTypes' /\ FaultTypes'
    BY <1>0, SaidTypesStep, RequestTypesStep, FaultTypesStep
  <2> QED BY <2>1, <2>2 DEF BridgeTypeOK, SessionTypes, ReceiptTypes, PlaceTypes, WorkTypes,
                 SaidTypes, RequestTypes, FaultTypes
<1>2. TypeOK'
  <2>1. EndTypes' /\ RecordTypes' /\ TaskTypes'
    BY <1>0, EndTypesStep, RecordTypesStep, TaskTypesStep
  <2> QED BY <1>1, <2>1 DEF TypeOK, EndTypes, RecordTypes, TaskTypes
<1>3. OpeningsMatch' /\ AskedAtHome' /\ StepsInPlace' /\ SubmitsHold' /\ EndsAreEnds'
    BY <1>0, OpeningsStep, AskedStep, PlaceStep, HoldStep, EndsStep
<1>4. ReceiptsTrue' /\ AnswersTrue'
    BY <1>0, TrueStep, AnswersStep DEF WordsAreTrue
<1>5. NothingBeforeRecord' /\ UnsettledIsActive'
    BY <1>0, NothingStep, ActiveStep
<1>6. TasksMatch'
    BY TaskStep DEF TasksMatch
<1>7. RecordsMatch'
    BY RecordStep, PendingStep DEF RecordsMatch
<1>8. EndingMatches' /\ DoubtIsTraced'
    BY <1>4, EndingStep, DoubtStep
<1> QED BY <1>2, <1>3, <1>4, <1>5, <1>6, <1>7, <1>8 DEF WordsAreTrue

\* The bridge, the dispatcher, the sidecar and the run agree in every reachable
\* state, for any sessions, operations, steps and programs.
THEOREM RunInvariant == Spec => []IInv
<1> QED BY IInvInit, IInvStep, PTL DEF Spec

\* Every variable of the run and of its bridge keeps its type.
THEOREM TypeCorrect == Spec => []TypeOK
<1>1. IInv => TypeOK
    BY DEF IInv
<1> QED BY <1>1, RunInvariant, PTL

\* A session never has two operations in doubt, and the one it has in a session
\* that the bridge holds is its active one: no submit is let past it.
THEOREM OneInDoubt == Spec => []OneOperationInDoubt
<1>1. ASSUME IInv, NEW s \in Sessions
      PROVE  /\ Cardinality(Unsettled(s)) <= 1
             /\ s \in owned => \A o \in Unsettled(s) : active[s] = o
  <2>1. \A o \in Unsettled(s) : o \in Operations /\ Unfinished(o) /\ HomeOf[o] = s
    BY <1>1 DEF IInv, TypeOK, BridgeTypeOK, Unsettled, Unfinished
  <2>2. \A o, p \in Unsettled(s) : o = p
    BY <1>1, <2>1 DEF IInv, UnsettledIsActive
  <2>3. Cardinality(Unsettled(s)) <= 1
    <3>1. CASE Unsettled(s) = {}
      BY <3>1, FS_EmptySet
    <3>2. CASE Unsettled(s) # {}
      <4>1. PICK o : Unsettled(s) = {o}
        BY <2>2, <3>2
      <4> QED BY <4>1, FS_Singleton
    <3> QED BY <3>1, <3>2
  <2>4. s \in owned => \A o \in Unsettled(s) : active[s] = o
    BY <1>1, <2>1 DEF IInv, UnsettledIsActive
  <2> QED BY <2>3, <2>4
<1>2. IInv => OneOperationInDoubt
    BY <1>1 DEF OneOperationInDoubt
<1> QED BY <1>2, RunInvariant, PTL

\* A definite receipt or answer is what became of the operation, whatever fails
\* and however often the host restarts.
THEOREM ReceiptsHold == Spec => []ReceiptsAreTrue
<1>1. ASSUME IInv, NEW o \in Operations,
             NEW word \in {memory[o], disk[o]}
                   \cup {m.is : m \in UNION {ToldOf(st) :
                                 st \in {t \in Agents : OperationIn[t] = o}}}
      PROVE  True(o, word)
  <2>1. CASE word \in {memory[o], disk[o]}
    BY <1>1, <2>1 DEF IInv, WordsAreTrue, ReceiptsTrue
  <2>2. ASSUME NEW st \in Agents, OperationIn[st] = o, NEW m \in ToldOf(st), word = m.is
        PROVE  True(o, word)
    <3>1. m \in {said[st], outcome[st], answer[st]} /\ m.ok
      BY <2>2 DEF ToldOf
    <3>2. Told(o, m)
      BY <1>1, <2>2, <3>1 DEF IInv, WordsAreTrue, AnswersTrue
    <3> QED BY <2>2, <3>1, <3>2 DEF Told
  <2> QED BY <1>1, <2>1, <2>2
<1>2. IInv => ReceiptsAreTrue
    BY <1>1 DEF ReceiptsAreTrue, True
<1> QED BY <1>2, RunInvariant, PTL

\* Of the operations the provider may still carry out, a run that was cancelled
\* or failed leaves out of unresolvedEffects only those whose step was answered
\* too late; that it does leave those out is what the run workflow_late_answers
\* shows.
THEOREM OnlyLateAnswersAreEverMissed == Spec => []OnlyLateAnswersAreMissed
<1>1. ASSUME IInv, status \in {"cancelled", "failed"}, NEW o \in Operations,
       Unaccounted(o)
      PROVE  \E st \in missed : OperationIn[st] = o
  <2>1. Traced(o)
    BY <1>1 DEF IInv, DoubtIsTraced, Unaccounted, Unfinished
  <2>2. CASE \E st \in Agents : OperationIn[st] = o /\ st \in unresolved \cup missed
    BY <1>1, <2>2 DEF Unaccounted
  <2>3. CASE \E st \in Agents : Witness(st, o) /\ step[st] = "running"
    <3>1. PICK st \in Agents : Witness(st, o) /\ step[st] = "running"
      BY <2>3
    <3>2. st \in unresolved \cup missed
      BY <1>1, <3>1 DEF IInv, EndingMatches, Unaccounted
    <3> QED BY <1>1, <3>1, <3>2 DEF Unaccounted, Witness
  <2> QED BY <1>1, <2>1, <2>2, <2>3 DEF Traced
<1>2. IInv => OnlyLateAnswersAreMissed
    BY <1>1 DEF OnlyLateAnswersAreMissed
<1> QED BY <1>2, RunInvariant, PTL

\* A host that closed well holds no session of a provider.
THEOREM ClosedGivesBack == Spec => []ClosedLeavesNothing
<1>1. IInv => ClosedLeavesNothing
    BY DEF IInv, OpeningsMatch, ClosedLeavesNothing
<1> QED BY <1>1, RunInvariant, PTL

================================================================================
