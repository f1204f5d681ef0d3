----------------------- MODULE ConversationTurnsProofs ------------------------
(***************************************************************************)
(* What ConversationTurns promises, for any number of sessions and         *)
(* operations: the provider executes nothing but the active operation of   *)
(* the live session, a turn is never overwritten, and the conversation is  *)
(* never left occupied by an operation nobody will end.                    *)
(*                                                                         *)
(* TurnInv is the inductive invariant.  Its parts speak of one session     *)
(* each; the lemmas on steps say what an action changes in those terms,    *)
(* and each part is then shown to survive every step.                      *)
(***************************************************************************)
EXTENDS ConversationTurns, TLAPS

Held == {"saving", "calling", "executing"}
Adopting == {"admitted", "storing"}

\* A send that was given an identity which has not started yet.
Reserving(s) ==
    /\ cmd.at \in {"preparing", "goals"} \cup Held
    /\ cmd.session = s /\ cmd.target = None

\* Nothing that is still to start, being adopted or running is called op.
IsOver(s, op) ==
    /\ turn[s] # op
    /\ Reserving(s) => cmd.op # op
    /\ native[s].at = "admitted" => native[s].op # op

\* Only identities handed out are in use.
Issued(s) ==
    /\ turn[s] \in 0 .. last /\ active[s] \in 0 .. last
    /\ native[s].at \in Adopting => native[s].op \in 1 .. last
    /\ \A i \in 1 .. Len(signals[s]) : signals[s][i][2] \in 1 .. last

IdsIssued == \A s \in Sessions : Issued(s)

CommandIssued ==
    cmd.at \in {"preparing", "goals", "returning"} \cup Held => cmd.op \in 1 .. last

\* A connected session is the live one and owns its turn; it asks about itself.
Owns(s) ==
    /\ up[s] = "open" => live = s
    /\ native[s].at = "checking" => native[s].state = s
    /\ turn[s] # None => active[s] = turn[s]

OpenIsLive == \A s \in Sessions : Owns(s)

\* A session that was never published is untouched.
Blank(s) ==
    up[s] = "new" =>
        /\ live # s /\ native[s] = NoAdmission /\ signals[s] = <<>> /\ active[s] = None
        /\ cmd.at # "none" => cmd.session # s

NewIsBlank == \A s \in Sessions : Blank(s)

\* A send that takes the conversation holds it alone.
Alone(s) ==
    up[s] = "open" /\ cmd.at \in Held /\ cmd.session = s =>
        /\ turn[s] = None
        /\ native[s].at \notin Adopting
        /\ cmd.at = "saving" => required
        /\ cmd.at # "saving" => active[s] = cmd.op

SubmissionAlone == \A s \in Sessions : Alone(s)

\* What is past its preparation steers nothing.
SendTargets == cmd.at \in {"goals"} \cup Held => cmd.target = None

\* A turn being adopted holds the conversation alone, too.
Adopts(s) ==
    up[s] = "open" =>
        /\ native[s].at = "admitted" => active[s] = native[s].op /\ turn[s] = None
        /\ native[s].at = "storing" => turn[s] = native[s].op

AdoptionAlone == \A s \in Sessions : Adopts(s)

\* An end the reader has yet to hear of is that of something over.
Over(s) ==
    up[s] = "open" =>
        \A i \in 1 .. Len(signals[s]) :
            signals[s][i][1] = "ended" => IsOver(s, signals[s][i][2])

EndsAreOver == \A s \in Sessions : Over(s)

\* What is reserved has not started.
Fresh(s) ==
    up[s] = "open" /\ Reserving(s) =>
        /\ turn[s] # cmd.op
        /\ native[s].at = "admitted" => native[s].op # cmd.op

ReservedIsNew == \A s \in Sessions : Fresh(s)

\* What has started still runs, or its end follows.
Told(s) ==
    up[s] = "open" =>
        \A i \in 1 .. Len(signals[s]), op \in Ops :
            signals[s][i] = <<"started", op>> =>
                \/ turn[s] = op
                \/ \E j \in i + 1 .. Len(signals[s]) : signals[s][j] = <<"ended", op>>

StartsAreTold == \A s \in Sessions : Told(s)

\* The active operation is on its way, runs, or its end is to be read.
Explained(s) ==
    up[s] = "open" /\ active[s] # None =>
        \/ turn[s] = active[s]
        \/ cmd.at \in {"calling", "executing"} /\ cmd.session = s /\ cmd.op = active[s]
        \/ native[s].at = "admitted" /\ native[s].op = active[s]
        \/ \E j \in 1 .. Len(signals[s]) : signals[s][j] = <<"ended", active[s]>>

ActiveExplained == \A s \in Sessions : Explained(s)

TurnInv ==
    /\ TypeOK /\ IdsIssued /\ CommandIssued /\ OpenIsLive /\ NewIsBlank /\ SubmissionAlone
    /\ SendTargets /\ AdoptionAlone /\ EndsAreOver /\ ReservedIsNew
    /\ StartsAreTold /\ ActiveExplained

--------------------------------------------------------------------------------

\* A send stays a send as it moves on.
LEMMA SendMoves ==
    ASSUME TypeOK,
           cmd.at \in {"preparing", "goals", "saving", "calling", "executing", "returning"}
    PROVE  /\ cmd \in Sends
           /\ \A at \in {"preparing", "goals", "saving", "calling", "executing", "returning"} :
                /\ [cmd EXCEPT !.at = at] \in Sends
                /\ [cmd EXCEPT !.at = at].at = at
                /\ [cmd EXCEPT !.at = at].session = cmd.session
                /\ [cmd EXCEPT !.at = at].op = cmd.op
                /\ [cmd EXCEPT !.at = at].target = cmd.target
                /\ [cmd EXCEPT !.at = at].mode = cmd.mode
<1>1. cmd \in Sends
  BY DEF TypeOK, ModeChanges, NoCommand
<1> QED
  BY <1>1 DEF Sends

LEMMA SendRenewed ==
    ASSUME TypeOK, cmd.at = "preparing", NEW op \in Ops
    PROVE  LET new == [cmd EXCEPT !.op = op, !.target = None]
           IN  /\ new \in Sends /\ new.at = "preparing" /\ new.session = cmd.session
               /\ new.op = op /\ new.target = None
<1>1. cmd \in Sends
  BY SendMoves
<1>2. cmd = [at |-> cmd.at, session |-> cmd.session, op |-> cmd.op, target |-> cmd.target,
             mode |-> cmd.mode]
  BY <1>1 DEF Sends
<1> QED
  BY <1>1, <1>2 DEF Sends

LEMMA ModeChangeMoves ==
    ASSUME TypeOK, cmd.at \in {"entering", "storing"}
    PROVE  cmd \in ModeChanges /\ [cmd EXCEPT !.at = "storing"] \in ModeChanges
<1>1. cmd \in ModeChanges
  BY DEF TypeOK, Sends, NoCommand
<1> QED
  BY <1>1 DEF ModeChanges

LEMMA AdmissionForms ==
    ASSUME TypeOK, NEW s \in Sessions
    PROVE  /\ native[s].at = "checking" => native[s] \in [at : {"checking"}, state : Sessions]
           /\ native[s].at \in {"admitted", "storing"} =>
                /\ native[s] \in [at : {"admitted", "storing"}, op : Ops]
                /\ [native[s] EXCEPT !.at = "storing"] = [at |-> "storing", op |-> native[s].op]
<1>1. native[s] \in Admissions \cup {NoAdmission}
  BY DEF TypeOK
<1>2. native[s].at = "checking" => native[s] \in [at : {"checking"}, state : Sessions]
  BY <1>1 DEF Admissions, NoAdmission
<1>3. native[s].at \in {"admitted", "storing"} =>
        native[s] \in [at : {"admitted", "storing"}, op : Ops]
  BY <1>1 DEF Admissions, NoAdmission
<1> QED
  BY <1>2, <1>3

\* An emitted signal is appended to the session's own.
LEMMA Emitted ==
    ASSUME TypeOK, NEW s \in Sessions, NEW kind \in {"started", "ended"}, NEW op \in Ops,
           Emit(s, kind, op)
    PROVE  /\ signals' \in [Sessions -> Seq(Signals)]
           /\ \A t \in Sessions : t # s => signals'[t] = signals[t]
           /\ Len(signals'[s]) = Len(signals[s]) + 1
           /\ \A i \in 1 .. Len(signals[s]) : signals'[s][i] = signals[s][i]
           /\ signals'[s][Len(signals[s]) + 1] = <<kind, op>>
<1>1. signals \in [Sessions -> Seq(Signals)] /\ <<kind, op>> \in Signals
  BY DEF TypeOK, Signals
<1>2. Append(signals[s], <<kind, op>>) \in Seq(Signals)
  BY <1>1
<1> QED
  BY <1>1, <1>2 DEF Emit

\* The end of a turn keeps the types of what it changes.
LEMMA FinishedTypes ==
    ASSUME TypeOK, NEW s \in Sessions, turn[s] # None, Finished(s)
    PROVE  /\ turn' = [turn EXCEPT ![s] = None]
           /\ active' \in [Sessions -> Ops \cup {None}]
           /\ signals' \in [Sessions -> Seq(Signals)]
<1>1. turn[s] \in Ops
  BY DEF TypeOK
<1>2. Emit(s, "ended", turn[s])
  BY DEF Finished
<1>3. active' \in [Sessions -> Ops \cup {None}]
  <2>1. CASE live = NoSession
    BY <2>1 DEF Finished, TypeOK
  <2>2. CASE live # NoSession
    BY <2>2 DEF Finished, TypeOK, Released
  <2> QED
    BY <2>1, <2>2
<1> QED
  BY <1>1, <1>2, <1>3, Emitted DEF Finished

\* Every step keeps the types.
LEMMA TypePreserved ==
    ASSUME TypeOK, [Next]_vars
    PROVE  TypeOK'
<1> USE TurnConstants DEF Ops, None, Modes, NoCommand, NoAdmission
<1>1. ASSUME NEW s \in Sessions, Publish(s) PROVE TypeOK'
  BY <1>1 DEF TypeOK, Publish, sessionVars, turnVars, modeVars, idVars
<1>2. ASSUME NEW s \in Sessions, Disconnect(s) PROVE TypeOK'
  <2>1. CASE turn[s] = None
    BY <1>2, <2>1 DEF TypeOK, Disconnect, sessionVars, turnVars, modeVars, idVars
  <2>2. CASE turn[s] # None
    <3>1. Finished(s)
      BY <1>2, <2>2 DEF Disconnect
    <3> QED
      BY <1>2, <2>2, <3>1, FinishedTypes DEF TypeOK, Disconnect, sessionVars, turnVars,
         modeVars, idVars
  <2> QED
    BY <2>1, <2>2
<1>3. ASSUME NEW s \in Sessions, Retire(s) PROVE TypeOK'
  BY <1>3 DEF TypeOK, Retire, sessionVars, turnVars, modeVars, idVars
<1>4. ASSUME NEW s \in Sessions, Read(s) PROVE TypeOK'
  <2>1. /\ Head(signals[s]) \in Signals
        /\ Tail(signals[s]) \in Seq(Signals)
    BY <1>4 DEF TypeOK, Read
  <2> QED
    BY <1>4, <2>1 DEF TypeOK, Read, Heard, Released, Signals, sessionVars, turnVars,
       modeVars, idVars
<1>5. ASSUME NEW s \in Sessions, NativeTurn(s) PROVE TypeOK'
  <2>1. [at |-> "checking", state |-> live] \in Admissions
    BY <1>5 DEF TypeOK, NativeTurn, Admissions
  <2> QED
    BY <1>5, <2>1 DEF TypeOK, NativeTurn, sessionVars, turnVars, modeVars, idVars
<1>6. ASSUME NEW s \in Sessions, Admitted(s) PROVE TypeOK'
  <2>1. [at |-> "admitted", op |-> last + 1] \in Admissions
    BY <1>6 DEF TypeOK, Admitted, Admissions
  <2>2. last' \in 0 .. MaxOps /\ own' \subseteq 1 .. last' /\ last + 1 \in Ops
    BY <1>6 DEF TypeOK, Admitted
  <2>3. native[s].state \in Sessions
    BY <1>6, AdmissionForms DEF Admitted
  <2>4. native' \in [Sessions -> Admissions \cup {NoAdmission}]
    BY <1>6, <2>1 DEF TypeOK, Admitted
  <2> QED
    BY <1>6, <2>2, <2>3, <2>4 DEF TypeOK, Admitted, sessionVars, turnVars, modeVars, idVars
<1>7. ASSUME NEW s \in Sessions, Denied(s) PROVE TypeOK'
  BY <1>7 DEF TypeOK, Denied, sessionVars, turnVars, modeVars, idVars
<1>8. ASSUME NEW s \in Sessions, Adopt(s) PROVE TypeOK'
  <2>1. /\ native[s].op \in Ops
        /\ [native[s] EXCEPT !.at = "storing"] \in Admissions
    BY <1>8, AdmissionForms DEF Adopt, Admissions
  <2> QED
    BY <1>8, <2>1 DEF TypeOK, Adopt, Adoptable, sessionVars, turnVars, modeVars, idVars
<1>9. ASSUME NEW s \in Sessions, Stored(s) PROVE TypeOK'
  <2>1. signals' \in [Sessions -> Seq(Signals)]
    BY <1>9, AdmissionForms, Emitted DEF Stored
  <2> QED
    BY <1>9, <2>1 DEF TypeOK, Stored, sessionVars, turnVars, modeVars, idVars
<1>10. ASSUME NEW s \in Sessions, StoreFails(s) PROVE TypeOK'
  <2>1. CASE turn[s] = None
    BY <1>10, <2>1 DEF TypeOK, StoreFails, sessionVars, turnVars, modeVars, idVars
  <2>2. CASE turn[s] # None
    <3>1. Finished(s)
      BY <1>10, <2>2 DEF StoreFails
    <3> QED
      BY <1>10, <2>2, <3>1, FinishedTypes DEF TypeOK, StoreFails, sessionVars, turnVars,
         modeVars, idVars
  <2> QED
    BY <2>1, <2>2
<1>11. ASSUME NEW s \in Sessions, TurnEnds(s) PROVE TypeOK'
  BY <1>11, FinishedTypes DEF TypeOK, TurnEnds, sessionVars, turnVars, modeVars, idVars
<1>12. ASSUME StopRunning PROVE TypeOK'
  BY <1>12 DEF TypeOK, StopRunning, sessionVars, turnVars, modeVars, idVars
<1>13. ASSUME Send PROVE TypeOK'
  BY <1>13 DEF TypeOK, Send, Sends, sessionVars, turnVars, modeVars, idVars
<1>14. ASSUME Reprepare PROVE TypeOK'
  <2>1. cmd \in Sends
    BY <1>14, SendMoves DEF Reprepare
  <2>2. last + 1 \in Ops
    BY <1>14 DEF TypeOK, Reprepare
  <2>3. /\ cmd' \in Sends /\ cmd'.at = "preparing"
    BY <1>14, <2>2, SendRenewed DEF Reprepare
  <2> QED
    BY <1>14, <2>1, <2>2, <2>3 DEF TypeOK, Reprepare, sessionVars, turnVars, modeVars, idVars
<1>15. ASSUME Prepared PROVE TypeOK'
  <2>1. cmd \in Sends /\ cmd' \in Sends \cup {NoCommand}
    BY <1>15, SendMoves DEF Prepared
  <2>2. cmd.session \in Sessions /\ cmd.op \in Ops
    BY <2>1 DEF Sends
  <2>3. cmd' = NoCommand \/ cmd' = [cmd EXCEPT !.at = "goals"] \/ cmd' = [cmd EXCEPT !.at = "calling"]
    BY <1>15 DEF Prepared
  <2>4. cmd'.at \notin {"executing", "returning"} /\ cmd.at \notin {"executing", "returning"}
    BY <1>15, <2>1, <2>3 DEF Prepared, Sends
  <2> QED
    BY <1>15, <2>1, <2>2, <2>4 DEF TypeOK, Prepared, sessionVars, turnVars, modeVars, idVars
<1>16. ASSUME GoalsRead PROVE TypeOK'
  <2>1. cmd \in Sends /\ cmd' \in Sends \cup {NoCommand}
    BY <1>16, SendMoves DEF GoalsRead
  <2>2. cmd'.at \notin {"executing", "returning"} /\ cmd.at \notin {"executing", "returning"}
    BY <1>16, <2>1 DEF GoalsRead, Sends
  <2> QED
    BY <1>16, <2>1, <2>2 DEF TypeOK, GoalsRead, sessionVars, turnVars, modeVars, idVars
<1>17. ASSUME Saved PROVE TypeOK'
  <2>1. cmd \in Sends /\ cmd' \in Sends \cup {NoCommand}
    BY <1>17, SendMoves DEF Saved
  <2>2. cmd.session \in Sessions /\ cmd.op \in Ops
    BY <2>1 DEF TypeOK, Sends
  <2> QED
    BY <1>17, <2>1, <2>2 DEF TypeOK, Saved, Released, ReleasedOnFailure, PlanningIdle,
       sessionVars, turnVars, modeVars, idVars
<1>18. ASSUME SaveFails PROVE TypeOK'
  <2>1. cmd \in Sends /\ cmd' \in Sends \cup {NoCommand}
    BY <1>18, SendMoves DEF SaveFails
  <2>2. cmd.session \in Sessions /\ cmd.op \in Ops
    BY <2>1 DEF TypeOK, Sends
  <2> QED
    BY <1>18, <2>1, <2>2 DEF TypeOK, SaveFails, Released, ReleasedOnFailure, PlanningIdle,
       sessionVars, turnVars, modeVars, idVars
<1>19. ASSUME ExecuteRefused PROVE TypeOK'
  <2>1. cmd \in Sends /\ cmd' \in Sends \cup {NoCommand}
    BY <1>19, SendMoves DEF ExecuteRefused
  <2>2. cmd.session \in Sessions /\ cmd.op \in Ops
    BY <2>1 DEF TypeOK, Sends
  <2> QED
    BY <1>19, <2>1, <2>2 DEF TypeOK, ExecuteRefused, Released, ReleasedOnFailure,
       PlanningIdle, sessionVars, turnVars, modeVars, idVars
<1>20. ASSUME Execute PROVE TypeOK'
  <2>1. cmd \in Sends /\ cmd' \in Sends \cup {NoCommand}
    BY <1>20, SendMoves DEF Execute
  <2>2. cmd.session \in Sessions /\ cmd.op \in Ops
    BY <2>1 DEF TypeOK, Sends
  <2>3. \A t \in Sessions :
            /\ starting'[t] = (cmd'.at \in {"executing", "returning"} /\ cmd'.session = t)
            /\ turn'[t] # None => up'[t] = "open"
    <3>1. cmd'.at = "executing" /\ cmd'.session = cmd.session
      BY <1>20, SendMoves DEF Execute
    <3>2. starting' = [starting EXCEPT ![cmd.session] = TRUE] /\ UNCHANGED <<turn, up>>
      BY <1>20 DEF Execute, sessionVars
    <3>3. /\ starting \in [Sessions -> BOOLEAN]
          /\ \A t \in Sessions :
                /\ starting[t] => cmd.at \in {"executing", "returning"}
                /\ turn[t] # None => up[t] = "open"
      BY DEF TypeOK
    <3>4. \A t \in Sessions : ~starting[t]
      BY <1>20, <3>3 DEF Execute
    <3> QED
      BY <2>2, <3>1, <3>2, <3>3, <3>4
  <2> QED
    BY <1>20, <2>1, <2>2, <2>3 DEF TypeOK, Execute, Released, ReleasedOnFailure,
       PlanningIdle, sessionVars, turnVars, modeVars, idVars
<1>21. ASSUME TurnStarts PROVE TypeOK'
  <2>1. cmd \in Sends /\ cmd' \in Sends \cup {NoCommand}
    BY <1>21, SendMoves DEF TurnStarts
  <2>2. cmd.session \in Sessions /\ cmd.op \in Ops
    BY <2>1 DEF TypeOK, Sends
  <2>3. signals' \in [Sessions -> Seq(Signals)]
    BY <1>21, <2>2, Emitted DEF TurnStarts
  <2>4. \A t \in Sessions :
            /\ starting'[t] = (cmd'.at \in {"executing", "returning"} /\ cmd'.session = t)
            /\ turn'[t] # None => up'[t] = "open"
    BY <1>21, <2>1, <2>2, <2>3, SendMoves DEF TypeOK, TurnStarts, sessionVars, turnVars,
       modeVars, idVars
  <2> QED
    BY <1>21, <2>1, <2>2, <2>3, <2>4 DEF TypeOK, TurnStarts, sessionVars, turnVars,
       modeVars, idVars
<1>22. ASSUME ExecuteFails PROVE TypeOK'
  <2>1. cmd \in Sends /\ cmd' \in Sends \cup {NoCommand}
    BY <1>22, SendMoves DEF ExecuteFails
  <2>2. cmd.session \in Sessions /\ cmd.op \in Ops
    BY <2>1 DEF TypeOK, Sends
  <2> QED
    BY <1>22, <2>1, <2>2 DEF TypeOK, ExecuteFails, Released, ReleasedOnFailure,
       PlanningIdle, sessionVars, turnVars, modeVars, idVars
<1>23. ASSUME Returned PROVE TypeOK'
  <2>1. cmd \in Sends /\ cmd' \in Sends \cup {NoCommand}
    BY <1>23, SendMoves DEF Returned
  <2>2. cmd.session \in Sessions /\ cmd.op \in Ops
    BY <2>1 DEF TypeOK, Sends
  <2> QED
    BY <1>23, <2>1, <2>2 DEF TypeOK, Returned, Released, ReleasedOnFailure, PlanningIdle,
       sessionVars, turnVars, modeVars, idVars
<1>24. ASSUME NEW m \in Modes, SetMode(m) PROVE TypeOK'
  BY <1>24 DEF TypeOK, SetMode, ModeChanges, sessionVars, turnVars, modeVars, idVars
<1>25. ASSUME Entered PROVE TypeOK'
  <2>1. cmd \in ModeChanges /\ cmd' \in ModeChanges \cup {NoCommand}
    BY <1>25, ModeChangeMoves DEF Entered
  <2> QED
    BY <1>25, <2>1 DEF TypeOK, Entered, ModeChanges, sessionVars, turnVars, modeVars, idVars
<1>26. ASSUME NEW ok \in BOOLEAN, ModeStored(ok) PROVE TypeOK'
  <2>1. cmd \in ModeChanges
    BY <1>26, ModeChangeMoves DEF ModeStored
  <2> QED
    BY <1>26, <2>1 DEF TypeOK, ModeStored, ModeChanges, sessionVars, turnVars, modeVars, idVars
<1>27. CASE UNCHANGED vars
  BY <1>27 DEF TypeOK, vars
<1> QED
  BY <1>1, <1>2, <1>3, <1>4, <1>5, <1>6, <1>7, <1>8, <1>9, <1>10, <1>11, <1>12, <1>13,
     <1>14, <1>15, <1>16, <1>17, <1>18, <1>19, <1>20, <1>21, <1>22, <1>23, <1>24, <1>25,
     <1>26, <1>27 DEF TypeOK, Next, Submission

--------------------------------------------------------------------------------
\* What the steps change, in terms of single sessions

\* The command moves on with its identity.
Moved(at) ==
    /\ cmd'.at = at /\ cmd'.session = cmd.session
    /\ cmd'.op = cmd.op /\ cmd'.target = cmd.target

Gone == cmd' = NoCommand

\* Only the session the command is for has its active operation changed.
ActiveElsewhere == \A t \in Sessions \ {cmd.session} : active'[t] = active[t]

LEMMA ReprepareStep ==
    ASSUME TypeOK, Reprepare
    PROVE  /\ cmd.session \in Sessions /\ cmd.at = "preparing"
           /\ cmd'.at = "preparing" /\ cmd'.session = cmd.session
           /\ cmd'.op = last + 1 /\ cmd'.target = None
           /\ last < MaxOps /\ last' = last + 1
           /\ UNCHANGED <<sessionVars, active, turnVars, modeVars, own>>
<1>1. cmd \in Sends
  BY SendMoves DEF Reprepare
<1> QED
  BY <1>1 DEF Reprepare, Sends

LEMMA PreparedStep ==
    ASSUME TypeOK, Prepared
    PROVE  /\ cmd.session \in Sessions /\ cmd.op \in Ops /\ cmd.at = "preparing"
           /\ \/ Gone /\ UNCHANGED active
              \/ /\ active[cmd.session] = None /\ cmd.target = None
                 /\ \/ Moved("goals") /\ UNCHANGED active
                    \/ Moved("calling") /\ active'[cmd.session] = cmd.op /\ ActiveElsewhere
           /\ UNCHANGED <<sessionVars, turnVars, modeVars, idVars>>
<1>1. cmd \in Sends /\ cmd.session \in Sessions /\ cmd.op \in Ops /\ cmd.at = "preparing"
  BY SendMoves DEF Prepared, Sends
<1>2. \A at \in {"goals", "calling"} : cmd' = [cmd EXCEPT !.at = at] => Moved(at)
  BY <1>1, SendMoves DEF Moved
<1>3. active' = [active EXCEPT ![cmd.session] = cmd.op] =>
        active'[cmd.session] = cmd.op /\ ActiveElsewhere
  BY <1>1 DEF TypeOK, ActiveElsewhere
<1> QED
  BY <1>1, <1>2, <1>3 DEF Prepared, Gone

LEMMA GoalsReadStep ==
    ASSUME TypeOK, GoalsRead
    PROVE  /\ cmd.session \in Sessions /\ cmd.at = "goals"
           /\ \/ Gone /\ UNCHANGED required
              \/ /\ PlanningIdle(cmd.session) /\ required'
                 /\ Moved("saving")
           /\ UNCHANGED <<sessionVars, active, turnVars, mode, idVars>>
<1>1. cmd \in Sends /\ cmd.session \in Sessions /\ cmd.at = "goals"
  BY SendMoves DEF GoalsRead, Sends
<1>2. cmd' = [cmd EXCEPT !.at = "saving"] => Moved("saving")
  BY <1>1, SendMoves DEF Moved
<1> QED
  BY <1>1, <1>2 DEF GoalsRead, Gone

LEMMA SavedStep ==
    ASSUME TypeOK, Saved
    PROVE  /\ cmd.session \in Sessions /\ cmd.op \in Ops /\ cmd.at = "saving"
           /\ Moved("calling") /\ active'[cmd.session] = cmd.op /\ ActiveElsewhere
           /\ UNCHANGED <<sessionVars, turnVars, modeVars, idVars>>
<1>1. cmd \in Sends /\ cmd.session \in Sessions /\ cmd.op \in Ops /\ cmd.at = "saving"
  BY SendMoves DEF Saved, Sends
<1>2. Moved("calling")
  BY <1>1, SendMoves DEF Moved, Saved
<1>3. active'[cmd.session] = cmd.op /\ ActiveElsewhere
  BY <1>1 DEF TypeOK, ActiveElsewhere, Saved
<1> QED
  BY <1>1, <1>2, <1>3 DEF Saved

\* A submission that comes to nothing.
LEMMA FailureStep ==
    ASSUME TypeOK, ExecuteRefused \/ ExecuteFails
    PROVE  /\ cmd.session \in Sessions /\ cmd.op \in Ops /\ cmd.at \in {"calling", "executing"}
           /\ Gone /\ ActiveElsewhere
           /\ active'[cmd.session] =
                IF active[cmd.session] = cmd.op THEN None ELSE active[cmd.session]
           /\ UNCHANGED <<sessionVars, turn, native, signals, modeVars, idVars>>
<1>1. cmd.session \in Sessions /\ cmd.op \in Ops /\ cmd.at \in {"calling", "executing"}
  BY SendMoves DEF ExecuteRefused, ExecuteFails, Sends
<1>2. active' = Released(cmd.session, cmd.op)
  BY DEF ExecuteRefused, ExecuteFails, ReleasedOnFailure
<1>3. /\ ActiveElsewhere
      /\ active'[cmd.session] =
            IF active[cmd.session] = cmd.op THEN None ELSE active[cmd.session]
  BY <1>1, <1>2 DEF Released, TypeOK, ActiveElsewhere
<1> QED
  BY <1>1, <1>3 DEF ExecuteRefused, ExecuteFails, Gone, turnVars

LEMMA ExecuteStep ==
    ASSUME TypeOK, Execute
    PROVE  /\ cmd.session \in Sessions /\ cmd.at = "calling" /\ Moved("executing")
           /\ turn[cmd.session] = None
           /\ UNCHANGED <<sessionVars, active, turn, native, signals, modeVars, idVars>>
<1>1. cmd \in Sends /\ cmd.session \in Sessions /\ cmd.at = "calling"
  BY SendMoves DEF Execute, Sends
<1>2. Moved("executing")
  BY <1>1, SendMoves DEF Moved, Execute
<1> QED
  BY <1>1, <1>2 DEF Execute

LEMMA StartStep ==
    ASSUME TypeOK, TurnStarts
    PROVE  /\ cmd.session \in Sessions /\ cmd.op \in Ops
           /\ up[cmd.session] = "open" /\ turn'[cmd.session] = cmd.op
           /\ \A t \in Sessions \ {cmd.session} : turn'[t] = turn[t] /\ signals'[t] = signals[t]
           /\ Emit(cmd.session, "started", cmd.op)
           /\ Moved("returning") /\ cmd.at = "executing"
           /\ UNCHANGED <<sessionVars, active, starting, native, modeVars, idVars>>
<1>1. cmd \in Sends /\ cmd.session \in Sessions /\ cmd.op \in Ops
  BY SendMoves DEF TurnStarts, Sends
<1>2. Moved("returning")
  BY <1>1, SendMoves DEF Moved, TurnStarts
<1>3. /\ turn'[cmd.session] = cmd.op
      /\ \A t \in Sessions \ {cmd.session} : turn'[t] = turn[t] /\ signals'[t] = signals[t]
  BY <1>1 DEF TurnStarts, TypeOK, Emit
<1> QED
  BY <1>1, <1>2, <1>3 DEF TurnStarts

\* The steps of set_mode, which concern no operation.
ModeStep ==
    \/ \E m \in Modes : SetMode(m)
    \/ Entered
    \/ \E ok \in BOOLEAN : ModeStored(ok)

LEMMA ModeSteps ==
    ASSUME TypeOK, ModeStep
    PROVE  /\ cmd.at \in {"none", "entering", "storing"}
           /\ \/ Gone
              \/ /\ cmd'.at \in {"entering", "storing"}
                 /\ cmd'.session = live \/ (cmd.at # "none" /\ cmd'.session = cmd.session)
           /\ UNCHANGED <<sessionVars, active, turnVars, required, idVars>>
<1>1. ASSUME NEW m \in Modes, SetMode(m)
      PROVE  /\ cmd.at = "none" /\ cmd'.at \in {"entering", "storing"} /\ cmd'.session = live
             /\ UNCHANGED <<sessionVars, active, turnVars, required, idVars>>
  BY <1>1 DEF SetMode, NoCommand
<1>2. ASSUME Entered
      PROVE  /\ cmd.at = "entering"
             /\ Gone \/ (cmd'.at = "storing" /\ cmd'.session = cmd.session)
             /\ UNCHANGED <<sessionVars, active, turnVars, required, idVars>>
  <2>1. cmd \in ModeChanges
    BY <1>2, ModeChangeMoves DEF Entered
  <2>2. cmd' = [cmd EXCEPT !.at = "storing"] => cmd'.at = "storing" /\ cmd'.session = cmd.session
    BY <2>1 DEF ModeChanges
  <2> QED
    BY <1>2, <2>2 DEF Entered, Gone
<1>3. ASSUME NEW ok \in BOOLEAN, ModeStored(ok)
      PROVE  cmd.at = "storing" /\ Gone /\ UNCHANGED <<sessionVars, active, turnVars, required, idVars>>
  BY <1>3 DEF ModeStored, Gone
<1> QED
  BY <1>1, <1>2, <1>3 DEF ModeStep

\* What the reader does with the first signal.
LEMMA ReadStep ==
    ASSUME TypeOK, NEW s \in Sessions, Read(s)
    PROVE  /\ live = s /\ 1 \in 1 .. Len(signals[s])
           /\ \A t \in Sessions \ {s} : signals'[t] = signals[t] /\ active'[t] = active[t]
           /\ Len(signals'[s]) = Len(signals[s]) - 1
           /\ \A i \in 1 .. Len(signals'[s]) :
                i + 1 \in 1 .. Len(signals[s]) /\ signals'[s][i] = signals[s][i + 1]
           /\ signals[s][1] = <<signals[s][1][1], signals[s][1][2]>>
           /\ signals[s][1][2] \in Ops
           /\ \/ /\ signals[s][1][1] = "started"
                 /\ active'[s] = IF active[s] = None THEN signals[s][1][2] ELSE active[s]
              \/ /\ signals[s][1][1] = "ended"
                 /\ active'[s] = IF active[s] = signals[s][1][2] THEN None ELSE active[s]
           /\ UNCHANGED <<sessionVars, turn, starting, native, modeVars, cmd, idVars>>
<1>1. signals[s] \in Seq(Signals) /\ signals[s] # <<>>
  BY DEF TypeOK, Read
<1>2. Head(signals[s]) = signals[s][1] /\ signals[s][1] \in Signals /\ Len(signals[s]) \in Nat \ {0}
  BY <1>1
<1>3. PICK kind \in {"started", "ended"}, op \in Ops : signals[s][1] = <<kind, op>>
  BY <1>2 DEF Signals
<1>4. active' = Heard(s, kind, op)
  BY <1>2, <1>3 DEF Read
<1>5. signals' = [signals EXCEPT ![s] = Tail(@)] /\ signals'[s] = Tail(signals[s])
  BY DEF Read, TypeOK
<1>6. \A i \in 1 .. Len(signals'[s]) :
        i + 1 \in 1 .. Len(signals[s]) /\ signals'[s][i] = signals[s][i + 1]
  <2>1. Len(Tail(signals[s])) = Len(signals[s]) - 1
    BY <1>1
  <2>2. \A i \in 1 .. Len(Tail(signals[s])) : Tail(signals[s])[i] = signals[s][i + 1]
    BY <1>1
  <2> SUFFICES ASSUME NEW i \in 1 .. Len(signals'[s])
               PROVE  i + 1 \in 1 .. Len(signals[s]) /\ signals'[s][i] = signals[s][i + 1]
    OBVIOUS
  <2>3. i \in 1 .. Len(signals[s]) - 1
    BY <1>5, <2>1
  <2>4. signals'[s][i] = signals[s][i + 1]
    BY <1>5, <2>1, <2>2, <2>3
  <2> QED
    BY <1>2, <2>3, <2>4
<1>7. \A t \in Sessions \ {s} : signals'[t] = signals[t] /\ active'[t] = active[t]
  BY <1>4, <1>5 DEF Heard, Released, TypeOK
<1>9. Len(signals'[s]) = Len(signals[s]) - 1
  <2>1. Len(Tail(signals[s])) = Len(signals[s]) - 1
    BY <1>1
  <2> QED
    BY <1>5, <2>1
<1>8. \/ kind = "started" /\ active'[s] = IF active[s] = None THEN op ELSE active[s]
      \/ kind = "ended" /\ active'[s] = IF active[s] = op THEN None ELSE active[s]
  BY <1>4 DEF Heard, Released, TypeOK
<1> QED
  BY <1>2, <1>3, <1>6, <1>7, <1>8, <1>9 DEF Read

Ends(s) == Disconnect(s) \/ StoreFails(s) \/ TurnEnds(s)

\* What the end of a turn leaves behind, whatever brings it about.
LEMMA EndsStep ==
    ASSUME TypeOK, OpenIsLive, NEW s \in Sessions, Ends(s)
    PROVE  /\ \A t \in Sessions : up'[t] # "closed" => up'[t] = up[t]
           /\ \A t \in Sessions : native'[t].at # "none" => native'[t] = native[t]
           /\ \A t \in Sessions : native[t] = NoAdmission => native'[t] = NoAdmission
           /\ \A t \in Sessions : native[t].at = "admitted" => native'[t] = native[t]
           /\ turn'[s] = None
           /\ \A t \in Sessions \ {s} :
                /\ turn'[t] = turn[t] /\ active'[t] = active[t] /\ signals'[t] = signals[t]
           /\ UNCHANGED <<live, cmd, modeVars, idVars>>
           /\ turn[s] = None => UNCHANGED <<active, signals>>
           /\ turn[s] # None =>
                /\ live = s /\ turn[s] \in Ops /\ active'[s] = None
                /\ Emit(s, "ended", turn[s])
           /\ \A t \in Sessions : up[t] = "new" => up'[t] = "new"
           /\ native'[s] = NoAdmission \/ up'[s] = "closed"
<1>1. /\ \A t \in Sessions : up'[t] # "closed" => up'[t] = up[t]
      /\ \A t \in Sessions : native'[t].at # "none" => native'[t] = native[t]
      /\ \A t \in Sessions : native[t] = NoAdmission => native'[t] = NoAdmission
      /\ \A t \in Sessions : native[t].at = "admitted" => native'[t] = native[t]
      /\ UNCHANGED <<live, cmd, modeVars, idVars>>
      /\ \A t \in Sessions : up[t] = "new" => up'[t] = "new"
      /\ native'[s] = NoAdmission \/ up'[s] = "closed"
  BY DEF Ends, Disconnect, StoreFails, TurnEnds, TypeOK, sessionVars, NoAdmission
<1>2. CASE turn[s] = None
  <2>1. UNCHANGED <<turn, active, signals>>
    BY <1>2 DEF Ends, Disconnect, StoreFails, TurnEnds
  <2> QED
    BY <1>1, <1>2, <2>1
<1>3. CASE turn[s] # None
  <2>1. Finished(s)
    BY <1>3 DEF Ends, Disconnect, StoreFails, TurnEnds
  <2>2. live = s /\ up[s] = "open" /\ turn[s] \in Ops /\ active[s] = turn[s] /\ live # NoSession
    BY <1>3, TurnConstants DEF TypeOK, OpenIsLive, Owns
  <2>3. active' = [active EXCEPT ![s] = None]
    BY <2>1, <2>2 DEF Finished, Released, TypeOK
  <2>4. turn' = [turn EXCEPT ![s] = None] /\ Emit(s, "ended", turn[s])
    BY <2>1 DEF Finished
  <2>5. \A t \in Sessions \ {s} :
            turn'[t] = turn[t] /\ active'[t] = active[t] /\ signals'[t] = signals[t]
    BY <2>3, <2>4 DEF TypeOK, Emit
  <2>6. turn'[s] = None /\ active'[s] = None
    BY <2>3, <2>4 DEF TypeOK
  <2> QED
    BY <1>1, <1>3, <2>2, <2>4, <2>5, <2>6
<1> QED
  BY <1>2, <1>3

\* The adapter adopts the turn it was admitted for, or drops it.
LEMMA AdoptStep ==
    ASSUME TypeOK, NEW s \in Sessions, Adopt(s)
    PROVE  /\ native[s].at = "admitted" /\ native[s].op \in Ops
           /\ \A t \in Sessions \ {s} : native'[t] = native[t] /\ turn'[t] = turn[t]
           /\ \/ /\ up[s] = "open" /\ turn[s] = None /\ turn'[s] = native[s].op
                 /\ native'[s].at = "storing" /\ native'[s].op = native[s].op
              \/ /\ up[s] # "open" \/ turn[s] # None
                 /\ native'[s] = NoAdmission /\ turn'[s] = turn[s]
           /\ UNCHANGED <<sessionVars, active, starting, signals, modeVars, cmd, idVars>>
<1>1. native[s].at = "admitted" /\ native[s].op \in Ops
  BY AdmissionForms DEF Adopt
<1>2. CASE Adoptable(s)
  <2>1. turn' = [turn EXCEPT ![s] = native[s].op] /\ native' = [native EXCEPT ![s].at = "storing"]
    BY <1>2 DEF Adopt
  <2>2. native'[s] = [native[s] EXCEPT !.at = "storing"]
    BY <2>1 DEF TypeOK
  <2>3. native'[s] = [at |-> "storing", op |-> native[s].op]
    BY <1>1, <2>2, AdmissionForms
  <2>4. native'[s].at = "storing" /\ native'[s].op = native[s].op
    BY <2>3
  <2>5. /\ \A t \in Sessions \ {s} : native'[t] = native[t] /\ turn'[t] = turn[t]
        /\ turn'[s] = native[s].op
    BY <2>1 DEF TypeOK
  <2> QED
    BY <1>1, <1>2, <2>4, <2>5 DEF Adopt, Adoptable
<1>3. CASE ~Adoptable(s)
  BY <1>1, <1>3 DEF Adopt, Adoptable, TypeOK
<1> QED
  BY <1>2, <1>3

\* The adopted turn's identities are stored and its start is told.
LEMMA StoredStep ==
    ASSUME TypeOK, NEW s \in Sessions, Stored(s)
    PROVE  /\ native[s].at = "storing" /\ native[s].op \in Ops /\ native'[s] = NoAdmission
           /\ Emit(s, "started", native[s].op)
           /\ \A t \in Sessions \ {s} : native'[t] = native[t] /\ signals'[t] = signals[t]
           /\ UNCHANGED <<sessionVars, active, turn, starting, modeVars, cmd, idVars>>
<1>1. native[s].op \in Ops
  BY AdmissionForms DEF Stored
<1>2. /\ native'[s] = NoAdmission
      /\ \A t \in Sessions \ {s} : native'[t] = native[t] /\ signals'[t] = signals[t]
  BY DEF Stored, TypeOK, Emit
<1> QED
  BY <1>1, <1>2 DEF Stored

\* A native turn is offered, and admitted for the session that was looked at.
LEMMA OfferStep ==
    ASSUME TypeOK, NEW s \in Sessions, NativeTurn(s)
    PROVE  /\ up[s] = "open" /\ turn[s] = None /\ native[s] = NoAdmission
           /\ native'[s].at = "checking" /\ native'[s].state = live
           /\ \A t \in Sessions \ {s} : native'[t] = native[t]
           /\ UNCHANGED <<sessionVars, active, turn, starting, signals, modeVars, cmd, idVars>>
BY DEF NativeTurn, TypeOK

LEMMA AdmittedStep ==
    ASSUME TypeOK, OpenIsLive, NEW s \in Sessions, Admitted(s)
    PROVE  /\ native[s].at = "checking" /\ live = s /\ active[s] = None /\ ~required
           /\ last' = last + 1 /\ last + 1 \in Ops
           /\ active'[s] = last + 1
           /\ native'[s].at = "admitted" /\ native'[s].op = last + 1
           /\ \A t \in Sessions \ {s} : native'[t] = native[t] /\ active'[t] = active[t]
           /\ UNCHANGED <<sessionVars, turn, starting, signals, modeVars, cmd>>
<1>1. native[s].state = s
  BY DEF Admitted, OpenIsLive, Owns
<1>2. last + 1 \in Ops
  BY TurnConstants DEF Admitted, TypeOK, Ops
<1> QED
  BY <1>1, <1>2 DEF Admitted, Admissible, Continues, TypeOK

\* Identities are counted.
LEMMA LastIsNat ==
    ASSUME TypeOK
    PROVE  last \in Nat /\ \A n \in 0 .. last : n \in 0 .. last + 1 /\ n # last + 1
BY TurnConstants DEF TypeOK

\* The signals now queued for a session: those that were, and one more.
Queued(s, kind, op) ==
    /\ Len(signals[s]) \in Nat /\ Len(signals'[s]) = Len(signals[s]) + 1
    /\ \A i \in 1 .. Len(signals'[s]) :
        \/ i \in 1 .. Len(signals[s]) /\ signals'[s][i] = signals[s][i]
        \/ /\ i = Len(signals[s]) + 1 /\ signals'[s][i] = <<kind, op>>
           /\ signals'[s][i][1] = kind /\ signals'[s][i][2] = op

LEMMA QueueGrows ==
    ASSUME TypeOK, NEW s \in Sessions, NEW kind \in {"started", "ended"}, NEW op \in Ops,
           Emit(s, kind, op)
    PROVE  Queued(s, kind, op)
<1>1. Len(signals[s]) \in Nat
  BY DEF TypeOK
<1>2. /\ Len(signals'[s]) = Len(signals[s]) + 1
      /\ \A i \in 1 .. Len(signals[s]) : signals'[s][i] = signals[s][i]
      /\ signals'[s][Len(signals[s]) + 1] = <<kind, op>>
  BY Emitted
<1>3. <<kind, op>>[1] = kind /\ <<kind, op>>[2] = op
  OBVIOUS
<1>4. \A i \in 1 .. Len(signals'[s]) : i \in 1 .. Len(signals[s]) \/ i = Len(signals[s]) + 1
  BY <1>1, <1>2
<1> QED
  BY <1>1, <1>2, <1>3, <1>4 DEF Queued

\* An idle conversation is free: nothing runs and nothing is being adopted.
LEMMA IdleIsFree ==
    ASSUME TypeOK, OpenIsLive, AdoptionAlone, NEW s \in Sessions,
           up[s] = "open", active[s] = None
    PROVE  turn[s] = None /\ native[s].at \notin Adopting
<1>1. turn[s] = None
  BY DEF OpenIsLive, Owns
<1>2. native[s].at \in Adopting => native[s].op \in Ops
  BY AdmissionForms DEF Adopting
<1> QED
  BY <1>1, <1>2 DEF AdoptionAlone, Adopts, Adopting, Ops, None

\* Only publishing a session gives it a connection.
LEMMA BlankPreserved ==
    ASSUME TypeOK, TypeOK', OpenIsLive, NewIsBlank, [Next]_vars
    PROVE  NewIsBlank'
<1> USE TurnConstants DEF None, NoCommand, NoAdmission, Held, Adopting
<1>1. ASSUME NEW s \in Sessions, Publish(s) PROVE NewIsBlank'
  BY <1>1 DEF Publish, TypeOK, NewIsBlank, Blank, OpenIsLive, Owns, sessionVars, turnVars,
     modeVars, idVars
<1>2. ASSUME NEW s \in Sessions, Ends(s) PROVE NewIsBlank'
  <2> SUFFICES ASSUME NEW t \in Sessions PROVE Blank(t)'
    BY DEF NewIsBlank
  <2>1. CASE t = s
    BY <1>2, <2>1, EndsStep DEF NewIsBlank, Blank, OpenIsLive, Owns, sessionVars, turnVars,
       modeVars, idVars
  <2>2. CASE t # s
    BY <1>2, <2>2, EndsStep DEF NewIsBlank, Blank, OpenIsLive, Owns, sessionVars, turnVars,
       modeVars, idVars
  <2> QED
    BY <2>1, <2>2
<1>3. ASSUME NEW s \in Sessions, Retire(s) PROVE NewIsBlank'
  BY <1>3 DEF Retire, TypeOK, NewIsBlank, Blank, OpenIsLive, Owns, sessionVars, turnVars,
     modeVars, idVars
<1>4. ASSUME NEW s \in Sessions, Read(s) PROVE NewIsBlank'
  BY <1>4, ReadStep DEF NewIsBlank, Blank, OpenIsLive, Owns, sessionVars, turnVars,
     modeVars, idVars
<1>5. ASSUME NEW s \in Sessions, NativeTurn(s) PROVE NewIsBlank'
  BY <1>5, OfferStep DEF NewIsBlank, Blank, OpenIsLive, Owns, sessionVars, turnVars,
     modeVars, idVars
<1>6. ASSUME NEW s \in Sessions, Admitted(s) PROVE NewIsBlank'
  BY <1>6, AdmittedStep DEF NewIsBlank, Blank, OpenIsLive, Owns, sessionVars, turnVars,
     modeVars, idVars
<1>7. ASSUME NEW s \in Sessions, Denied(s) PROVE NewIsBlank'
  BY <1>7 DEF Denied, TypeOK, NewIsBlank, Blank, OpenIsLive, Owns, sessionVars, turnVars,
     modeVars, idVars
<1>8. ASSUME NEW s \in Sessions, Adopt(s) PROVE NewIsBlank'
  BY <1>8, AdoptStep DEF NewIsBlank, Blank, OpenIsLive, Owns, sessionVars, turnVars,
     modeVars, idVars
<1>9. ASSUME NEW s \in Sessions, Stored(s) PROVE NewIsBlank'
  <2> SUFFICES ASSUME NEW t \in Sessions PROVE Blank(t)'
    BY DEF NewIsBlank
  <2>1. CASE t = s
    BY <1>9, <2>1, StoredStep DEF NewIsBlank, Blank, OpenIsLive, Owns, sessionVars,
       turnVars, modeVars, idVars
  <2>2. CASE t # s
    BY <1>9, <2>2, StoredStep DEF NewIsBlank, Blank, OpenIsLive, Owns, sessionVars,
       turnVars, modeVars, idVars
  <2> QED
    BY <2>1, <2>2
<1>10. ASSUME StopRunning PROVE NewIsBlank'
  BY <1>10 DEF StopRunning, TypeOK, NewIsBlank, Blank, OpenIsLive, Owns, sessionVars,
     turnVars, modeVars, idVars
<1>11. ASSUME Send PROVE NewIsBlank'
  BY <1>11 DEF Send, TypeOK, NewIsBlank, Blank, OpenIsLive, Owns, sessionVars, turnVars,
     modeVars, idVars
<1>12. ASSUME Reprepare PROVE NewIsBlank'
  BY <1>12, ReprepareStep DEF NewIsBlank, Blank, OpenIsLive, Owns, sessionVars, turnVars,
     modeVars, idVars
<1>13. ASSUME Prepared PROVE NewIsBlank'
  BY <1>13, PreparedStep DEF Moved, Gone, ActiveElsewhere, NewIsBlank, Blank, OpenIsLive,
     Owns, sessionVars, turnVars, modeVars, idVars
<1>14. ASSUME GoalsRead PROVE NewIsBlank'
  BY <1>14, GoalsReadStep DEF PlanningIdle, Moved, Gone, ActiveElsewhere, NewIsBlank, Blank,
     OpenIsLive, Owns, sessionVars, turnVars, modeVars, idVars
<1>15. ASSUME Saved PROVE NewIsBlank'
  BY <1>15, SavedStep DEF Moved, Gone, ActiveElsewhere, NewIsBlank, Blank, OpenIsLive, Owns,
     sessionVars, turnVars, modeVars, idVars
<1>16. ASSUME SaveFails PROVE NewIsBlank'
  BY <1>16 DEF SaveFails, TypeOK, NewIsBlank, Blank, OpenIsLive, Owns, sessionVars,
     turnVars, modeVars, idVars
<1>17. ASSUME ExecuteRefused \/ ExecuteFails PROVE NewIsBlank'
  <2> SUFFICES ASSUME NEW t \in Sessions PROVE Blank(t)'
    BY DEF NewIsBlank
  <2>1. CASE t = cmd.session
    BY <1>17, <2>1, FailureStep DEF Moved, Gone, ActiveElsewhere, NewIsBlank, Blank,
       OpenIsLive, Owns, sessionVars, turnVars, modeVars, idVars
  <2>2. CASE t # cmd.session
    BY <1>17, <2>2, FailureStep DEF Moved, Gone, ActiveElsewhere, NewIsBlank, Blank,
       OpenIsLive, Owns, sessionVars, turnVars, modeVars, idVars
  <2> QED
    BY <2>1, <2>2
<1>18. ASSUME Execute PROVE NewIsBlank'
  BY <1>18, ExecuteStep DEF Moved, Gone, ActiveElsewhere, NewIsBlank, Blank, OpenIsLive,
     Owns, sessionVars, turnVars, modeVars, idVars
<1>19. ASSUME TurnStarts PROVE NewIsBlank'
  BY <1>19, StartStep DEF Moved, Gone, ActiveElsewhere, NewIsBlank, Blank, OpenIsLive, Owns,
     sessionVars, turnVars, modeVars, idVars
<1>20. ASSUME Returned PROVE NewIsBlank'
  BY <1>20 DEF Returned, TypeOK, NewIsBlank, Blank, OpenIsLive, Owns, sessionVars, turnVars,
     modeVars, idVars
<1>21. ASSUME ModeStep PROVE NewIsBlank'
  BY <1>21, ModeSteps DEF Moved, Gone, ActiveElsewhere, NewIsBlank, Blank, OpenIsLive, Owns,
     sessionVars, turnVars, modeVars, idVars
<1>22. CASE UNCHANGED vars
  BY <1>22 DEF vars, NewIsBlank, Blank, OpenIsLive, Owns
<1> QED
  BY <1>1, <1>2, <1>3, <1>4, <1>5, <1>6, <1>7, <1>8, <1>9, <1>10, <1>11, <1>12, <1>13,
     <1>14, <1>15, <1>16, <1>17, <1>18, <1>19, <1>20, <1>21, <1>22 DEF Next, Submission,
     Ends, ModeStep

\* A send that steers ends with its preparation.
LEMMA TargetsPreserved ==
    ASSUME TypeOK, TypeOK', OpenIsLive, SendTargets, [Next]_vars
    PROVE  SendTargets'
<1> USE TurnConstants DEF None, NoCommand, NoAdmission, Held, Adopting
<1>1. ASSUME NEW s \in Sessions, Publish(s) PROVE SendTargets'
  BY <1>1 DEF Publish, TypeOK, SendTargets, sessionVars, turnVars, modeVars, idVars
<1>2. ASSUME NEW s \in Sessions, Ends(s) PROVE SendTargets'
  BY <1>2, EndsStep DEF SendTargets, sessionVars, turnVars, modeVars, idVars
<1>3. ASSUME NEW s \in Sessions, Retire(s) PROVE SendTargets'
  BY <1>3 DEF Retire, TypeOK, SendTargets, sessionVars, turnVars, modeVars, idVars
<1>4. ASSUME NEW s \in Sessions, Read(s) PROVE SendTargets'
  BY <1>4, ReadStep DEF SendTargets, sessionVars, turnVars, modeVars, idVars
<1>5. ASSUME NEW s \in Sessions, NativeTurn(s) PROVE SendTargets'
  BY <1>5, OfferStep DEF SendTargets, sessionVars, turnVars, modeVars, idVars
<1>6. ASSUME NEW s \in Sessions, Admitted(s) PROVE SendTargets'
  BY <1>6, AdmittedStep DEF SendTargets, sessionVars, turnVars, modeVars, idVars
<1>7. ASSUME NEW s \in Sessions, Denied(s) PROVE SendTargets'
  BY <1>7 DEF Denied, TypeOK, SendTargets, sessionVars, turnVars, modeVars, idVars
<1>8. ASSUME NEW s \in Sessions, Adopt(s) PROVE SendTargets'
  BY <1>8, AdoptStep DEF SendTargets, sessionVars, turnVars, modeVars, idVars
<1>9. ASSUME NEW s \in Sessions, Stored(s) PROVE SendTargets'
  BY <1>9, StoredStep DEF SendTargets, sessionVars, turnVars, modeVars, idVars
<1>10. ASSUME StopRunning PROVE SendTargets'
  BY <1>10 DEF StopRunning, TypeOK, SendTargets, sessionVars, turnVars, modeVars, idVars
<1>11. ASSUME Send PROVE SendTargets'
  BY <1>11 DEF Send, TypeOK, SendTargets, sessionVars, turnVars, modeVars, idVars
<1>12. ASSUME Reprepare PROVE SendTargets'
  BY <1>12, ReprepareStep DEF SendTargets, sessionVars, turnVars, modeVars, idVars
<1>13. ASSUME Prepared PROVE SendTargets'
  BY <1>13, PreparedStep DEF Moved, Gone, ActiveElsewhere, SendTargets, sessionVars,
     turnVars, modeVars, idVars
<1>14. ASSUME GoalsRead PROVE SendTargets'
  BY <1>14, GoalsReadStep DEF PlanningIdle, Moved, Gone, ActiveElsewhere, SendTargets,
     sessionVars, turnVars, modeVars, idVars
<1>15. ASSUME Saved PROVE SendTargets'
  BY <1>15, SavedStep DEF Moved, Gone, ActiveElsewhere, SendTargets, sessionVars, turnVars,
     modeVars, idVars
<1>16. ASSUME SaveFails PROVE SendTargets'
  BY <1>16 DEF SaveFails, TypeOK, SendTargets, sessionVars, turnVars, modeVars, idVars
<1>17. ASSUME ExecuteRefused \/ ExecuteFails PROVE SendTargets'
  BY <1>17, FailureStep DEF Moved, Gone, ActiveElsewhere, SendTargets, sessionVars,
     turnVars, modeVars, idVars
<1>18. ASSUME Execute PROVE SendTargets'
  BY <1>18, ExecuteStep DEF Moved, Gone, ActiveElsewhere, SendTargets, sessionVars,
     turnVars, modeVars, idVars
<1>19. ASSUME TurnStarts PROVE SendTargets'
  BY <1>19, StartStep DEF Moved, Gone, ActiveElsewhere, SendTargets, sessionVars, turnVars,
     modeVars, idVars
<1>20. ASSUME Returned PROVE SendTargets'
  BY <1>20 DEF Returned, TypeOK, SendTargets, sessionVars, turnVars, modeVars, idVars
<1>21. ASSUME ModeStep PROVE SendTargets'
  BY <1>21, ModeSteps DEF Moved, Gone, ActiveElsewhere, SendTargets, sessionVars, turnVars,
     modeVars, idVars
<1>22. CASE UNCHANGED vars
  BY <1>22 DEF vars, SendTargets
<1> QED
  BY <1>1, <1>2, <1>3, <1>4, <1>5, <1>6, <1>7, <1>8, <1>9, <1>10, <1>11, <1>12, <1>13,
     <1>14, <1>15, <1>16, <1>17, <1>18, <1>19, <1>20, <1>21, <1>22 DEF Next, Submission,
     Ends, ModeStep

\* The live session keeps owning what it runs: a stale end in the queue cannot take
\* a newer turn away from it.
LEMMA OpenPreserved ==
    ASSUME TypeOK, TypeOK', OpenIsLive, NewIsBlank, SubmissionAlone, SendTargets,
           AdoptionAlone, EndsAreOver, [Next]_vars
    PROVE  OpenIsLive'
<1> USE TurnConstants DEF None, NoCommand, NoAdmission, Held, Adopting
<1>1. ASSUME NEW s \in Sessions, Publish(s) PROVE OpenIsLive'
  BY <1>1 DEF Publish, TypeOK, OpenIsLive, Owns, NewIsBlank, Blank, sessionVars, turnVars,
     modeVars, idVars
<1>2. ASSUME NEW s \in Sessions, Ends(s) PROVE OpenIsLive'
  <2> SUFFICES ASSUME NEW t \in Sessions PROVE Owns(t)'
    BY DEF OpenIsLive
  <2>1. CASE t = s
    BY <1>2, <2>1, EndsStep DEF OpenIsLive, Owns, NewIsBlank, Blank, sessionVars, turnVars,
       modeVars, idVars
  <2>2. CASE t # s
    BY <1>2, <2>2, EndsStep DEF OpenIsLive, Owns, NewIsBlank, Blank, sessionVars, turnVars,
       modeVars, idVars
  <2> QED
    BY <2>1, <2>2
<1>3. ASSUME NEW s \in Sessions, Retire(s) PROVE OpenIsLive'
  BY <1>3 DEF Retire, TypeOK, OpenIsLive, Owns, NewIsBlank, Blank, sessionVars, turnVars,
     modeVars, idVars
<1>4. ASSUME NEW s \in Sessions, Read(s) PROVE OpenIsLive'
  <2> SUFFICES ASSUME NEW t \in Sessions PROVE Owns(t)'
    BY DEF OpenIsLive
  <2>1. CASE t = s
    <3>1. Owns(s) /\ Over(s)
      BY DEF OpenIsLive, EndsAreOver
    <3>2. ASSUME turn[s] # None PROVE active'[s] = turn[s]
      <4>1. up[s] = "open" /\ active[s] = turn[s]
        BY <3>1, <3>2 DEF Owns, TypeOK
      <4>2. signals[s][1][1] = "ended" => signals[s][1][2] # turn[s]
        BY <1>4, <3>1, <4>1, ReadStep DEF Over, IsOver
      <4> QED
        BY <1>4, <3>2, <4>1, <4>2, ReadStep
    <3> QED
      BY <1>4, <2>1, <3>1, <3>2, ReadStep DEF Owns, sessionVars
  <2>2. CASE t # s
    BY <1>4, <2>2, ReadStep DEF OpenIsLive, Owns, NewIsBlank, Blank, sessionVars, turnVars,
       modeVars, idVars
  <2> QED
    BY <2>1, <2>2
<1>5. ASSUME NEW s \in Sessions, NativeTurn(s) PROVE OpenIsLive'
  BY <1>5, OfferStep DEF OpenIsLive, Owns, NewIsBlank, Blank, sessionVars, turnVars,
     modeVars, idVars
<1>6. ASSUME NEW s \in Sessions, Admitted(s) PROVE OpenIsLive'
  BY <1>6, AdmittedStep DEF OpenIsLive, Owns, NewIsBlank, Blank, sessionVars, turnVars,
     modeVars, idVars
<1>7. ASSUME NEW s \in Sessions, Denied(s) PROVE OpenIsLive'
  BY <1>7 DEF Denied, TypeOK, OpenIsLive, Owns, NewIsBlank, Blank, sessionVars, turnVars,
     modeVars, idVars
<1>8. ASSUME NEW s \in Sessions, Adopt(s) PROVE OpenIsLive'
  <2> SUFFICES ASSUME NEW t \in Sessions PROVE Owns(t)'
    BY DEF OpenIsLive
  <2>1. CASE t = s
    <3>1. Owns(s) /\ Adopts(s) /\ native[s].at = "admitted"
      BY <1>8, AdoptStep DEF OpenIsLive, AdoptionAlone
    <3>2. CASE up[s] = "open" /\ turn'[s] = native[s].op /\ native'[s].at = "storing"
      BY <1>8, <2>1, <3>1, <3>2, AdoptStep DEF Owns, Adopts, sessionVars
    <3>3. CASE native'[s] = NoAdmission /\ turn'[s] = turn[s]
      BY <1>8, <2>1, <3>1, <3>3, AdoptStep DEF Owns, sessionVars
    <3> QED
      BY <1>8, <3>2, <3>3, AdoptStep
  <2>2. CASE t # s
    BY <1>8, <2>2, AdoptStep DEF OpenIsLive, Owns, NewIsBlank, Blank, sessionVars, turnVars,
       modeVars, idVars
  <2> QED
    BY <2>1, <2>2
<1>9. ASSUME NEW s \in Sessions, Stored(s) PROVE OpenIsLive'
  BY <1>9, StoredStep DEF OpenIsLive, Owns, NewIsBlank, Blank, sessionVars, turnVars,
     modeVars, idVars
<1>10. ASSUME StopRunning PROVE OpenIsLive'
  BY <1>10 DEF StopRunning, TypeOK, OpenIsLive, Owns, NewIsBlank, Blank, sessionVars,
     turnVars, modeVars, idVars
<1>11. ASSUME Send PROVE OpenIsLive'
  BY <1>11 DEF Send, TypeOK, OpenIsLive, Owns, NewIsBlank, Blank, sessionVars, turnVars,
     modeVars, idVars
<1>12. ASSUME Reprepare PROVE OpenIsLive'
  BY <1>12, ReprepareStep DEF OpenIsLive, Owns, NewIsBlank, Blank, sessionVars, turnVars,
     modeVars, idVars
<1>13. ASSUME Prepared PROVE OpenIsLive'
  BY <1>13, PreparedStep DEF Moved, Gone, ActiveElsewhere, OpenIsLive, Owns, NewIsBlank,
     Blank, TypeOK, sessionVars, turnVars, modeVars, idVars
<1>14. ASSUME GoalsRead PROVE OpenIsLive'
  BY <1>14, GoalsReadStep DEF PlanningIdle, Moved, Gone, ActiveElsewhere, OpenIsLive, Owns,
     NewIsBlank, Blank, sessionVars, turnVars, modeVars, idVars
<1>15. ASSUME Saved PROVE OpenIsLive'
  <2> SUFFICES ASSUME NEW t \in Sessions PROVE Owns(t)'
    BY DEF OpenIsLive
  <2>1. CASE t = cmd.session
    BY <1>15, <2>1, SavedStep DEF Moved, Gone, ActiveElsewhere, OpenIsLive, Owns,
       NewIsBlank, Blank, SubmissionAlone, Alone, TypeOK, sessionVars, turnVars, modeVars,
       idVars
  <2>2. CASE t # cmd.session
    BY <1>15, <2>2, SavedStep DEF Moved, Gone, ActiveElsewhere, OpenIsLive, Owns,
       NewIsBlank, Blank, SubmissionAlone, Alone, TypeOK, sessionVars, turnVars, modeVars,
       idVars
  <2> QED
    BY <2>1, <2>2
<1>16. ASSUME SaveFails PROVE OpenIsLive'
  BY <1>16 DEF SaveFails, TypeOK, OpenIsLive, Owns, NewIsBlank, Blank, sessionVars,
     turnVars, modeVars, idVars
<1>17. ASSUME ExecuteRefused \/ ExecuteFails PROVE OpenIsLive'
  <2> SUFFICES ASSUME NEW t \in Sessions PROVE Owns(t)'
    BY DEF OpenIsLive
  <2>1. CASE t = cmd.session
    BY <1>17, <2>1, FailureStep DEF Moved, Gone, ActiveElsewhere, OpenIsLive, Owns,
       NewIsBlank, Blank, SubmissionAlone, Alone, TypeOK, sessionVars, turnVars, modeVars,
       idVars
  <2>2. CASE t # cmd.session
    BY <1>17, <2>2, FailureStep DEF Moved, Gone, ActiveElsewhere, OpenIsLive, Owns,
       NewIsBlank, Blank, SubmissionAlone, Alone, TypeOK, sessionVars, turnVars, modeVars,
       idVars
  <2> QED
    BY <2>1, <2>2
<1>18. ASSUME Execute PROVE OpenIsLive'
  BY <1>18, ExecuteStep DEF Moved, Gone, ActiveElsewhere, OpenIsLive, Owns, NewIsBlank,
     Blank, sessionVars, turnVars, modeVars, idVars
<1>19. ASSUME TurnStarts PROVE OpenIsLive'
  <2> SUFFICES ASSUME NEW t \in Sessions PROVE Owns(t)'
    BY DEF OpenIsLive
  <2>1. CASE t = cmd.session
    BY <1>19, <2>1, StartStep DEF Moved, Gone, ActiveElsewhere, OpenIsLive, Owns,
       NewIsBlank, Blank, SubmissionAlone, Alone, TypeOK, sessionVars, turnVars, modeVars,
       idVars
  <2>2. CASE t # cmd.session
    BY <1>19, <2>2, StartStep DEF Moved, Gone, ActiveElsewhere, OpenIsLive, Owns,
       NewIsBlank, Blank, SubmissionAlone, Alone, TypeOK, sessionVars, turnVars, modeVars,
       idVars
  <2> QED
    BY <2>1, <2>2
<1>20. ASSUME Returned PROVE OpenIsLive'
  BY <1>20 DEF Returned, TypeOK, OpenIsLive, Owns, NewIsBlank, Blank, sessionVars, turnVars,
     modeVars, idVars
<1>21. ASSUME ModeStep PROVE OpenIsLive'
  BY <1>21, ModeSteps DEF Moved, Gone, ActiveElsewhere, OpenIsLive, Owns, NewIsBlank, Blank,
     sessionVars, turnVars, modeVars, idVars
<1>22. CASE UNCHANGED vars
  BY <1>22 DEF vars, OpenIsLive, Owns, NewIsBlank, Blank
<1> QED
  BY <1>1, <1>2, <1>3, <1>4, <1>5, <1>6, <1>7, <1>8, <1>9, <1>10, <1>11, <1>12, <1>13,
     <1>14, <1>15, <1>16, <1>17, <1>18, <1>19, <1>20, <1>21, <1>22 DEF Next, Submission,
     Ends, ModeStep

\* Nothing takes the conversation from a send that holds it.
LEMMA SubmissionPreserved ==
    ASSUME TypeOK, TypeOK', OpenIsLive, NewIsBlank, SubmissionAlone, SendTargets,
           AdoptionAlone, EndsAreOver, [Next]_vars
    PROVE  SubmissionAlone'
<1> USE TurnConstants DEF None, NoCommand, NoAdmission, Held, Adopting
<1>1. ASSUME NEW s \in Sessions, Publish(s) PROVE SubmissionAlone'
  <2> SUFFICES ASSUME NEW t \in Sessions PROVE Alone(t)'
    BY DEF SubmissionAlone
  <2>1. CASE t = s
    BY <1>1, <2>1 DEF Publish, TypeOK, SubmissionAlone, Alone, NewIsBlank, Blank,
       sessionVars, turnVars, modeVars, idVars
  <2>2. CASE t # s
    BY <1>1, <2>2 DEF Publish, TypeOK, SubmissionAlone, Alone, NewIsBlank, Blank,
       sessionVars, turnVars, modeVars, idVars
  <2> QED
    BY <2>1, <2>2
<1>2. ASSUME NEW s \in Sessions, Ends(s) PROVE SubmissionAlone'
  <2> SUFFICES ASSUME NEW t \in Sessions PROVE Alone(t)'
    BY DEF SubmissionAlone
  <2>1. CASE t = s
    BY <1>2, <2>1, EndsStep DEF SubmissionAlone, Alone, sessionVars, turnVars, modeVars, idVars
  <2>2. CASE t # s
    BY <1>2, <2>2, EndsStep DEF SubmissionAlone, Alone, sessionVars, turnVars, modeVars, idVars
  <2> QED
    BY <2>1, <2>2
<1>3. ASSUME NEW s \in Sessions, Retire(s) PROVE SubmissionAlone'
  <2> SUFFICES ASSUME NEW t \in Sessions PROVE Alone(t)'
    BY DEF SubmissionAlone
  <2>1. CASE t = s
    BY <1>3, <2>1 DEF Retire, TypeOK, SubmissionAlone, Alone, sessionVars, turnVars,
       modeVars, idVars
  <2>2. CASE t # s
    BY <1>3, <2>2 DEF Retire, TypeOK, SubmissionAlone, Alone, sessionVars, turnVars,
       modeVars, idVars
  <2> QED
    BY <2>1, <2>2
<1>4. ASSUME NEW s \in Sessions, Read(s) PROVE SubmissionAlone'
  <2> SUFFICES ASSUME NEW t \in Sessions PROVE Alone(t)'
    BY DEF SubmissionAlone
  <2>1. Alone(t) /\ up' = up /\ cmd' = cmd /\ turn' = turn /\ native' = native /\ required' = required
    BY <1>4, ReadStep DEF SubmissionAlone, sessionVars, modeVars
  <2>2. ASSUME up[s] = "open", t = s, cmd.at \in {"calling", "executing"}, cmd.session = s
        PROVE  active'[s] = active[s]
    <3>1. active[s] = cmd.op /\ Reserving(s)
      BY <2>1, <2>2 DEF Alone, Reserving, SendTargets
    <3>2. cmd.op # None
      BY <2>2, SendMoves DEF Sends, Ops
    <3>3. signals[s][1][1] = "ended" => signals[s][1][2] # cmd.op
      BY <1>4, <2>2, <3>1, ReadStep DEF EndsAreOver, Over, IsOver
    <3> QED
      BY <1>4, <3>1, <3>2, <3>3, ReadStep
  <2>3. t # s => active'[t] = active[t]
    BY <1>4, ReadStep
  <2> QED
    BY <2>1, <2>2, <2>3 DEF Alone
<1>5. ASSUME NEW s \in Sessions, NativeTurn(s) PROVE SubmissionAlone'
  <2> SUFFICES ASSUME NEW t \in Sessions PROVE Alone(t)'
    BY DEF SubmissionAlone
  <2>1. CASE t = s
    BY <1>5, <2>1, OfferStep DEF SubmissionAlone, Alone, sessionVars, turnVars, modeVars, idVars
  <2>2. CASE t # s
    BY <1>5, <2>2, OfferStep DEF SubmissionAlone, Alone, sessionVars, turnVars, modeVars, idVars
  <2> QED
    BY <2>1, <2>2
<1>6. ASSUME NEW s \in Sessions, Admitted(s) PROVE SubmissionAlone'
  <2> SUFFICES ASSUME NEW t \in Sessions PROVE Alone(t)'
    BY DEF SubmissionAlone
  <2>1. CASE t = s
    BY <1>6, <2>1, AdmittedStep, SendMoves DEF SubmissionAlone, Alone, Sends, Ops,
       sessionVars, turnVars, modeVars, idVars
  <2>2. CASE t # s
    BY <1>6, <2>2, AdmittedStep, SendMoves DEF SubmissionAlone, Alone, Sends, Ops,
       sessionVars, turnVars, modeVars, idVars
  <2> QED
    BY <2>1, <2>2
<1>7. ASSUME NEW s \in Sessions, Denied(s) PROVE SubmissionAlone'
  <2> SUFFICES ASSUME NEW t \in Sessions PROVE Alone(t)'
    BY DEF SubmissionAlone
  <2>1. CASE t = s
    BY <1>7, <2>1 DEF Denied, TypeOK, SubmissionAlone, Alone, sessionVars, turnVars,
       modeVars, idVars
  <2>2. CASE t # s
    BY <1>7, <2>2 DEF Denied, TypeOK, SubmissionAlone, Alone, sessionVars, turnVars,
       modeVars, idVars
  <2> QED
    BY <2>1, <2>2
<1>8. ASSUME NEW s \in Sessions, Adopt(s) PROVE SubmissionAlone'
  <2> SUFFICES ASSUME NEW t \in Sessions PROVE Alone(t)'
    BY DEF SubmissionAlone
  <2>1. CASE t = s
    BY <1>8, <2>1, AdoptStep DEF SubmissionAlone, Alone, sessionVars, turnVars, modeVars, idVars
  <2>2. CASE t # s
    BY <1>8, <2>2, AdoptStep DEF SubmissionAlone, Alone, sessionVars, turnVars, modeVars, idVars
  <2> QED
    BY <2>1, <2>2
<1>9. ASSUME NEW s \in Sessions, Stored(s) PROVE SubmissionAlone'
  <2> SUFFICES ASSUME NEW t \in Sessions PROVE Alone(t)'
    BY DEF SubmissionAlone
  <2>1. CASE t = s
    BY <1>9, <2>1, StoredStep DEF SubmissionAlone, Alone, sessionVars, turnVars, modeVars,
       idVars
  <2>2. CASE t # s
    BY <1>9, <2>2, StoredStep DEF SubmissionAlone, Alone, sessionVars, turnVars, modeVars,
       idVars
  <2> QED
    BY <2>1, <2>2
<1>10. ASSUME StopRunning PROVE SubmissionAlone'
  BY <1>10 DEF StopRunning, TypeOK, SubmissionAlone, Alone, sessionVars, turnVars, modeVars,
     idVars
<1>11. ASSUME Send PROVE SubmissionAlone'
  BY <1>11 DEF Send, TypeOK, SubmissionAlone, Alone, sessionVars, turnVars, modeVars, idVars
<1>12. ASSUME Reprepare PROVE SubmissionAlone'
  <2> SUFFICES ASSUME NEW t \in Sessions PROVE Alone(t)'
    BY DEF SubmissionAlone
  <2>1. CASE t = cmd.session
    BY <1>12, <2>1, ReprepareStep DEF SubmissionAlone, Alone, sessionVars, turnVars,
       modeVars, idVars
  <2>2. CASE t # cmd.session
    BY <1>12, <2>2, ReprepareStep DEF SubmissionAlone, Alone, sessionVars, turnVars,
       modeVars, idVars
  <2> QED
    BY <2>1, <2>2
<1>13. ASSUME Prepared PROVE SubmissionAlone'
  <2> SUFFICES ASSUME NEW t \in Sessions PROVE Alone(t)'
    BY DEF SubmissionAlone
  <2>1. CASE t = cmd.session /\ up[t] = "open" /\ active[t] = None
    <3>1. turn[t] = None /\ native[t].at \notin Adopting
      BY <2>1, IdleIsFree
    <3> QED
      BY <1>13, <2>1, <3>1, PreparedStep DEF Moved, Gone, ActiveElsewhere, SubmissionAlone,
         Alone, sessionVars, turnVars, modeVars, idVars
  <2>2. CASE ~(t = cmd.session /\ up[t] = "open" /\ active[t] = None)
    BY <1>13, <2>2, PreparedStep DEF Moved, Gone, ActiveElsewhere, SubmissionAlone, Alone,
       sessionVars, turnVars, modeVars, idVars
  <2> QED
    BY <2>1, <2>2
<1>14. ASSUME GoalsRead PROVE SubmissionAlone'
  <2> SUFFICES ASSUME NEW t \in Sessions PROVE Alone(t)'
    BY DEF SubmissionAlone
  <2>1. CASE t = cmd.session /\ up[t] = "open" /\ active[t] = None
    <3>1. turn[t] = None /\ native[t].at \notin Adopting
      BY <2>1, IdleIsFree
    <3> QED
      BY <1>14, <2>1, <3>1, GoalsReadStep DEF PlanningIdle, Moved, Gone, ActiveElsewhere,
         SubmissionAlone, Alone, sessionVars, turnVars, modeVars, idVars
  <2>2. CASE ~(t = cmd.session /\ up[t] = "open" /\ active[t] = None)
    BY <1>14, <2>2, GoalsReadStep DEF PlanningIdle, Moved, Gone, ActiveElsewhere,
       SubmissionAlone, Alone, sessionVars, turnVars, modeVars, idVars
  <2> QED
    BY <2>1, <2>2
<1>15. ASSUME Saved PROVE SubmissionAlone'
  <2> SUFFICES ASSUME NEW t \in Sessions PROVE Alone(t)'
    BY DEF SubmissionAlone
  <2>1. CASE t = cmd.session
    BY <1>15, <2>1, SavedStep DEF Moved, Gone, ActiveElsewhere, SubmissionAlone, Alone,
       sessionVars, turnVars, modeVars, idVars
  <2>2. CASE t # cmd.session
    BY <1>15, <2>2, SavedStep DEF Moved, Gone, ActiveElsewhere, SubmissionAlone, Alone,
       sessionVars, turnVars, modeVars, idVars
  <2> QED
    BY <2>1, <2>2
<1>16. ASSUME SaveFails PROVE SubmissionAlone'
  BY <1>16 DEF SaveFails, TypeOK, SubmissionAlone, Alone, sessionVars, turnVars, modeVars,
     idVars
<1>17. ASSUME ExecuteRefused \/ ExecuteFails PROVE SubmissionAlone'
  <2> SUFFICES ASSUME NEW t \in Sessions PROVE Alone(t)'
    BY DEF SubmissionAlone
  <2>1. CASE t = cmd.session
    BY <1>17, <2>1, FailureStep DEF Moved, Gone, ActiveElsewhere, SubmissionAlone, Alone,
       sessionVars, turnVars, modeVars, idVars
  <2>2. CASE t # cmd.session
    BY <1>17, <2>2, FailureStep DEF Moved, Gone, ActiveElsewhere, SubmissionAlone, Alone,
       sessionVars, turnVars, modeVars, idVars
  <2> QED
    BY <2>1, <2>2
<1>18. ASSUME Execute PROVE SubmissionAlone'
  <2> SUFFICES ASSUME NEW t \in Sessions PROVE Alone(t)'
    BY DEF SubmissionAlone
  <2>1. CASE t = cmd.session
    BY <1>18, <2>1, ExecuteStep DEF Moved, Gone, ActiveElsewhere, SubmissionAlone, Alone,
       sessionVars, turnVars, modeVars, idVars
  <2>2. CASE t # cmd.session
    BY <1>18, <2>2, ExecuteStep DEF Moved, Gone, ActiveElsewhere, SubmissionAlone, Alone,
       sessionVars, turnVars, modeVars, idVars
  <2> QED
    BY <2>1, <2>2
<1>19. ASSUME TurnStarts PROVE SubmissionAlone'
  <2> SUFFICES ASSUME NEW t \in Sessions PROVE Alone(t)'
    BY DEF SubmissionAlone
  <2>1. CASE t = cmd.session
    BY <1>19, <2>1, StartStep DEF Moved, Gone, ActiveElsewhere, SubmissionAlone, Alone,
       sessionVars, turnVars, modeVars, idVars
  <2>2. CASE t # cmd.session
    BY <1>19, <2>2, StartStep DEF Moved, Gone, ActiveElsewhere, SubmissionAlone, Alone,
       sessionVars, turnVars, modeVars, idVars
  <2> QED
    BY <2>1, <2>2
<1>20. ASSUME Returned PROVE SubmissionAlone'
  BY <1>20 DEF Returned, TypeOK, SubmissionAlone, Alone, sessionVars, turnVars, modeVars, idVars
<1>21. ASSUME ModeStep PROVE SubmissionAlone'
  BY <1>21, ModeSteps DEF Moved, Gone, ActiveElsewhere, SubmissionAlone, Alone, sessionVars,
     turnVars, modeVars, idVars
<1>22. CASE UNCHANGED vars
  BY <1>22 DEF vars, SubmissionAlone, Alone
<1> QED
  BY <1>1, <1>2, <1>3, <1>4, <1>5, <1>6, <1>7, <1>8, <1>9, <1>10, <1>11, <1>12, <1>13,
     <1>14, <1>15, <1>16, <1>17, <1>18, <1>19, <1>20, <1>21, <1>22 DEF Next, Submission,
     Ends, ModeStep

\* Nothing takes the conversation from a turn that is being adopted.
LEMMA AdoptionPreserved ==
    ASSUME TypeOK, TypeOK', OpenIsLive, NewIsBlank, SubmissionAlone, SendTargets,
           AdoptionAlone, EndsAreOver, [Next]_vars
    PROVE  AdoptionAlone'
<1> USE TurnConstants DEF None, NoCommand, NoAdmission, Held, Adopting
<1>1. ASSUME NEW s \in Sessions, Publish(s) PROVE AdoptionAlone'
  <2> SUFFICES ASSUME NEW t \in Sessions PROVE Adopts(t)'
    BY DEF AdoptionAlone
  <2>1. CASE t = s
    BY <1>1, <2>1 DEF Publish, TypeOK, AdoptionAlone, Adopts, NewIsBlank, Blank,
       sessionVars, turnVars, modeVars, idVars
  <2>2. CASE t # s
    BY <1>1, <2>2 DEF Publish, TypeOK, AdoptionAlone, Adopts, NewIsBlank, Blank,
       sessionVars, turnVars, modeVars, idVars
  <2> QED
    BY <2>1, <2>2
<1>2. ASSUME NEW s \in Sessions, Ends(s) PROVE AdoptionAlone'
  <2> SUFFICES ASSUME NEW t \in Sessions PROVE Adopts(t)'
    BY DEF AdoptionAlone
  <2>1. CASE t = s
    BY <1>2, <2>1, EndsStep DEF AdoptionAlone, Adopts, sessionVars, turnVars, modeVars, idVars
  <2>2. CASE t # s
    BY <1>2, <2>2, EndsStep DEF AdoptionAlone, Adopts, sessionVars, turnVars, modeVars, idVars
  <2> QED
    BY <2>1, <2>2
<1>3. ASSUME NEW s \in Sessions, Retire(s) PROVE AdoptionAlone'
  <2> SUFFICES ASSUME NEW t \in Sessions PROVE Adopts(t)'
    BY DEF AdoptionAlone
  <2>1. CASE t = s
    BY <1>3, <2>1 DEF Retire, TypeOK, AdoptionAlone, Adopts, sessionVars, turnVars,
       modeVars, idVars
  <2>2. CASE t # s
    BY <1>3, <2>2 DEF Retire, TypeOK, AdoptionAlone, Adopts, sessionVars, turnVars,
       modeVars, idVars
  <2> QED
    BY <2>1, <2>2
<1>4. ASSUME NEW s \in Sessions, Read(s) PROVE AdoptionAlone'
  <2> SUFFICES ASSUME NEW t \in Sessions PROVE Adopts(t)'
    BY DEF AdoptionAlone
  <2>1. CASE t = s /\ up[s] = "open"
    <3>1. Adopts(s) /\ Over(s)
      BY DEF AdoptionAlone, EndsAreOver
    <3>2. ASSUME native[s].at = "admitted" PROVE active'[s] = active[s]
      <4>1. active[s] = native[s].op /\ native[s].op \in Ops
        BY <2>1, <3>1, <3>2, AdmissionForms DEF Adopts
      <4>2. signals[s][1][1] = "ended" => signals[s][1][2] # native[s].op
        BY <1>4, <2>1, <3>1, <3>2, ReadStep DEF Over, IsOver
      <4> QED
        BY <1>4, <4>1, <4>2, ReadStep DEF Ops
    <3> QED
      BY <1>4, <2>1, <3>1, <3>2, ReadStep DEF Adopts, sessionVars
  <2>2. CASE t # s \/ up[t] # "open"
    BY <1>4, <2>2, ReadStep DEF AdoptionAlone, Adopts, sessionVars, turnVars, modeVars, idVars
  <2> QED
    BY <2>1, <2>2
<1>5. ASSUME NEW s \in Sessions, NativeTurn(s) PROVE AdoptionAlone'
  <2> SUFFICES ASSUME NEW t \in Sessions PROVE Adopts(t)'
    BY DEF AdoptionAlone
  <2>1. CASE t = s
    BY <1>5, <2>1, OfferStep DEF AdoptionAlone, Adopts, sessionVars, turnVars, modeVars, idVars
  <2>2. CASE t # s
    BY <1>5, <2>2, OfferStep DEF AdoptionAlone, Adopts, sessionVars, turnVars, modeVars, idVars
  <2> QED
    BY <2>1, <2>2
<1>6. ASSUME NEW s \in Sessions, Admitted(s) PROVE AdoptionAlone'
  <2> SUFFICES ASSUME NEW t \in Sessions PROVE Adopts(t)'
    BY DEF AdoptionAlone
  <2>1. CASE t = s
    BY <1>6, <2>1, AdmittedStep DEF AdoptionAlone, Adopts, OpenIsLive, Owns, sessionVars,
       turnVars, modeVars, idVars
  <2>2. CASE t # s
    BY <1>6, <2>2, AdmittedStep DEF AdoptionAlone, Adopts, OpenIsLive, Owns, sessionVars,
       turnVars, modeVars, idVars
  <2> QED
    BY <2>1, <2>2
<1>7. ASSUME NEW s \in Sessions, Denied(s) PROVE AdoptionAlone'
  <2> SUFFICES ASSUME NEW t \in Sessions PROVE Adopts(t)'
    BY DEF AdoptionAlone
  <2>1. CASE t = s
    BY <1>7, <2>1 DEF Denied, TypeOK, AdoptionAlone, Adopts, sessionVars, turnVars,
       modeVars, idVars
  <2>2. CASE t # s
    BY <1>7, <2>2 DEF Denied, TypeOK, AdoptionAlone, Adopts, sessionVars, turnVars,
       modeVars, idVars
  <2> QED
    BY <2>1, <2>2
<1>8. ASSUME NEW s \in Sessions, Adopt(s) PROVE AdoptionAlone'
  <2> SUFFICES ASSUME NEW t \in Sessions PROVE Adopts(t)'
    BY DEF AdoptionAlone
  <2>1. CASE t = s
    BY <1>8, <2>1, AdoptStep DEF AdoptionAlone, Adopts, sessionVars, turnVars, modeVars, idVars
  <2>2. CASE t # s
    BY <1>8, <2>2, AdoptStep DEF AdoptionAlone, Adopts, sessionVars, turnVars, modeVars, idVars
  <2> QED
    BY <2>1, <2>2
<1>9. ASSUME NEW s \in Sessions, Stored(s) PROVE AdoptionAlone'
  <2> SUFFICES ASSUME NEW t \in Sessions PROVE Adopts(t)'
    BY DEF AdoptionAlone
  <2>1. CASE t = s
    BY <1>9, <2>1, StoredStep DEF AdoptionAlone, Adopts, sessionVars, turnVars, modeVars, idVars
  <2>2. CASE t # s
    BY <1>9, <2>2, StoredStep DEF AdoptionAlone, Adopts, sessionVars, turnVars, modeVars, idVars
  <2> QED
    BY <2>1, <2>2
<1>10. ASSUME StopRunning PROVE AdoptionAlone'
  BY <1>10 DEF StopRunning, TypeOK, AdoptionAlone, Adopts, sessionVars, turnVars, modeVars,
     idVars
<1>11. ASSUME Send PROVE AdoptionAlone'
  BY <1>11 DEF Send, TypeOK, AdoptionAlone, Adopts, sessionVars, turnVars, modeVars, idVars
<1>12. ASSUME Reprepare PROVE AdoptionAlone'
  <2> SUFFICES ASSUME NEW t \in Sessions PROVE Adopts(t)'
    BY DEF AdoptionAlone
  <2>1. CASE t = cmd.session
    BY <1>12, <2>1, ReprepareStep DEF AdoptionAlone, Adopts, sessionVars, turnVars,
       modeVars, idVars
  <2>2. CASE t # cmd.session
    BY <1>12, <2>2, ReprepareStep DEF AdoptionAlone, Adopts, sessionVars, turnVars,
       modeVars, idVars
  <2> QED
    BY <2>1, <2>2
<1>13. ASSUME Prepared PROVE AdoptionAlone'
  <2> SUFFICES ASSUME NEW t \in Sessions PROVE Adopts(t)'
    BY DEF AdoptionAlone
  <2>1. CASE t = cmd.session /\ up[t] = "open" /\ active[t] = None
    <3>1. turn[t] = None /\ native[t].at \notin Adopting
      BY <2>1, IdleIsFree
    <3> QED
      BY <1>13, <2>1, <3>1, PreparedStep DEF Moved, Gone, ActiveElsewhere, AdoptionAlone,
         Adopts, sessionVars, turnVars, modeVars, idVars
  <2>2. CASE ~(t = cmd.session /\ up[t] = "open" /\ active[t] = None)
    BY <1>13, <2>2, PreparedStep DEF Moved, Gone, ActiveElsewhere, AdoptionAlone, Adopts,
       sessionVars, turnVars, modeVars, idVars
  <2> QED
    BY <2>1, <2>2
<1>14. ASSUME GoalsRead PROVE AdoptionAlone'
  <2> SUFFICES ASSUME NEW t \in Sessions PROVE Adopts(t)'
    BY DEF AdoptionAlone
  <2>1. CASE t = cmd.session
    BY <1>14, <2>1, GoalsReadStep DEF PlanningIdle, Moved, Gone, ActiveElsewhere,
       AdoptionAlone, Adopts, sessionVars, turnVars, modeVars, idVars
  <2>2. CASE t # cmd.session
    BY <1>14, <2>2, GoalsReadStep DEF PlanningIdle, Moved, Gone, ActiveElsewhere,
       AdoptionAlone, Adopts, sessionVars, turnVars, modeVars, idVars
  <2> QED
    BY <2>1, <2>2
<1>15. ASSUME Saved PROVE AdoptionAlone'
  <2> SUFFICES ASSUME NEW t \in Sessions PROVE Adopts(t)'
    BY DEF AdoptionAlone
  <2>1. CASE t = cmd.session
    BY <1>15, <2>1, SavedStep DEF Moved, Gone, ActiveElsewhere, AdoptionAlone, Adopts,
       SubmissionAlone, Alone, sessionVars, turnVars, modeVars, idVars
  <2>2. CASE t # cmd.session
    BY <1>15, <2>2, SavedStep DEF Moved, Gone, ActiveElsewhere, AdoptionAlone, Adopts,
       SubmissionAlone, Alone, sessionVars, turnVars, modeVars, idVars
  <2> QED
    BY <2>1, <2>2
<1>16. ASSUME SaveFails PROVE AdoptionAlone'
  BY <1>16 DEF SaveFails, TypeOK, AdoptionAlone, Adopts, sessionVars, turnVars, modeVars, idVars
<1>17. ASSUME ExecuteRefused \/ ExecuteFails PROVE AdoptionAlone'
  <2> SUFFICES ASSUME NEW t \in Sessions PROVE Adopts(t)'
    BY DEF AdoptionAlone
  <2>1. CASE t = cmd.session
    BY <1>17, <2>1, FailureStep DEF Moved, Gone, ActiveElsewhere, AdoptionAlone, Adopts,
       SubmissionAlone, Alone, sessionVars, turnVars, modeVars, idVars
  <2>2. CASE t # cmd.session
    BY <1>17, <2>2, FailureStep DEF Moved, Gone, ActiveElsewhere, AdoptionAlone, Adopts,
       SubmissionAlone, Alone, sessionVars, turnVars, modeVars, idVars
  <2> QED
    BY <2>1, <2>2
<1>18. ASSUME Execute PROVE AdoptionAlone'
  <2> SUFFICES ASSUME NEW t \in Sessions PROVE Adopts(t)'
    BY DEF AdoptionAlone
  <2>1. CASE t = cmd.session
    BY <1>18, <2>1, ExecuteStep DEF Moved, Gone, ActiveElsewhere, AdoptionAlone, Adopts,
       sessionVars, turnVars, modeVars, idVars
  <2>2. CASE t # cmd.session
    BY <1>18, <2>2, ExecuteStep DEF Moved, Gone, ActiveElsewhere, AdoptionAlone, Adopts,
       sessionVars, turnVars, modeVars, idVars
  <2> QED
    BY <2>1, <2>2
<1>19. ASSUME TurnStarts PROVE AdoptionAlone'
  <2> SUFFICES ASSUME NEW t \in Sessions PROVE Adopts(t)'
    BY DEF AdoptionAlone
  <2>1. CASE t = cmd.session
    BY <1>19, <2>1, StartStep DEF Moved, Gone, ActiveElsewhere, AdoptionAlone, Adopts,
       SubmissionAlone, Alone, sessionVars, turnVars, modeVars, idVars
  <2>2. CASE t # cmd.session
    BY <1>19, <2>2, StartStep DEF Moved, Gone, ActiveElsewhere, AdoptionAlone, Adopts,
       SubmissionAlone, Alone, sessionVars, turnVars, modeVars, idVars
  <2> QED
    BY <2>1, <2>2
<1>20. ASSUME Returned PROVE AdoptionAlone'
  BY <1>20 DEF Returned, TypeOK, AdoptionAlone, Adopts, sessionVars, turnVars, modeVars, idVars
<1>21. ASSUME ModeStep PROVE AdoptionAlone'
  BY <1>21, ModeSteps DEF Moved, Gone, ActiveElsewhere, AdoptionAlone, Adopts, sessionVars,
     turnVars, modeVars, idVars
<1>22. CASE UNCHANGED vars
  BY <1>22 DEF vars, AdoptionAlone, Adopts
<1> QED
  BY <1>1, <1>2, <1>3, <1>4, <1>5, <1>6, <1>7, <1>8, <1>9, <1>10, <1>11, <1>12, <1>13,
     <1>14, <1>15, <1>16, <1>17, <1>18, <1>19, <1>20, <1>21, <1>22 DEF Next, Submission,
     Ends, ModeStep

\* The command's operation has been handed out.
LEMMA CommandPreserved ==
    ASSUME TypeOK, TypeOK', OpenIsLive, IdsIssued, CommandIssued, [Next]_vars
    PROVE  CommandIssued'
<1> USE TurnConstants DEF None, NoCommand, NoAdmission, Held, Adopting
<1>1. ASSUME NEW s \in Sessions, Publish(s) PROVE CommandIssued'
  BY <1>1 DEF Publish, TypeOK, CommandIssued, sessionVars, turnVars, modeVars, idVars
<1>2. ASSUME NEW s \in Sessions, Ends(s) PROVE CommandIssued'
  BY <1>2, EndsStep DEF CommandIssued, sessionVars, turnVars, modeVars, idVars
<1>3. ASSUME NEW s \in Sessions, Retire(s) PROVE CommandIssued'
  BY <1>3 DEF Retire, TypeOK, CommandIssued, sessionVars, turnVars, modeVars, idVars
<1>4. ASSUME NEW s \in Sessions, Read(s) PROVE CommandIssued'
  BY <1>4, ReadStep DEF CommandIssued, sessionVars, turnVars, modeVars, idVars
<1>5. ASSUME NEW s \in Sessions, NativeTurn(s) PROVE CommandIssued'
  BY <1>5, OfferStep DEF CommandIssued, sessionVars, turnVars, modeVars, idVars
<1>6. ASSUME NEW s \in Sessions, Admitted(s) PROVE CommandIssued'
  BY <1>6, AdmittedStep DEF CommandIssued, TypeOK, sessionVars, turnVars, modeVars, idVars
<1>7. ASSUME NEW s \in Sessions, Denied(s) PROVE CommandIssued'
  BY <1>7 DEF Denied, TypeOK, CommandIssued, sessionVars, turnVars, modeVars, idVars
<1>8. ASSUME NEW s \in Sessions, Adopt(s) PROVE CommandIssued'
  BY <1>8, AdoptStep DEF CommandIssued, sessionVars, turnVars, modeVars, idVars
<1>9. ASSUME NEW s \in Sessions, Stored(s) PROVE CommandIssued'
  BY <1>9, StoredStep DEF CommandIssued, sessionVars, turnVars, modeVars, idVars
<1>10. ASSUME StopRunning PROVE CommandIssued'
  BY <1>10 DEF StopRunning, TypeOK, CommandIssued, sessionVars, turnVars, modeVars, idVars
<1>11. ASSUME Send PROVE CommandIssued'
  BY <1>11 DEF Send, TypeOK, CommandIssued, IdsIssued, Issued, sessionVars, turnVars,
     modeVars, idVars
<1>12. ASSUME Reprepare PROVE CommandIssued'
  BY <1>12, ReprepareStep DEF CommandIssued, TypeOK, sessionVars, turnVars, modeVars, idVars
<1>13. ASSUME Prepared PROVE CommandIssued'
  BY <1>13, PreparedStep DEF Moved, Gone, ActiveElsewhere, CommandIssued, sessionVars,
     turnVars, modeVars, idVars
<1>14. ASSUME GoalsRead PROVE CommandIssued'
  BY <1>14, GoalsReadStep DEF PlanningIdle, Moved, Gone, ActiveElsewhere, CommandIssued,
     sessionVars, turnVars, modeVars, idVars
<1>15. ASSUME Saved PROVE CommandIssued'
  BY <1>15, SavedStep DEF Moved, Gone, ActiveElsewhere, CommandIssued, sessionVars,
     turnVars, modeVars, idVars
<1>16. ASSUME SaveFails PROVE CommandIssued'
  BY <1>16 DEF SaveFails, TypeOK, CommandIssued, sessionVars, turnVars, modeVars, idVars
<1>17. ASSUME ExecuteRefused \/ ExecuteFails PROVE CommandIssued'
  BY <1>17, FailureStep DEF Moved, Gone, ActiveElsewhere, CommandIssued, sessionVars,
     turnVars, modeVars, idVars
<1>18. ASSUME Execute PROVE CommandIssued'
  BY <1>18, ExecuteStep DEF Moved, Gone, ActiveElsewhere, CommandIssued, sessionVars,
     turnVars, modeVars, idVars
<1>19. ASSUME TurnStarts PROVE CommandIssued'
  BY <1>19, StartStep DEF Moved, Gone, ActiveElsewhere, CommandIssued, sessionVars,
     turnVars, modeVars, idVars
<1>20. ASSUME Returned PROVE CommandIssued'
  BY <1>20 DEF Returned, TypeOK, CommandIssued, sessionVars, turnVars, modeVars, idVars
<1>21. ASSUME ModeStep PROVE CommandIssued'
  BY <1>21, ModeSteps DEF Moved, Gone, ActiveElsewhere, CommandIssued, sessionVars,
     turnVars, modeVars, idVars
<1>22. CASE UNCHANGED vars
  BY <1>22 DEF vars, CommandIssued
<1> QED
  BY <1>1, <1>2, <1>3, <1>4, <1>5, <1>6, <1>7, <1>8, <1>9, <1>10, <1>11, <1>12, <1>13,
     <1>14, <1>15, <1>16, <1>17, <1>18, <1>19, <1>20, <1>21, <1>22 DEF Next, Submission,
     Ends, ModeStep

\* Whatever is used has been handed out.
LEMMA IdsPreserved ==
    ASSUME TypeOK, TypeOK', OpenIsLive, IdsIssued, CommandIssued, [Next]_vars
    PROVE  IdsIssued'
<1> USE TurnConstants DEF None, NoCommand, NoAdmission, Held, Adopting
<1>1. ASSUME NEW s \in Sessions, Publish(s) PROVE IdsIssued'
  BY <1>1 DEF Publish, TypeOK, IdsIssued, Issued, sessionVars, turnVars, modeVars, idVars
<1>2. ASSUME NEW s \in Sessions, Ends(s) PROVE IdsIssued'
  <2>1. CASE turn[s] = None
    BY <1>2, <2>1, EndsStep DEF IdsIssued, Issued, sessionVars, turnVars, modeVars, idVars
  <2>2. CASE turn[s] # None
    <3>0. s \in Sessions /\ turn[s] \in Ops /\ turn[s] \in 1 .. last /\ Queued(s, "ended", turn[s])
      BY <1>2, <2>2, EndsStep, QueueGrows DEF IdsIssued, Issued, CommandIssued, Held, Ops,
         Adopting
    <3> SUFFICES ASSUME NEW t \in Sessions PROVE Issued(t)'
      BY DEF IdsIssued
    <3>1. Issued(t)
      BY DEF IdsIssued
    <3>2. CASE t = s
      <4>1. \A i \in 1 .. Len(signals'[t]) : signals'[t][i][2] \in 1 .. last
        BY <3>0, <3>1, <3>2 DEF Issued, Queued
      <4>2. turn'[t] = None /\ active'[t] = None /\ last' = last
        BY <1>2, <2>2, <3>2, EndsStep DEF idVars
      <4>3. native'[t].at \in Adopting => native'[t] = native[t]
        BY <1>2, EndsStep
      <4> QED
        BY <3>1, <3>0, <4>1, <4>2, <4>3, LastIsNat DEF Issued
    <3>3. CASE t # s
      BY <1>2, <2>2, <3>1, <3>3, EndsStep DEF Issued, idVars
    <3> QED
      BY <3>2, <3>3
  <2> QED
    BY <2>1, <2>2
<1>3. ASSUME NEW s \in Sessions, Retire(s) PROVE IdsIssued'
  BY <1>3 DEF Retire, TypeOK, IdsIssued, Issued, sessionVars, turnVars, modeVars, idVars
<1>4. ASSUME NEW s \in Sessions, Read(s) PROVE IdsIssued'
  <2> SUFFICES ASSUME NEW t \in Sessions PROVE Issued(t)'
    BY DEF IdsIssued
  <2>1. Issued(t) /\ Issued(s)
    BY DEF IdsIssued
  <2>2. signals[s][1][2] \in 1 .. last /\ last \in Nat
    BY <1>4, <2>1, ReadStep, LastIsNat DEF Issued
  <2>3. \A i \in 1 .. Len(signals'[s]) : signals'[s][i][2] \in 1 .. last
    <3>1. ASSUME NEW i \in 1 .. Len(signals'[s]) PROVE signals'[s][i][2] \in 1 .. last
      <4>1. i + 1 \in 1 .. Len(signals[s]) /\ signals'[s][i] = signals[s][i + 1]
        BY <1>4, ReadStep
      <4> QED
        BY <2>1, <4>1 DEF Issued
    <3> QED
      BY <3>1
  <2>4. active'[t] \in 0 .. last
    <3>1. CASE t = s
      BY <1>4, <2>1, <2>2, <3>1, ReadStep DEF Issued
    <3>2. CASE t # s
      BY <1>4, <2>1, <3>2, ReadStep DEF Issued
    <3> QED
      BY <3>1, <3>2
  <2> QED
    BY <1>4, <2>1, <2>3, <2>4, ReadStep DEF Issued, idVars
<1>5. ASSUME NEW s \in Sessions, NativeTurn(s) PROVE IdsIssued'
  BY <1>5, OfferStep DEF IdsIssued, Issued, sessionVars, turnVars, modeVars, idVars
<1>6. ASSUME NEW s \in Sessions, Admitted(s) PROVE IdsIssued'
  <2> SUFFICES ASSUME NEW t \in Sessions PROVE Issued(t)'
    BY DEF IdsIssued
  <2>1. CASE t = s
    BY <1>6, <2>1, AdmittedStep, LastIsNat DEF IdsIssued, Issued, sessionVars, turnVars,
       modeVars, idVars
  <2>2. CASE t # s
    BY <1>6, <2>2, AdmittedStep, LastIsNat DEF IdsIssued, Issued, sessionVars, turnVars,
       modeVars, idVars
  <2> QED
    BY <2>1, <2>2
<1>7. ASSUME NEW s \in Sessions, Denied(s) PROVE IdsIssued'
  BY <1>7 DEF Denied, TypeOK, IdsIssued, Issued, sessionVars, turnVars, modeVars, idVars
<1>8. ASSUME NEW s \in Sessions, Adopt(s) PROVE IdsIssued'
  BY <1>8, AdoptStep DEF IdsIssued, Issued, sessionVars, turnVars, modeVars, idVars
<1>9. ASSUME NEW s \in Sessions, Stored(s) PROVE IdsIssued'
  <2>0. s \in Sessions /\ native[s].op \in Ops /\ native[s].op \in 1 .. last /\ Queued(s, "started", native[s].op)
    BY <1>9, StoredStep, QueueGrows DEF IdsIssued, Issued, CommandIssued, Held, Ops, Adopting
  <2> SUFFICES ASSUME NEW t \in Sessions PROVE Issued(t)'
    BY DEF IdsIssued
  <2>1. Issued(t)
    BY DEF IdsIssued
  <2>2. CASE t = s
    <3>1. \A i \in 1 .. Len(signals'[t]) : signals'[t][i][2] \in 1 .. last
      BY <2>0, <2>1, <2>2 DEF Issued, Queued
    <3> QED
      BY <1>9, <2>0, <2>1, <2>2, <3>1, StoredStep DEF Issued, idVars
  <2>3. CASE t # s
    BY <1>9, <2>1, <2>3, StoredStep DEF Issued, idVars
  <2> QED
    BY <2>2, <2>3
<1>10. ASSUME StopRunning PROVE IdsIssued'
  BY <1>10 DEF StopRunning, TypeOK, IdsIssued, Issued, sessionVars, turnVars, modeVars, idVars
<1>11. ASSUME Send PROVE IdsIssued'
  BY <1>11 DEF Send, TypeOK, IdsIssued, Issued, TypeOK, sessionVars, turnVars, modeVars, idVars
<1>12. ASSUME Reprepare PROVE IdsIssued'
  <2> SUFFICES ASSUME NEW t \in Sessions PROVE Issued(t)'
    BY DEF IdsIssued
  <2>1. CASE t = cmd.session
    BY <1>12, <2>1, ReprepareStep, LastIsNat DEF IdsIssued, Issued, sessionVars, turnVars,
       modeVars, idVars
  <2>2. CASE t # cmd.session
    BY <1>12, <2>2, ReprepareStep, LastIsNat DEF IdsIssued, Issued, sessionVars, turnVars,
       modeVars, idVars
  <2> QED
    BY <2>1, <2>2
<1>13. ASSUME Prepared PROVE IdsIssued'
  BY <1>13, PreparedStep DEF Moved, Gone, ActiveElsewhere, IdsIssued, Issued, CommandIssued,
     sessionVars, turnVars, modeVars, idVars
<1>14. ASSUME GoalsRead PROVE IdsIssued'
  BY <1>14, GoalsReadStep DEF PlanningIdle, Moved, Gone, ActiveElsewhere, IdsIssued, Issued,
     sessionVars, turnVars, modeVars, idVars
<1>15. ASSUME Saved PROVE IdsIssued'
  BY <1>15, SavedStep DEF Moved, Gone, ActiveElsewhere, IdsIssued, Issued, CommandIssued,
     sessionVars, turnVars, modeVars, idVars
<1>16. ASSUME SaveFails PROVE IdsIssued'
  BY <1>16 DEF SaveFails, TypeOK, IdsIssued, Issued, sessionVars, turnVars, modeVars, idVars
<1>17. ASSUME ExecuteRefused \/ ExecuteFails PROVE IdsIssued'
  <2> SUFFICES ASSUME NEW t \in Sessions PROVE Issued(t)'
    BY DEF IdsIssued
  <2>1. active'[t] \in {None, active[t]}
    BY <1>17, FailureStep DEF ActiveElsewhere
  <2> QED
    BY <1>17, <2>1, LastIsNat, FailureStep DEF Issued, IdsIssued, sessionVars, idVars
<1>18. ASSUME Execute PROVE IdsIssued'
  BY <1>18, ExecuteStep DEF Moved, Gone, ActiveElsewhere, IdsIssued, Issued, sessionVars,
     turnVars, modeVars, idVars
<1>19. ASSUME TurnStarts PROVE IdsIssued'
  <2>0. cmd.session \in Sessions /\ cmd.op \in Ops /\ cmd.op \in 1 .. last /\ Queued(cmd.session, "started", cmd.op)
    BY <1>19, StartStep, QueueGrows DEF IdsIssued, Issued, CommandIssued, Held, Ops, Adopting
  <2> SUFFICES ASSUME NEW t \in Sessions PROVE Issued(t)'
    BY DEF IdsIssued
  <2>1. Issued(t)
    BY DEF IdsIssued
  <2>2. CASE t = cmd.session
    <3>1. \A i \in 1 .. Len(signals'[t]) : signals'[t][i][2] \in 1 .. last
      BY <2>0, <2>1, <2>2 DEF Issued, Queued
    <3> QED
      BY <1>19, <2>0, <2>1, <2>2, <3>1, StartStep DEF Issued, idVars
  <2>3. CASE t # cmd.session
    BY <1>19, <2>1, <2>3, StartStep DEF Issued, idVars
  <2> QED
    BY <2>2, <2>3
<1>20. ASSUME Returned PROVE IdsIssued'
  BY <1>20 DEF Returned, TypeOK, IdsIssued, Issued, sessionVars, turnVars, modeVars, idVars
<1>21. ASSUME ModeStep PROVE IdsIssued'
  BY <1>21, ModeSteps DEF Moved, Gone, ActiveElsewhere, IdsIssued, Issued, sessionVars,
     turnVars, modeVars, idVars
<1>22. CASE UNCHANGED vars
  BY <1>22 DEF vars, IdsIssued, Issued
<1> QED
  BY <1>1, <1>2, <1>3, <1>4, <1>5, <1>6, <1>7, <1>8, <1>9, <1>10, <1>11, <1>12, <1>13,
     <1>14, <1>15, <1>16, <1>17, <1>18, <1>19, <1>20, <1>21, <1>22 DEF Next, Submission,
     Ends, ModeStep

\* An operation in preparation is not started by anyone else.
LEMMA ReservedPreserved ==
    ASSUME TypeOK, TypeOK', IdsIssued, CommandIssued, OpenIsLive, NewIsBlank,
           SubmissionAlone, SendTargets, ReservedIsNew, [Next]_vars
    PROVE  ReservedIsNew'
<1> USE TurnConstants DEF None, NoCommand, NoAdmission, Held, Adopting
<1>1. ASSUME NEW s \in Sessions, Publish(s) PROVE ReservedIsNew'
  <2> SUFFICES ASSUME NEW t \in Sessions PROVE Fresh(t)'
    BY DEF ReservedIsNew
  <2>1. CASE t = s
    BY <1>1, <2>1 DEF Publish, TypeOK, ReservedIsNew, Fresh, Reserving, NewIsBlank, Blank,
       sessionVars, turnVars, modeVars, idVars
  <2>2. CASE t # s
    BY <1>1, <2>2 DEF Publish, TypeOK, ReservedIsNew, Fresh, Reserving, NewIsBlank, Blank,
       sessionVars, turnVars, modeVars, idVars
  <2> QED
    BY <2>1, <2>2
<1>2. ASSUME NEW s \in Sessions, Ends(s) PROVE ReservedIsNew'
  <2> SUFFICES ASSUME NEW t \in Sessions PROVE Fresh(t)'
    BY DEF ReservedIsNew
  <2>1. CASE t = s
    BY <1>2, <2>1, EndsStep, SendMoves DEF ReservedIsNew, Fresh, Reserving, Sends, Ops,
       sessionVars, turnVars, modeVars, idVars
  <2>2. CASE t # s
    BY <1>2, <2>2, EndsStep, SendMoves DEF ReservedIsNew, Fresh, Reserving, Sends, Ops,
       sessionVars, turnVars, modeVars, idVars
  <2> QED
    BY <2>1, <2>2
<1>3. ASSUME NEW s \in Sessions, Retire(s) PROVE ReservedIsNew'
  <2> SUFFICES ASSUME NEW t \in Sessions PROVE Fresh(t)'
    BY DEF ReservedIsNew
  <2>1. CASE t = s
    BY <1>3, <2>1 DEF Retire, TypeOK, ReservedIsNew, Fresh, Reserving, sessionVars,
       turnVars, modeVars, idVars
  <2>2. CASE t # s
    BY <1>3, <2>2 DEF Retire, TypeOK, ReservedIsNew, Fresh, Reserving, sessionVars,
       turnVars, modeVars, idVars
  <2> QED
    BY <2>1, <2>2
<1>4. ASSUME NEW s \in Sessions, Read(s) PROVE ReservedIsNew'
  <2> SUFFICES ASSUME NEW t \in Sessions PROVE Fresh(t)'
    BY DEF ReservedIsNew
  <2>1. CASE t = s
    BY <1>4, <2>1, ReadStep DEF ReservedIsNew, Fresh, Reserving, sessionVars, turnVars,
       modeVars, idVars
  <2>2. CASE t # s
    BY <1>4, <2>2, ReadStep DEF ReservedIsNew, Fresh, Reserving, sessionVars, turnVars,
       modeVars, idVars
  <2> QED
    BY <2>1, <2>2
<1>5. ASSUME NEW s \in Sessions, NativeTurn(s) PROVE ReservedIsNew'
  <2> SUFFICES ASSUME NEW t \in Sessions PROVE Fresh(t)'
    BY DEF ReservedIsNew
  <2>1. CASE t = s
    BY <1>5, <2>1, OfferStep DEF ReservedIsNew, Fresh, Reserving, sessionVars, turnVars,
       modeVars, idVars
  <2>2. CASE t # s
    BY <1>5, <2>2, OfferStep DEF ReservedIsNew, Fresh, Reserving, sessionVars, turnVars,
       modeVars, idVars
  <2> QED
    BY <2>1, <2>2
<1>6. ASSUME NEW s \in Sessions, Admitted(s) PROVE ReservedIsNew'
  <2> SUFFICES ASSUME NEW t \in Sessions PROVE Fresh(t)'
    BY DEF ReservedIsNew
  <2>1. CASE t = s
    BY <1>6, <2>1, AdmittedStep, LastIsNat DEF ReservedIsNew, Fresh, Reserving,
       CommandIssued, IdsIssued, Issued, sessionVars, turnVars, modeVars, idVars
  <2>2. CASE t # s
    BY <1>6, <2>2, AdmittedStep, LastIsNat DEF ReservedIsNew, Fresh, Reserving,
       CommandIssued, IdsIssued, Issued, sessionVars, turnVars, modeVars, idVars
  <2> QED
    BY <2>1, <2>2
<1>7. ASSUME NEW s \in Sessions, Denied(s) PROVE ReservedIsNew'
  <2> SUFFICES ASSUME NEW t \in Sessions PROVE Fresh(t)'
    BY DEF ReservedIsNew
  <2>1. CASE t = s
    BY <1>7, <2>1 DEF Denied, TypeOK, ReservedIsNew, Fresh, Reserving, sessionVars,
       turnVars, modeVars, idVars
  <2>2. CASE t # s
    BY <1>7, <2>2 DEF Denied, TypeOK, ReservedIsNew, Fresh, Reserving, sessionVars,
       turnVars, modeVars, idVars
  <2> QED
    BY <2>1, <2>2
<1>8. ASSUME NEW s \in Sessions, Adopt(s) PROVE ReservedIsNew'
  <2> SUFFICES ASSUME NEW t \in Sessions PROVE Fresh(t)'
    BY DEF ReservedIsNew
  <2>1. CASE t = s
    BY <1>8, <2>1, AdoptStep DEF ReservedIsNew, Fresh, Reserving, sessionVars, turnVars,
       modeVars, idVars
  <2>2. CASE t # s
    BY <1>8, <2>2, AdoptStep DEF ReservedIsNew, Fresh, Reserving, sessionVars, turnVars,
       modeVars, idVars
  <2> QED
    BY <2>1, <2>2
<1>9. ASSUME NEW s \in Sessions, Stored(s) PROVE ReservedIsNew'
  <2> SUFFICES ASSUME NEW t \in Sessions PROVE Fresh(t)'
    BY DEF ReservedIsNew
  <2>1. CASE t = s
    BY <1>9, <2>1, StoredStep DEF ReservedIsNew, Fresh, Reserving, sessionVars, turnVars,
       modeVars, idVars
  <2>2. CASE t # s
    BY <1>9, <2>2, StoredStep DEF ReservedIsNew, Fresh, Reserving, sessionVars, turnVars,
       modeVars, idVars
  <2> QED
    BY <2>1, <2>2
<1>10. ASSUME StopRunning PROVE ReservedIsNew'
  BY <1>10 DEF StopRunning, TypeOK, ReservedIsNew, Fresh, Reserving, sessionVars, turnVars,
     modeVars, idVars
<1>11. ASSUME Send PROVE ReservedIsNew'
  <2> SUFFICES ASSUME NEW t \in Sessions PROVE Fresh(t)'
    BY DEF ReservedIsNew
  <2>1. CASE t = cmd.session
    BY <1>11, <2>1, LastIsNat DEF Send, TypeOK, ReservedIsNew, Fresh, Reserving, IdsIssued,
       Issued, sessionVars, turnVars, modeVars, idVars
  <2>2. CASE t # cmd.session
    BY <1>11, <2>2, LastIsNat DEF Send, TypeOK, ReservedIsNew, Fresh, Reserving, IdsIssued,
       Issued, sessionVars, turnVars, modeVars, idVars
  <2> QED
    BY <2>1, <2>2
<1>12. ASSUME Reprepare PROVE ReservedIsNew'
  <2> SUFFICES ASSUME NEW t \in Sessions PROVE Fresh(t)'
    BY DEF ReservedIsNew
  <2>1. CASE t = cmd.session
    BY <1>12, <2>1, ReprepareStep, LastIsNat DEF ReservedIsNew, Fresh, Reserving, IdsIssued,
       Issued, sessionVars, turnVars, modeVars, idVars
  <2>2. CASE t # cmd.session
    BY <1>12, <2>2, ReprepareStep, LastIsNat DEF ReservedIsNew, Fresh, Reserving, IdsIssued,
       Issued, sessionVars, turnVars, modeVars, idVars
  <2> QED
    BY <2>1, <2>2
<1>13. ASSUME Prepared PROVE ReservedIsNew'
  <2> SUFFICES ASSUME NEW t \in Sessions PROVE Fresh(t)'
    BY DEF ReservedIsNew
  <2>1. CASE t = cmd.session
    BY <1>13, <2>1, PreparedStep DEF Moved, Gone, ActiveElsewhere, ReservedIsNew, Fresh,
       Reserving, sessionVars, turnVars, modeVars, idVars
  <2>2. CASE t # cmd.session
    BY <1>13, <2>2, PreparedStep DEF Moved, Gone, ActiveElsewhere, ReservedIsNew, Fresh,
       Reserving, sessionVars, turnVars, modeVars, idVars
  <2> QED
    BY <2>1, <2>2
<1>14. ASSUME GoalsRead PROVE ReservedIsNew'
  <2> SUFFICES ASSUME NEW t \in Sessions PROVE Fresh(t)'
    BY DEF ReservedIsNew
  <2>1. CASE t = cmd.session
    BY <1>14, <2>1, GoalsReadStep DEF PlanningIdle, Moved, Gone, ActiveElsewhere,
       ReservedIsNew, Fresh, Reserving, sessionVars, turnVars, modeVars, idVars
  <2>2. CASE t # cmd.session
    BY <1>14, <2>2, GoalsReadStep DEF PlanningIdle, Moved, Gone, ActiveElsewhere,
       ReservedIsNew, Fresh, Reserving, sessionVars, turnVars, modeVars, idVars
  <2> QED
    BY <2>1, <2>2
<1>15. ASSUME Saved PROVE ReservedIsNew'
  <2> SUFFICES ASSUME NEW t \in Sessions PROVE Fresh(t)'
    BY DEF ReservedIsNew
  <2>1. CASE t = cmd.session
    BY <1>15, <2>1, SavedStep DEF Moved, Gone, ActiveElsewhere, ReservedIsNew, Fresh,
       Reserving, sessionVars, turnVars, modeVars, idVars
  <2>2. CASE t # cmd.session
    BY <1>15, <2>2, SavedStep DEF Moved, Gone, ActiveElsewhere, ReservedIsNew, Fresh,
       Reserving, sessionVars, turnVars, modeVars, idVars
  <2> QED
    BY <2>1, <2>2
<1>16. ASSUME SaveFails PROVE ReservedIsNew'
  BY <1>16 DEF SaveFails, TypeOK, ReservedIsNew, Fresh, Reserving, sessionVars, turnVars,
     modeVars, idVars
<1>17. ASSUME ExecuteRefused \/ ExecuteFails PROVE ReservedIsNew'
  <2> SUFFICES ASSUME NEW t \in Sessions PROVE Fresh(t)'
    BY DEF ReservedIsNew
  <2>1. CASE t = cmd.session
    BY <1>17, <2>1, FailureStep DEF Moved, Gone, ActiveElsewhere, ReservedIsNew, Fresh,
       Reserving, sessionVars, turnVars, modeVars, idVars
  <2>2. CASE t # cmd.session
    BY <1>17, <2>2, FailureStep DEF Moved, Gone, ActiveElsewhere, ReservedIsNew, Fresh,
       Reserving, sessionVars, turnVars, modeVars, idVars
  <2> QED
    BY <2>1, <2>2
<1>18. ASSUME Execute PROVE ReservedIsNew'
  <2> SUFFICES ASSUME NEW t \in Sessions PROVE Fresh(t)'
    BY DEF ReservedIsNew
  <2>1. CASE t = cmd.session
    BY <1>18, <2>1, ExecuteStep DEF Moved, Gone, ActiveElsewhere, ReservedIsNew, Fresh,
       Reserving, sessionVars, turnVars, modeVars, idVars
  <2>2. CASE t # cmd.session
    BY <1>18, <2>2, ExecuteStep DEF Moved, Gone, ActiveElsewhere, ReservedIsNew, Fresh,
       Reserving, sessionVars, turnVars, modeVars, idVars
  <2> QED
    BY <2>1, <2>2
<1>19. ASSUME TurnStarts PROVE ReservedIsNew'
  <2> SUFFICES ASSUME NEW t \in Sessions PROVE Fresh(t)'
    BY DEF ReservedIsNew
  <2>1. CASE t = cmd.session
    BY <1>19, <2>1, StartStep DEF Moved, Gone, ActiveElsewhere, ReservedIsNew, Fresh,
       Reserving, sessionVars, turnVars, modeVars, idVars
  <2>2. CASE t # cmd.session
    BY <1>19, <2>2, StartStep DEF Moved, Gone, ActiveElsewhere, ReservedIsNew, Fresh,
       Reserving, sessionVars, turnVars, modeVars, idVars
  <2> QED
    BY <2>1, <2>2
<1>20. ASSUME Returned PROVE ReservedIsNew'
  BY <1>20 DEF Returned, TypeOK, ReservedIsNew, Fresh, Reserving, sessionVars, turnVars,
     modeVars, idVars
<1>21. ASSUME ModeStep PROVE ReservedIsNew'
  BY <1>21, ModeSteps DEF Moved, Gone, ActiveElsewhere, ReservedIsNew, Fresh, Reserving,
     sessionVars, turnVars, modeVars, idVars
<1>22. CASE UNCHANGED vars
  BY <1>22 DEF vars, ReservedIsNew, Fresh, Reserving
<1> QED
  BY <1>1, <1>2, <1>3, <1>4, <1>5, <1>6, <1>7, <1>8, <1>9, <1>10, <1>11, <1>12, <1>13,
     <1>14, <1>15, <1>16, <1>17, <1>18, <1>19, <1>20, <1>21, <1>22 DEF Next, Submission,
     Ends, ModeStep

\* What has ended does not come back.
LEMMA EndsPreserved ==
    ASSUME TypeOK, TypeOK', IdsIssued, CommandIssued, OpenIsLive, NewIsBlank,
           SubmissionAlone, SendTargets, AdoptionAlone, EndsAreOver, ReservedIsNew,
           [Next]_vars
    PROVE  EndsAreOver'
<1> USE TurnConstants DEF None, NoCommand, NoAdmission, Held, Adopting
<1>1. ASSUME NEW s \in Sessions, Publish(s) PROVE EndsAreOver'
  BY <1>1 DEF Publish, TypeOK, EndsAreOver, Over, IsOver, Reserving, NewIsBlank, Blank,
     sessionVars, turnVars, modeVars, idVars
<1>2. ASSUME NEW s \in Sessions, Ends(s) PROVE EndsAreOver'
  <2>1. CASE turn[s] = None
    BY <1>2, <2>1, EndsStep DEF EndsAreOver, Over, IsOver, Reserving, sessionVars, turnVars,
       modeVars, idVars
  <2>2. CASE turn[s] # None
    <3>0. s \in Sessions /\ Queued(s, "ended", turn[s])
      BY <1>2, <2>2, EndsStep, QueueGrows
    <3> SUFFICES ASSUME NEW t \in Sessions, up'[t] = "open", NEW i \in 1 .. Len(signals'[t]),
                        signals'[t][i][1] = "ended", NEW op, op = signals'[t][i][2]
                 PROVE  IsOver(t, op)'
      BY DEF EndsAreOver, Over
    <3>1. Over(t) /\ Fresh(t)
      BY DEF EndsAreOver, ReservedIsNew
    <3>2. CASE i \in 1 .. Len(signals[t]) /\ signals'[t][i] = signals[t][i]
      <4>1. up[t] = "open" /\ cmd' = cmd
        BY <1>2, EndsStep
      <4>2. IsOver(t, op) /\ op # None
        BY <3>1, <3>2, <4>1, LastIsNat DEF Over, IdsIssued, Issued
      <4>3. turn'[t] \in {None, turn[t]} /\ (native'[t].at = "admitted" => native'[t] = native[t])
        BY <1>2, EndsStep
      <4> QED
        BY <4>1, <4>2, <4>3 DEF IsOver, Reserving
    <3>3. CASE t = s /\ i = Len(signals[t]) + 1 /\ signals'[t][i][1] = "ended" /\ signals'[t][i][2] = turn[s]
      BY <1>2, <2>2, <3>1, <3>3, EndsStep DEF Fresh, IsOver, Reserving, sessionVars
    <3> QED
      BY <1>2, <2>2, <3>0, <3>2, <3>3, EndsStep DEF Queued
  <2> QED
    BY <2>1, <2>2
<1>3. ASSUME NEW s \in Sessions, Retire(s) PROVE EndsAreOver'
  <2> SUFFICES ASSUME NEW t \in Sessions, up'[t] = "open", NEW i \in 1 .. Len(signals'[t]),
                      signals'[t][i][1] = "ended", NEW op, op = signals'[t][i][2]
               PROVE  IsOver(t, op)'
    BY DEF EndsAreOver, Over
  <2>1. Over(t)
    BY DEF EndsAreOver
  <2>2. i \in 1 .. Len(signals[t]) /\ signals'[t] = signals[t] /\ up[t] = "open"
    BY <1>3 DEF sessionVars, turnVars, Retire, TypeOK
  <2>3. IsOver(t, op)
    BY <2>1, <2>2 DEF Over
  <2> QED
    BY <1>3, <2>3 DEF IsOver, Reserving, SendTargets, Moved, Gone, turnVars, Retire, TypeOK
<1>4. ASSUME NEW s \in Sessions, Read(s) PROVE EndsAreOver'
  <2> SUFFICES ASSUME NEW t \in Sessions, up'[t] = "open", NEW i \in 1 .. Len(signals'[t]),
                      signals'[t][i][1] = "ended", NEW op, op = signals'[t][i][2]
               PROVE  IsOver(t, op)'
    BY DEF EndsAreOver, Over
  <2>1. Over(t)
    BY DEF EndsAreOver
  <2>2. PICK j \in 1 .. Len(signals[t]) : signals'[t][i] = signals[t][j]
    BY <1>4, ReadStep
  <2>3. IsOver(t, op)
    BY <1>4, <2>1, <2>2, ReadStep DEF Over, sessionVars
  <2> QED
    BY <1>4, <2>3, ReadStep DEF IsOver, Reserving
<1>5. ASSUME NEW s \in Sessions, NativeTurn(s) PROVE EndsAreOver'
  <2> SUFFICES ASSUME NEW t \in Sessions, up'[t] = "open", NEW i \in 1 .. Len(signals'[t]),
                      signals'[t][i][1] = "ended", NEW op, op = signals'[t][i][2]
               PROVE  IsOver(t, op)'
    BY DEF EndsAreOver, Over
  <2>1. Over(t)
    BY DEF EndsAreOver
  <2>2. i \in 1 .. Len(signals[t]) /\ signals'[t] = signals[t] /\ up[t] = "open"
    BY <1>5, OfferStep DEF sessionVars, turnVars
  <2>3. IsOver(t, op)
    BY <2>1, <2>2 DEF Over
  <2> QED
    BY <1>5, OfferStep, <2>3 DEF IsOver, Reserving, SendTargets, Moved, Gone, turnVars
<1>6. ASSUME NEW s \in Sessions, Admitted(s) PROVE EndsAreOver'
  <2> SUFFICES ASSUME NEW t \in Sessions, up'[t] = "open", NEW i \in 1 .. Len(signals'[t]),
                      signals'[t][i][1] = "ended", NEW op, op = signals'[t][i][2]
               PROVE  IsOver(t, op)'
    BY DEF EndsAreOver, Over
  <2>1. Over(t) /\ Issued(t)
    BY DEF EndsAreOver, IdsIssued
  <2>2. i \in 1 .. Len(signals[t]) /\ signals'[t] = signals[t] /\ up[t] = "open" /\ turn'[t] = turn[t]
    BY <1>6, AdmittedStep DEF sessionVars, turnVars
  <2>3. IsOver(t, op) /\ op # last + 1
    BY <2>1, <2>2, LastIsNat DEF Over, Issued
  <2> QED
    BY <1>6, AdmittedStep, <2>2, <2>3 DEF IsOver, Reserving, turnVars
<1>7. ASSUME NEW s \in Sessions, Denied(s) PROVE EndsAreOver'
  <2> SUFFICES ASSUME NEW t \in Sessions, up'[t] = "open", NEW i \in 1 .. Len(signals'[t]),
                      signals'[t][i][1] = "ended", NEW op, op = signals'[t][i][2]
               PROVE  IsOver(t, op)'
    BY DEF EndsAreOver, Over
  <2>1. Over(t)
    BY DEF EndsAreOver
  <2>2. i \in 1 .. Len(signals[t]) /\ signals'[t] = signals[t] /\ up[t] = "open"
    BY <1>7 DEF sessionVars, turnVars, Denied, TypeOK
  <2>3. IsOver(t, op)
    BY <2>1, <2>2 DEF Over
  <2> QED
    BY <1>7, <2>3 DEF IsOver, Reserving, SendTargets, Moved, Gone, turnVars, Denied, TypeOK
<1>8. ASSUME NEW s \in Sessions, Adopt(s) PROVE EndsAreOver'
  <2> SUFFICES ASSUME NEW t \in Sessions, up'[t] = "open", NEW i \in 1 .. Len(signals'[t]),
                      signals'[t][i][1] = "ended", NEW op, op = signals'[t][i][2]
               PROVE  IsOver(t, op)'
    BY DEF EndsAreOver, Over
  <2>1. Over(t)
    BY DEF EndsAreOver
  <2>2. i \in 1 .. Len(signals[t]) /\ signals'[t] = signals[t] /\ up[t] = "open"
    BY <1>8, AdoptStep DEF sessionVars, turnVars
  <2>3. IsOver(t, op)
    BY <2>1, <2>2 DEF Over
  <2> QED
    BY <1>8, AdoptStep, <2>3 DEF IsOver, Reserving, SendTargets, Moved, Gone, turnVars
<1>9. ASSUME NEW s \in Sessions, Stored(s) PROVE EndsAreOver'
  <2>0. s \in Sessions /\ Queued(s, "started", native[s].op)
    BY <1>9, StoredStep, QueueGrows
  <2> SUFFICES ASSUME NEW t \in Sessions, up'[t] = "open", NEW i \in 1 .. Len(signals'[t]),
                      signals'[t][i][1] = "ended", NEW op, op = signals'[t][i][2]
               PROVE  IsOver(t, op)'
    BY DEF EndsAreOver, Over
  <2>1. Over(t) /\ Fresh(t)
    BY DEF EndsAreOver, ReservedIsNew
  <2>2. CASE i \in 1 .. Len(signals[t]) /\ signals'[t][i] = signals[t][i]
    BY <1>9, <2>1, <2>2, StoredStep DEF Over, IsOver, Reserving, SendTargets, Moved, Held,
       sessionVars
  <2>3. CASE t = s /\ i = Len(signals[t]) + 1 /\ signals'[t][i][1] = "started" /\ signals'[t][i][2] = native[s].op
    BY <1>9, <2>1, <2>3, StoredStep DEF Fresh, IsOver, Reserving, sessionVars
  <2> QED
    BY <1>9, <2>0, <2>2, <2>3, StoredStep DEF Queued
<1>10. ASSUME StopRunning PROVE EndsAreOver'
  <2> SUFFICES ASSUME NEW t \in Sessions, up'[t] = "open", NEW i \in 1 .. Len(signals'[t]),
                      signals'[t][i][1] = "ended", NEW op, op = signals'[t][i][2]
               PROVE  IsOver(t, op)'
    BY DEF EndsAreOver, Over
  <2>1. Over(t)
    BY DEF EndsAreOver
  <2>2. i \in 1 .. Len(signals[t]) /\ signals'[t] = signals[t] /\ up[t] = "open"
    BY <1>10 DEF sessionVars, turnVars, StopRunning, TypeOK
  <2>3. IsOver(t, op)
    BY <2>1, <2>2 DEF Over
  <2> QED
    BY <1>10, <2>3 DEF IsOver, Reserving, SendTargets, Moved, Gone, turnVars, StopRunning,
       TypeOK
<1>11. ASSUME Send PROVE EndsAreOver'
  <2> SUFFICES ASSUME NEW t \in Sessions, up'[t] = "open", NEW i \in 1 .. Len(signals'[t]),
                      signals'[t][i][1] = "ended", NEW op, op = signals'[t][i][2]
               PROVE  IsOver(t, op)'
    BY DEF EndsAreOver, Over
  <2>1. Over(t) /\ Issued(t)
    BY DEF EndsAreOver, IdsIssued
  <2>2. i \in 1 .. Len(signals[t]) /\ signals'[t] = signals[t] /\ up[t] = "open" /\ turn'[t] = turn[t]
    BY <1>11 DEF sessionVars, turnVars, Send
  <2>3. IsOver(t, op) /\ op # last + 1
    BY <2>1, <2>2, LastIsNat DEF Over, Issued
  <2> QED
    BY <1>11, <2>2, <2>3 DEF IsOver, Reserving, turnVars, Send
<1>12. ASSUME Reprepare PROVE EndsAreOver'
  <2> SUFFICES ASSUME NEW t \in Sessions, up'[t] = "open", NEW i \in 1 .. Len(signals'[t]),
                      signals'[t][i][1] = "ended", NEW op, op = signals'[t][i][2]
               PROVE  IsOver(t, op)'
    BY DEF EndsAreOver, Over
  <2>1. Over(t) /\ Issued(t)
    BY DEF EndsAreOver, IdsIssued
  <2>2. i \in 1 .. Len(signals[t]) /\ signals'[t] = signals[t] /\ up[t] = "open" /\ turn'[t] = turn[t]
    BY <1>12, ReprepareStep DEF sessionVars, turnVars
  <2>3. IsOver(t, op) /\ op # last + 1
    BY <2>1, <2>2, LastIsNat DEF Over, Issued
  <2> QED
    BY <1>12, ReprepareStep, <2>2, <2>3 DEF IsOver, Reserving, turnVars
<1>13. ASSUME Prepared PROVE EndsAreOver'
  <2> SUFFICES ASSUME NEW t \in Sessions, up'[t] = "open", NEW i \in 1 .. Len(signals'[t]),
                      signals'[t][i][1] = "ended", NEW op, op = signals'[t][i][2]
               PROVE  IsOver(t, op)'
    BY DEF EndsAreOver, Over
  <2>1. Over(t)
    BY DEF EndsAreOver
  <2>2. i \in 1 .. Len(signals[t]) /\ signals'[t] = signals[t] /\ up[t] = "open"
    BY <1>13, PreparedStep DEF sessionVars, turnVars
  <2>3. IsOver(t, op)
    BY <2>1, <2>2 DEF Over
  <2> QED
    BY <1>13, PreparedStep, <2>3 DEF IsOver, Reserving, SendTargets, Moved, Gone, turnVars
<1>14. ASSUME GoalsRead PROVE EndsAreOver'
  <2> SUFFICES ASSUME NEW t \in Sessions, up'[t] = "open", NEW i \in 1 .. Len(signals'[t]),
                      signals'[t][i][1] = "ended", NEW op, op = signals'[t][i][2]
               PROVE  IsOver(t, op)'
    BY DEF EndsAreOver, Over
  <2>1. Over(t)
    BY DEF EndsAreOver
  <2>2. i \in 1 .. Len(signals[t]) /\ signals'[t] = signals[t] /\ up[t] = "open"
    BY <1>14, GoalsReadStep DEF sessionVars, turnVars
  <2>3. IsOver(t, op)
    BY <2>1, <2>2 DEF Over
  <2> QED
    BY <1>14, GoalsReadStep, <2>3 DEF IsOver, Reserving, SendTargets, Moved, Gone, turnVars
<1>15. ASSUME Saved PROVE EndsAreOver'
  <2> SUFFICES ASSUME NEW t \in Sessions, up'[t] = "open", NEW i \in 1 .. Len(signals'[t]),
                      signals'[t][i][1] = "ended", NEW op, op = signals'[t][i][2]
               PROVE  IsOver(t, op)'
    BY DEF EndsAreOver, Over
  <2>1. Over(t)
    BY DEF EndsAreOver
  <2>2. i \in 1 .. Len(signals[t]) /\ signals'[t] = signals[t] /\ up[t] = "open"
    BY <1>15, SavedStep DEF sessionVars, turnVars
  <2>3. IsOver(t, op)
    BY <2>1, <2>2 DEF Over
  <2> QED
    BY <1>15, SavedStep, <2>3 DEF IsOver, Reserving, SendTargets, Moved, Gone, turnVars
<1>16. ASSUME SaveFails PROVE EndsAreOver'
  <2> SUFFICES ASSUME NEW t \in Sessions, up'[t] = "open", NEW i \in 1 .. Len(signals'[t]),
                      signals'[t][i][1] = "ended", NEW op, op = signals'[t][i][2]
               PROVE  IsOver(t, op)'
    BY DEF EndsAreOver, Over
  <2>1. Over(t)
    BY DEF EndsAreOver
  <2>2. i \in 1 .. Len(signals[t]) /\ signals'[t] = signals[t] /\ up[t] = "open"
    BY <1>16 DEF sessionVars, turnVars, SaveFails, TypeOK
  <2>3. IsOver(t, op)
    BY <2>1, <2>2 DEF Over
  <2> QED
    BY <1>16, <2>3 DEF IsOver, Reserving, SendTargets, Moved, Gone, turnVars, SaveFails, TypeOK
<1>17. ASSUME ExecuteRefused \/ ExecuteFails PROVE EndsAreOver'
  <2> SUFFICES ASSUME NEW t \in Sessions, up'[t] = "open", NEW i \in 1 .. Len(signals'[t]),
                      signals'[t][i][1] = "ended", NEW op, op = signals'[t][i][2]
               PROVE  IsOver(t, op)'
    BY DEF EndsAreOver, Over
  <2>1. Over(t)
    BY DEF EndsAreOver
  <2>2. i \in 1 .. Len(signals[t]) /\ signals'[t] = signals[t] /\ up[t] = "open"
    BY <1>17, FailureStep DEF sessionVars, turnVars
  <2>3. IsOver(t, op)
    BY <2>1, <2>2 DEF Over
  <2> QED
    BY <1>17, FailureStep, <2>3 DEF IsOver, Reserving, SendTargets, Moved, Gone, turnVars
<1>18. ASSUME Execute PROVE EndsAreOver'
  <2> SUFFICES ASSUME NEW t \in Sessions, up'[t] = "open", NEW i \in 1 .. Len(signals'[t]),
                      signals'[t][i][1] = "ended", NEW op, op = signals'[t][i][2]
               PROVE  IsOver(t, op)'
    BY DEF EndsAreOver, Over
  <2>1. Over(t)
    BY DEF EndsAreOver
  <2>2. i \in 1 .. Len(signals[t]) /\ signals'[t] = signals[t] /\ up[t] = "open"
    BY <1>18, ExecuteStep DEF sessionVars, turnVars
  <2>3. IsOver(t, op)
    BY <2>1, <2>2 DEF Over
  <2> QED
    BY <1>18, ExecuteStep, <2>3 DEF IsOver, Reserving, SendTargets, Moved, Gone, turnVars
<1>19. ASSUME TurnStarts PROVE EndsAreOver'
  <2>0. cmd.session \in Sessions /\ Queued(cmd.session, "started", cmd.op)
    BY <1>19, StartStep, QueueGrows
  <2> SUFFICES ASSUME NEW t \in Sessions, up'[t] = "open", NEW i \in 1 .. Len(signals'[t]),
                      signals'[t][i][1] = "ended", NEW op, op = signals'[t][i][2]
               PROVE  IsOver(t, op)'
    BY DEF EndsAreOver, Over
  <2>1. Over(t) /\ Fresh(t)
    BY DEF EndsAreOver, ReservedIsNew
  <2>2. CASE i \in 1 .. Len(signals[t]) /\ signals'[t][i] = signals[t][i]
    BY <1>19, <2>1, <2>2, StartStep DEF Over, IsOver, Reserving, SendTargets, Moved, Held,
       sessionVars
  <2>3. CASE t = cmd.session /\ i = Len(signals[t]) + 1 /\ signals'[t][i][1] = "started" /\ signals'[t][i][2] = cmd.op
    BY <1>19, <2>1, <2>3, StartStep DEF Fresh, IsOver, Reserving, sessionVars
  <2> QED
    BY <1>19, <2>0, <2>2, <2>3, StartStep DEF Queued
<1>20. ASSUME Returned PROVE EndsAreOver'
  <2> SUFFICES ASSUME NEW t \in Sessions, up'[t] = "open", NEW i \in 1 .. Len(signals'[t]),
                      signals'[t][i][1] = "ended", NEW op, op = signals'[t][i][2]
               PROVE  IsOver(t, op)'
    BY DEF EndsAreOver, Over
  <2>1. Over(t)
    BY DEF EndsAreOver
  <2>2. i \in 1 .. Len(signals[t]) /\ signals'[t] = signals[t] /\ up[t] = "open"
    BY <1>20 DEF sessionVars, turnVars, Returned, TypeOK
  <2>3. IsOver(t, op)
    BY <2>1, <2>2 DEF Over
  <2> QED
    BY <1>20, <2>3 DEF IsOver, Reserving, SendTargets, Moved, Gone, turnVars, Returned, TypeOK
<1>21. ASSUME ModeStep PROVE EndsAreOver'
  <2> SUFFICES ASSUME NEW t \in Sessions, up'[t] = "open", NEW i \in 1 .. Len(signals'[t]),
                      signals'[t][i][1] = "ended", NEW op, op = signals'[t][i][2]
               PROVE  IsOver(t, op)'
    BY DEF EndsAreOver, Over
  <2>1. Over(t)
    BY DEF EndsAreOver
  <2>2. i \in 1 .. Len(signals[t]) /\ signals'[t] = signals[t] /\ up[t] = "open"
    BY <1>21, ModeSteps DEF sessionVars, turnVars
  <2>3. IsOver(t, op)
    BY <2>1, <2>2 DEF Over
  <2> QED
    BY <1>21, ModeSteps, <2>3 DEF IsOver, Reserving, SendTargets, Moved, Gone, turnVars
<1>22. CASE UNCHANGED vars
  BY <1>22 DEF vars, EndsAreOver, Over, IsOver, Reserving
<1> QED
  BY <1>1, <1>2, <1>3, <1>4, <1>5, <1>6, <1>7, <1>8, <1>9, <1>10, <1>11, <1>12, <1>13,
     <1>14, <1>15, <1>16, <1>17, <1>18, <1>19, <1>20, <1>21, <1>22 DEF Next, Submission,
     Ends, ModeStep

\* A start to be read is that of the running turn, or its end follows.
LEMMA StartsPreserved ==
    ASSUME TypeOK, TypeOK', OpenIsLive, NewIsBlank, SubmissionAlone, SendTargets,
           AdoptionAlone, StartsAreTold, [Next]_vars
    PROVE  StartsAreTold'
<1> USE TurnConstants DEF None, NoCommand, NoAdmission, Held, Adopting
<1>1. ASSUME NEW s \in Sessions, Publish(s) PROVE StartsAreTold'
  <2> SUFFICES ASSUME NEW t \in Sessions PROVE Told(t)'
    BY DEF StartsAreTold
  <2>1. CASE t = s
    BY <1>1, <2>1 DEF Publish, NewIsBlank, Blank, Told, turnVars
  <2>2. CASE t # s
    <3>1. up'[t] = up[t] /\ turn' = turn /\ signals' = signals
      BY <1>1, <2>2 DEF Publish, turnVars, TypeOK
    <3> QED
      BY <3>1 DEF StartsAreTold, Told
  <2> QED
    BY <2>1, <2>2
<1>2. ASSUME NEW s \in Sessions, Ends(s) PROVE StartsAreTold'
  <2>1. CASE turn[s] = None
    <3> SUFFICES ASSUME NEW t \in Sessions, up'[t] = "open", NEW i \in 1 .. Len(signals'[t]),
                        NEW op \in Ops, signals'[t][i] = <<"started", op>>
                 PROVE  \/ turn'[t] = op
                        \/ \E j \in i + 1 .. Len(signals'[t]) : signals'[t][j] = <<"ended", op>>
      BY DEF StartsAreTold, Told
    <3>1. Told(t)
      BY DEF StartsAreTold
    <3>2. signals'[t] = signals[t] /\ up[t] = "open" /\ turn'[t] = turn[t]
      BY <1>2, <2>1, EndsStep 
    <3> QED
      BY <3>1, <3>2 DEF Told
  <2>2. CASE turn[s] # None
    <3>0. s \in Sessions /\ Queued(s, "ended", turn[s])
      BY <1>2, <2>2, EndsStep, QueueGrows
    <3> SUFFICES ASSUME NEW t \in Sessions, up'[t] = "open", NEW i \in 1 .. Len(signals'[t]),
                        NEW op \in Ops, signals'[t][i] = <<"started", op>>
                 PROVE  \/ turn'[t] = op
                        \/ \E j \in i + 1 .. Len(signals'[t]) : signals'[t][j] = <<"ended", op>>
      BY DEF StartsAreTold, Told
    <3>1. Told(t) /\ up[t] = "open" /\ Len(signals[t]) \in Nat
      BY <1>2, <2>2, EndsStep DEF StartsAreTold, sessionVars, TypeOK
    <3>2. CASE t # s
      <4>1. signals'[t] = signals[t] /\ turn'[t] = turn[t]
        BY <1>2, <2>2, <3>2, EndsStep
      <4> QED
        BY <3>1, <4>1 DEF Told
    <3>3. CASE t = s /\ i \in 1 .. Len(signals[t]) /\ signals'[t][i] = signals[t][i]
      <4>1. op # None
        BY DEF Ops
      <4>2. CASE turn[t] = op
        <5>1. /\ turn[t] = op /\ Len(signals'[t]) \in i + 1 .. Len(signals'[t])
              /\ Len(signals'[t]) \in 1 .. Len(signals'[t]) /\ Len(signals'[t]) # Len(signals[t])
          BY <3>0, <3>1, <3>3, <4>2 DEF Queued
        <5>2. signals'[t][Len(signals'[t])] = <<"ended", turn[s]>>
          BY <3>0, <3>1, <3>3, <5>1 DEF Queued
        <5> QED
          BY <3>3, <5>1, <5>2
      <4>3. CASE turn[t] # op
        <5>1. PICK j \in i + 1 .. Len(signals[t]) : signals[t][j] = <<"ended", op>>
          BY <3>1, <3>3, <4>3 DEF Told
        <5>2. j \in i + 1 .. Len(signals'[t]) /\ j \in 1 .. Len(signals'[t]) /\ j # Len(signals[t]) + 1
          BY <3>0, <3>1, <3>3 DEF Queued
        <5>3. signals'[t][j] = signals[t][j]
          BY <3>0, <3>3, <5>2 DEF Queued
        <5> QED
          BY <5>1, <5>2, <5>3
      <4> QED
        BY <4>2, <4>3
    <3>4. CASE t = s /\ i = Len(signals[t]) + 1 /\ signals'[t][i][1] = "ended" /\ signals'[t][i][2] = turn[s]
      <4>1. "ended" = "started" /\ turn[s] = op
        BY <3>4
      <4> QED
        BY <4>1
    <3> QED
      BY <3>0, <3>2, <3>3, <3>4 DEF Queued
  <2> QED
    BY <2>1, <2>2
<1>3. ASSUME NEW s \in Sessions, Retire(s) PROVE StartsAreTold'
  <2> SUFFICES ASSUME NEW t \in Sessions, up'[t] = "open", NEW i \in 1 .. Len(signals'[t]),
                      NEW op \in Ops, signals'[t][i] = <<"started", op>>
               PROVE  \/ turn'[t] = op
                      \/ \E j \in i + 1 .. Len(signals'[t]) : signals'[t][j] = <<"ended", op>>
    BY DEF StartsAreTold, Told
  <2>1. Told(t)
    BY DEF StartsAreTold
  <2>2. signals'[t] = signals[t] /\ up[t] = "open" /\ turn'[t] = turn[t]
    BY <1>3 DEF sessionVars, turnVars, Retire, TypeOK
  <2> QED
    BY <2>1, <2>2 DEF Told
<1>4. ASSUME NEW s \in Sessions, Read(s) PROVE StartsAreTold'
  <2> SUFFICES ASSUME NEW t \in Sessions, up'[t] = "open", NEW i \in 1 .. Len(signals'[t]),
                      NEW op \in Ops, signals'[t][i] = <<"started", op>>
               PROVE  \/ turn'[t] = op
                      \/ \E j \in i + 1 .. Len(signals'[t]) : signals'[t][j] = <<"ended", op>>
    BY DEF StartsAreTold, Told
  <2>1. Told(t) /\ up[t] = "open" /\ turn'[t] = turn[t] /\ Len(signals[t]) \in Nat
    BY <1>4, ReadStep DEF StartsAreTold, sessionVars, TypeOK
  <2>2. CASE t = s
    <3>1. /\ i + 1 \in 1 .. Len(signals[s]) /\ signals'[s][i] = signals[s][i + 1]
          /\ Len(signals'[s]) = Len(signals[s]) - 1
      BY <1>4, <2>2, ReadStep
    <3>2. ASSUME turn[s] # op
          PROVE  \E j \in i + 2 .. Len(signals[s]) : signals[s][j] = <<"ended", op>>
      <4>1. turn[s] = op \/ \E j \in (i + 1) + 1 .. Len(signals[s]) : signals[s][j] = <<"ended", op>>
        BY <2>1, <2>2, <3>1 DEF Told
      <4>2. (i + 1) + 1 = i + 2
        BY <2>1, <2>2
      <4> QED
        BY <3>2, <4>1, <4>2
    <3>3. ASSUME NEW j \in i + 2 .. Len(signals[s]), signals[s][j] = <<"ended", op>>
          PROVE  \E k \in i + 1 .. Len(signals'[s]) : signals'[s][k] = <<"ended", op>>
      <4>1. j - 1 \in i + 1 .. Len(signals'[s]) /\ j - 1 \in 1 .. Len(signals'[s]) /\ (j - 1) + 1 = j
        BY <2>1, <2>2, <3>1
      <4>2. signals'[s][j - 1] = signals[s][j]
        BY <1>4, <4>1, ReadStep
      <4> QED
        BY <3>3, <4>1, <4>2
    <3> QED
      BY <2>1, <2>2, <3>2, <3>3
  <2>3. CASE t # s
    <3>1. signals'[t] = signals[t]
      BY <1>4, <2>3, ReadStep
    <3> QED
      BY <2>1, <3>1 DEF Told
  <2> QED
    BY <2>2, <2>3
<1>5. ASSUME NEW s \in Sessions, NativeTurn(s) PROVE StartsAreTold'
  <2> SUFFICES ASSUME NEW t \in Sessions, up'[t] = "open", NEW i \in 1 .. Len(signals'[t]),
                      NEW op \in Ops, signals'[t][i] = <<"started", op>>
               PROVE  \/ turn'[t] = op
                      \/ \E j \in i + 1 .. Len(signals'[t]) : signals'[t][j] = <<"ended", op>>
    BY DEF StartsAreTold, Told
  <2>1. Told(t)
    BY DEF StartsAreTold
  <2>2. signals'[t] = signals[t] /\ up[t] = "open" /\ turn'[t] = turn[t]
    BY <1>5, OfferStep DEF sessionVars, turnVars
  <2> QED
    BY <2>1, <2>2 DEF Told
<1>6. ASSUME NEW s \in Sessions, Admitted(s) PROVE StartsAreTold'
  <2> SUFFICES ASSUME NEW t \in Sessions, up'[t] = "open", NEW i \in 1 .. Len(signals'[t]),
                      NEW op \in Ops, signals'[t][i] = <<"started", op>>
               PROVE  \/ turn'[t] = op
                      \/ \E j \in i + 1 .. Len(signals'[t]) : signals'[t][j] = <<"ended", op>>
    BY DEF StartsAreTold, Told
  <2>1. Told(t)
    BY DEF StartsAreTold
  <2>2. signals'[t] = signals[t] /\ up[t] = "open" /\ turn'[t] = turn[t]
    BY <1>6, AdmittedStep DEF sessionVars, turnVars
  <2> QED
    BY <2>1, <2>2 DEF Told
<1>7. ASSUME NEW s \in Sessions, Denied(s) PROVE StartsAreTold'
  <2> SUFFICES ASSUME NEW t \in Sessions, up'[t] = "open", NEW i \in 1 .. Len(signals'[t]),
                      NEW op \in Ops, signals'[t][i] = <<"started", op>>
               PROVE  \/ turn'[t] = op
                      \/ \E j \in i + 1 .. Len(signals'[t]) : signals'[t][j] = <<"ended", op>>
    BY DEF StartsAreTold, Told
  <2>1. Told(t)
    BY DEF StartsAreTold
  <2>2. signals'[t] = signals[t] /\ up[t] = "open" /\ turn'[t] = turn[t]
    BY <1>7 DEF sessionVars, turnVars, Denied, TypeOK
  <2> QED
    BY <2>1, <2>2 DEF Told
<1>8. ASSUME NEW s \in Sessions, Adopt(s) PROVE StartsAreTold'
  <2> SUFFICES ASSUME NEW t \in Sessions, up'[t] = "open", NEW i \in 1 .. Len(signals'[t]),
                      NEW op \in Ops, signals'[t][i] = <<"started", op>>
               PROVE  \/ turn'[t] = op
                      \/ \E j \in i + 1 .. Len(signals'[t]) : signals'[t][j] = <<"ended", op>>
    BY DEF StartsAreTold, Told
  <2>1. Told(t) /\ up[t] = "open" /\ signals'[t] = signals[t] /\ Len(signals[t]) \in Nat
    BY <1>8, AdoptStep DEF StartsAreTold, sessionVars, TypeOK
  <2>2. op # None
    BY DEF Ops
  <2>3. turn[t] = op => turn'[t] = op
    BY <1>8, <2>2, AdoptStep
  <2> QED
    BY <2>1, <2>3 DEF Told
<1>9. ASSUME NEW s \in Sessions, Stored(s) PROVE StartsAreTold'
  <2>0. s \in Sessions /\ Queued(s, "started", native[s].op)
    BY <1>9, StoredStep, QueueGrows
  <2> SUFFICES ASSUME NEW t \in Sessions, up'[t] = "open", NEW i \in 1 .. Len(signals'[t]),
                      NEW op \in Ops, signals'[t][i] = <<"started", op>>
               PROVE  \/ turn'[t] = op
                      \/ \E j \in i + 1 .. Len(signals'[t]) : signals'[t][j] = <<"ended", op>>
    BY DEF StartsAreTold, Told
  <2>1. Told(t) /\ up[t] = "open" /\ Len(signals[t]) \in Nat
    BY <1>9, StoredStep DEF StartsAreTold, sessionVars, TypeOK
  <2>2. CASE t # s
    <3>1. signals'[t] = signals[t] /\ turn'[t] = turn[t]
      BY <1>9, <2>2, StoredStep
    <3> QED
      BY <2>1, <3>1 DEF Told
  <2>3. CASE t = s /\ i \in 1 .. Len(signals[t]) /\ signals'[t][i] = signals[t][i]
    <3>1. op # None
      BY DEF Ops
    <3>2. CASE turn[t] = op
      BY <1>9, <3>2, StoredStep
    <3>3. CASE turn[t] # op
      <4>1. PICK j \in i + 1 .. Len(signals[t]) : signals[t][j] = <<"ended", op>>
        BY <2>1, <2>3, <3>3 DEF Told
      <4>2. j \in i + 1 .. Len(signals'[t]) /\ j \in 1 .. Len(signals'[t]) /\ j # Len(signals[t]) + 1
        BY <2>0, <2>1, <2>3 DEF Queued
      <4>3. signals'[t][j] = signals[t][j]
        BY <2>0, <2>3, <4>2 DEF Queued
      <4> QED
        BY <4>1, <4>2, <4>3
    <3> QED
      BY <3>2, <3>3
  <2>4. CASE t = s /\ i = Len(signals[t]) + 1 /\ signals'[t][i][1] = "started" /\ signals'[t][i][2] = native[s].op
    <3>1. "started" = "started" /\ native[s].op = op
      BY <2>4
    <3> QED
      BY <1>9, <2>1, <2>4, <3>1, StoredStep DEF AdoptionAlone, Adopts
  <2> QED
    BY <2>0, <2>2, <2>3, <2>4 DEF Queued
<1>10. ASSUME StopRunning PROVE StartsAreTold'
  <2> SUFFICES ASSUME NEW t \in Sessions, up'[t] = "open", NEW i \in 1 .. Len(signals'[t]),
                      NEW op \in Ops, signals'[t][i] = <<"started", op>>
               PROVE  \/ turn'[t] = op
                      \/ \E j \in i + 1 .. Len(signals'[t]) : signals'[t][j] = <<"ended", op>>
    BY DEF StartsAreTold, Told
  <2>1. Told(t)
    BY DEF StartsAreTold
  <2>2. signals'[t] = signals[t] /\ up[t] = "open" /\ turn'[t] = turn[t]
    BY <1>10 DEF sessionVars, turnVars, StopRunning, TypeOK
  <2> QED
    BY <2>1, <2>2 DEF Told
<1>11. ASSUME Send PROVE StartsAreTold'
  <2> SUFFICES ASSUME NEW t \in Sessions, up'[t] = "open", NEW i \in 1 .. Len(signals'[t]),
                      NEW op \in Ops, signals'[t][i] = <<"started", op>>
               PROVE  \/ turn'[t] = op
                      \/ \E j \in i + 1 .. Len(signals'[t]) : signals'[t][j] = <<"ended", op>>
    BY DEF StartsAreTold, Told
  <2>1. Told(t)
    BY DEF StartsAreTold
  <2>2. signals'[t] = signals[t] /\ up[t] = "open" /\ turn'[t] = turn[t]
    BY <1>11 DEF sessionVars, turnVars, Send, TypeOK
  <2> QED
    BY <2>1, <2>2 DEF Told
<1>12. ASSUME Reprepare PROVE StartsAreTold'
  <2> SUFFICES ASSUME NEW t \in Sessions, up'[t] = "open", NEW i \in 1 .. Len(signals'[t]),
                      NEW op \in Ops, signals'[t][i] = <<"started", op>>
               PROVE  \/ turn'[t] = op
                      \/ \E j \in i + 1 .. Len(signals'[t]) : signals'[t][j] = <<"ended", op>>
    BY DEF StartsAreTold, Told
  <2>1. Told(t)
    BY DEF StartsAreTold
  <2>2. signals'[t] = signals[t] /\ up[t] = "open" /\ turn'[t] = turn[t]
    BY <1>12, ReprepareStep DEF sessionVars, turnVars
  <2> QED
    BY <2>1, <2>2 DEF Told
<1>13. ASSUME Prepared PROVE StartsAreTold'
  <2> SUFFICES ASSUME NEW t \in Sessions, up'[t] = "open", NEW i \in 1 .. Len(signals'[t]),
                      NEW op \in Ops, signals'[t][i] = <<"started", op>>
               PROVE  \/ turn'[t] = op
                      \/ \E j \in i + 1 .. Len(signals'[t]) : signals'[t][j] = <<"ended", op>>
    BY DEF StartsAreTold, Told
  <2>1. Told(t)
    BY DEF StartsAreTold
  <2>2. signals'[t] = signals[t] /\ up[t] = "open" /\ turn'[t] = turn[t]
    BY <1>13, PreparedStep DEF sessionVars, turnVars
  <2> QED
    BY <2>1, <2>2 DEF Told
<1>14. ASSUME GoalsRead PROVE StartsAreTold'
  <2> SUFFICES ASSUME NEW t \in Sessions, up'[t] = "open", NEW i \in 1 .. Len(signals'[t]),
                      NEW op \in Ops, signals'[t][i] = <<"started", op>>
               PROVE  \/ turn'[t] = op
                      \/ \E j \in i + 1 .. Len(signals'[t]) : signals'[t][j] = <<"ended", op>>
    BY DEF StartsAreTold, Told
  <2>1. Told(t)
    BY DEF StartsAreTold
  <2>2. signals'[t] = signals[t] /\ up[t] = "open" /\ turn'[t] = turn[t]
    BY <1>14, GoalsReadStep DEF sessionVars, turnVars
  <2> QED
    BY <2>1, <2>2 DEF Told
<1>15. ASSUME Saved PROVE StartsAreTold'
  <2> SUFFICES ASSUME NEW t \in Sessions, up'[t] = "open", NEW i \in 1 .. Len(signals'[t]),
                      NEW op \in Ops, signals'[t][i] = <<"started", op>>
               PROVE  \/ turn'[t] = op
                      \/ \E j \in i + 1 .. Len(signals'[t]) : signals'[t][j] = <<"ended", op>>
    BY DEF StartsAreTold, Told
  <2>1. Told(t)
    BY DEF StartsAreTold
  <2>2. signals'[t] = signals[t] /\ up[t] = "open" /\ turn'[t] = turn[t]
    BY <1>15, SavedStep DEF sessionVars, turnVars
  <2> QED
    BY <2>1, <2>2 DEF Told
<1>16. ASSUME SaveFails PROVE StartsAreTold'
  <2> SUFFICES ASSUME NEW t \in Sessions, up'[t] = "open", NEW i \in 1 .. Len(signals'[t]),
                      NEW op \in Ops, signals'[t][i] = <<"started", op>>
               PROVE  \/ turn'[t] = op
                      \/ \E j \in i + 1 .. Len(signals'[t]) : signals'[t][j] = <<"ended", op>>
    BY DEF StartsAreTold, Told
  <2>1. Told(t)
    BY DEF StartsAreTold
  <2>2. signals'[t] = signals[t] /\ up[t] = "open" /\ turn'[t] = turn[t]
    BY <1>16 DEF sessionVars, turnVars, SaveFails, TypeOK
  <2> QED
    BY <2>1, <2>2 DEF Told
<1>17. ASSUME ExecuteRefused \/ ExecuteFails PROVE StartsAreTold'
  <2> SUFFICES ASSUME NEW t \in Sessions, up'[t] = "open", NEW i \in 1 .. Len(signals'[t]),
                      NEW op \in Ops, signals'[t][i] = <<"started", op>>
               PROVE  \/ turn'[t] = op
                      \/ \E j \in i + 1 .. Len(signals'[t]) : signals'[t][j] = <<"ended", op>>
    BY DEF StartsAreTold, Told
  <2>1. Told(t)
    BY DEF StartsAreTold
  <2>2. signals'[t] = signals[t] /\ up[t] = "open" /\ turn'[t] = turn[t]
    BY <1>17, FailureStep DEF sessionVars, turnVars
  <2> QED
    BY <2>1, <2>2 DEF Told
<1>18. ASSUME Execute PROVE StartsAreTold'
  <2> SUFFICES ASSUME NEW t \in Sessions, up'[t] = "open", NEW i \in 1 .. Len(signals'[t]),
                      NEW op \in Ops, signals'[t][i] = <<"started", op>>
               PROVE  \/ turn'[t] = op
                      \/ \E j \in i + 1 .. Len(signals'[t]) : signals'[t][j] = <<"ended", op>>
    BY DEF StartsAreTold, Told
  <2>1. Told(t)
    BY DEF StartsAreTold
  <2>2. signals'[t] = signals[t] /\ up[t] = "open" /\ turn'[t] = turn[t]
    BY <1>18, ExecuteStep DEF sessionVars, turnVars
  <2> QED
    BY <2>1, <2>2 DEF Told
<1>19. ASSUME TurnStarts PROVE StartsAreTold'
  <2>0. cmd.session \in Sessions /\ Queued(cmd.session, "started", cmd.op)
    BY <1>19, StartStep, QueueGrows
  <2> SUFFICES ASSUME NEW t \in Sessions, up'[t] = "open", NEW i \in 1 .. Len(signals'[t]),
                      NEW op \in Ops, signals'[t][i] = <<"started", op>>
               PROVE  \/ turn'[t] = op
                      \/ \E j \in i + 1 .. Len(signals'[t]) : signals'[t][j] = <<"ended", op>>
    BY DEF StartsAreTold, Told
  <2>1. Told(t) /\ up[t] = "open" /\ Len(signals[t]) \in Nat
    BY <1>19, StartStep DEF StartsAreTold, sessionVars, TypeOK
  <2>2. CASE t # cmd.session
    <3>1. signals'[t] = signals[t] /\ turn'[t] = turn[t]
      BY <1>19, <2>2, StartStep
    <3> QED
      BY <2>1, <3>1 DEF Told
  <2>3. CASE t = cmd.session /\ i \in 1 .. Len(signals[t]) /\ signals'[t][i] = signals[t][i]
    <3>1. op # None
      BY DEF Ops
    <3>2. CASE turn[t] = op
      BY <1>19, <2>1, <2>3, <3>1, <3>2, StartStep DEF SubmissionAlone, Alone
    <3>3. CASE turn[t] # op
      <4>1. PICK j \in i + 1 .. Len(signals[t]) : signals[t][j] = <<"ended", op>>
        BY <2>1, <2>3, <3>3 DEF Told
      <4>2. j \in i + 1 .. Len(signals'[t]) /\ j \in 1 .. Len(signals'[t]) /\ j # Len(signals[t]) + 1
        BY <2>0, <2>1, <2>3 DEF Queued
      <4>3. signals'[t][j] = signals[t][j]
        BY <2>0, <2>3, <4>2 DEF Queued
      <4> QED
        BY <4>1, <4>2, <4>3
    <3> QED
      BY <3>2, <3>3
  <2>4. CASE t = cmd.session /\ i = Len(signals[t]) + 1 /\ signals'[t][i][1] = "started" /\ signals'[t][i][2] = cmd.op
    <3>1. "started" = "started" /\ cmd.op = op
      BY <2>4
    <3> QED
      BY <1>19, <2>4, <3>1, StartStep
  <2> QED
    BY <2>0, <2>2, <2>3, <2>4 DEF Queued
<1>20. ASSUME Returned PROVE StartsAreTold'
  <2> SUFFICES ASSUME NEW t \in Sessions, up'[t] = "open", NEW i \in 1 .. Len(signals'[t]),
                      NEW op \in Ops, signals'[t][i] = <<"started", op>>
               PROVE  \/ turn'[t] = op
                      \/ \E j \in i + 1 .. Len(signals'[t]) : signals'[t][j] = <<"ended", op>>
    BY DEF StartsAreTold, Told
  <2>1. Told(t)
    BY DEF StartsAreTold
  <2>2. signals'[t] = signals[t] /\ up[t] = "open" /\ turn'[t] = turn[t]
    BY <1>20 DEF sessionVars, turnVars, Returned, TypeOK
  <2> QED
    BY <2>1, <2>2 DEF Told
<1>21. ASSUME ModeStep PROVE StartsAreTold'
  <2> SUFFICES ASSUME NEW t \in Sessions, up'[t] = "open", NEW i \in 1 .. Len(signals'[t]),
                      NEW op \in Ops, signals'[t][i] = <<"started", op>>
               PROVE  \/ turn'[t] = op
                      \/ \E j \in i + 1 .. Len(signals'[t]) : signals'[t][j] = <<"ended", op>>
    BY DEF StartsAreTold, Told
  <2>1. Told(t)
    BY DEF StartsAreTold
  <2>2. signals'[t] = signals[t] /\ up[t] = "open" /\ turn'[t] = turn[t]
    BY <1>21, ModeSteps DEF sessionVars, turnVars
  <2> QED
    BY <2>1, <2>2 DEF Told
<1>22. CASE UNCHANGED vars
  BY <1>22 DEF vars, StartsAreTold, Told
<1> QED
  BY <1>1, <1>2, <1>3, <1>4, <1>5, <1>6, <1>7, <1>8, <1>9, <1>10, <1>11, <1>12, <1>13,
     <1>14, <1>15, <1>16, <1>17, <1>18, <1>19, <1>20, <1>21, <1>22 DEF Next, Submission,
     Ends, ModeStep

\* The active operation stays explained.
LEMMA ActivePreserved ==
    ASSUME TypeOK, TypeOK', OpenIsLive, NewIsBlank, SubmissionAlone, SendTargets,
           AdoptionAlone, StartsAreTold, ActiveExplained, [Next]_vars
    PROVE  ActiveExplained'
<1> USE TurnConstants DEF None, NoCommand, NoAdmission, Held, Adopting
<1>1. ASSUME NEW s \in Sessions, Publish(s) PROVE ActiveExplained'
  <2> SUFFICES ASSUME NEW t \in Sessions PROVE Explained(t)'
    BY DEF ActiveExplained
  <2>1. CASE t = s
    BY <1>1, <2>1 DEF Publish, NewIsBlank, Blank, Explained
  <2>2. CASE t # s
    <3>1. up'[t] = up[t] /\ active' = active /\ turn' = turn /\ native' = native /\ signals' = signals /\ cmd' = cmd
      BY <1>1, <2>2 DEF Publish, turnVars, TypeOK
    <3> QED
      BY <3>1 DEF ActiveExplained, Explained
  <2> QED
    BY <2>1, <2>2
<1>2. ASSUME NEW s \in Sessions, Ends(s) PROVE ActiveExplained'
  <2> SUFFICES ASSUME NEW t \in Sessions, up'[t] = "open", active'[t] # None
               PROVE  Explained(t)'
    BY DEF ActiveExplained, Explained
  <2>1. /\ Explained(t) /\ up[t] = "open" /\ cmd' = cmd
        /\ native[t].at = "admitted" => native'[t] = native[t]
    BY <1>2, EndsStep DEF ActiveExplained
  <2>2. turn'[t] = turn[t] /\ active'[t] = active[t] /\ signals'[t] = signals[t]
    BY <1>2, EndsStep
  <2> QED
    BY <2>1, <2>2 DEF Explained
<1>3. ASSUME NEW s \in Sessions, Retire(s) PROVE ActiveExplained'
  <2> SUFFICES ASSUME NEW t \in Sessions PROVE Explained(t)'
    BY DEF ActiveExplained
  <2>1. CASE t = s
    BY <1>3, <2>1 DEF Retire, TypeOK, ActiveExplained, Explained, sessionVars, turnVars,
       modeVars, idVars
  <2>2. CASE t # s
    BY <1>3, <2>2 DEF Retire, TypeOK, ActiveExplained, Explained, sessionVars, turnVars,
       modeVars, idVars
  <2> QED
    BY <2>1, <2>2
<1>4. ASSUME NEW s \in Sessions, Read(s) PROVE ActiveExplained'
  <2> SUFFICES ASSUME NEW t \in Sessions, up'[t] = "open", active'[t] # None
               PROVE  Explained(t)'
    BY DEF ActiveExplained, Explained
  <2>1. /\ Explained(t) /\ Told(t) /\ up[t] = "open" /\ Len(signals[t]) \in Nat
        /\ turn'[t] = turn[t] /\ native'[t] = native[t] /\ cmd' = cmd
    BY <1>4, ReadStep DEF ActiveExplained, StartsAreTold, sessionVars, TypeOK
  <2>2. CASE t # s
    BY <1>4, <2>1, <2>2, ReadStep DEF Explained
  <2>3. CASE t = s
    <3> DEFINE op == active'[s]
    <3>1. ASSUME NEW j \in 2 .. Len(signals[s]), signals[s][j] = <<"ended", op>>
          PROVE  \E k \in 1 .. Len(signals'[s]) : signals'[s][k] = <<"ended", op>>
      <4>1. j - 1 \in 1 .. Len(signals'[s]) /\ (j - 1) + 1 = j
        BY <1>4, <2>1, <2>3, ReadStep
      <4>2. signals'[s][j - 1] = signals[s][j]
        BY <1>4, <4>1, ReadStep
      <4> QED
        BY <3>1, <4>1, <4>2
    <3>2. CASE active'[s] = active[s]
      <4>1. signals[s][1] # <<"ended", op>>
        BY <1>4, <2>3, <3>2, ReadStep
      <4>2. \A j \in 1 .. Len(signals[s]) : signals[s][j] = <<"ended", op>> => j \in 2 .. Len(signals[s])
        BY <2>1, <2>3, <4>1
      <4> QED
        BY <2>1, <2>3, <3>1, <3>2, <4>2 DEF Explained
    <3>3. CASE active'[s] # active[s]
      <4>1. signals[s][1] = <<"started", op>> /\ op \in Ops /\ 1 \in 1 .. Len(signals[s])
        BY <1>4, <2>3, <3>3, ReadStep
      <4>2. turn[s] = op \/ \E j \in 2 .. Len(signals[s]) : signals[s][j] = <<"ended", op>>
        <5>1. turn[s] = op \/ \E j \in 1 + 1 .. Len(signals[s]) : signals[s][j] = <<"ended", op>>
          BY <2>1, <2>3, <4>1 DEF Told
        <5> QED
          BY <5>1
      <4> QED
        BY <2>1, <2>3, <3>1, <4>2 DEF Explained
    <3> QED
      BY <3>2, <3>3
  <2> QED
    BY <2>2, <2>3
<1>5. ASSUME NEW s \in Sessions, NativeTurn(s) PROVE ActiveExplained'
  <2> SUFFICES ASSUME NEW t \in Sessions PROVE Explained(t)'
    BY DEF ActiveExplained
  <2>1. /\ up' = up /\ active' = active /\ turn' = turn /\ signals' = signals /\ cmd' = cmd
        /\ native[s].at # "admitted"
    BY <1>5, OfferStep DEF sessionVars
  <2>2. t # s => native'[t] = native[t]
    BY <1>5, OfferStep
  <2> QED
    BY <2>1, <2>2 DEF ActiveExplained, Explained
<1>6. ASSUME NEW s \in Sessions, Admitted(s) PROVE ActiveExplained'
  <2> SUFFICES ASSUME NEW t \in Sessions PROVE Explained(t)'
    BY DEF ActiveExplained
  <2>1. CASE t = s
    BY <1>6, <2>1, AdmittedStep DEF ActiveExplained, Explained, sessionVars, turnVars,
       modeVars, idVars
  <2>2. CASE t # s
    BY <1>6, <2>2, AdmittedStep DEF ActiveExplained, Explained, sessionVars, turnVars,
       modeVars, idVars
  <2> QED
    BY <2>1, <2>2
<1>7. ASSUME NEW s \in Sessions, Denied(s) PROVE ActiveExplained'
  <2> SUFFICES ASSUME NEW t \in Sessions PROVE Explained(t)'
    BY DEF ActiveExplained
  <2>1. CASE t = s
    BY <1>7, <2>1 DEF Denied, TypeOK, ActiveExplained, Explained, sessionVars, turnVars,
       modeVars, idVars
  <2>2. CASE t # s
    BY <1>7, <2>2 DEF Denied, TypeOK, ActiveExplained, Explained, sessionVars, turnVars,
       modeVars, idVars
  <2> QED
    BY <2>1, <2>2
<1>8. ASSUME NEW s \in Sessions, Adopt(s) PROVE ActiveExplained'
  <2> SUFFICES ASSUME NEW t \in Sessions PROVE Explained(t)'
    BY DEF ActiveExplained
  <2>1. CASE t = s
    BY <1>8, <2>1, AdoptStep DEF ActiveExplained, Explained, AdoptionAlone, Adopts,
       sessionVars, turnVars, modeVars, idVars
  <2>2. CASE t # s
    BY <1>8, <2>2, AdoptStep DEF ActiveExplained, Explained, AdoptionAlone, Adopts,
       sessionVars, turnVars, modeVars, idVars
  <2> QED
    BY <2>1, <2>2
<1>9. ASSUME NEW s \in Sessions, Stored(s) PROVE ActiveExplained'
  <2>0. s \in Sessions /\ Queued(s, "started", native[s].op)
    BY <1>9, StoredStep, QueueGrows
  <2> SUFFICES ASSUME NEW t \in Sessions, up'[t] = "open", active'[t] # None
               PROVE  Explained(t)'
    BY DEF ActiveExplained, Explained
  <2>1. Explained(t) /\ up[t] = "open" /\ Len(signals[t]) \in Nat
    BY <1>9, StoredStep DEF ActiveExplained, sessionVars, TypeOK
  <2>2. CASE t # s
    BY <1>9, <2>1, <2>2, StoredStep DEF Explained, Moved
  <2>3. CASE t = s
    <3>1. \A j \in 1 .. Len(signals[t]) : j \in 1 .. Len(signals'[t]) /\ signals'[t][j] = signals[t][j]
      BY <2>0, <2>1, <2>3 DEF Queued
    <3> QED
      BY <1>9, <2>1, <2>3, <3>1, StoredStep DEF Explained
  <2> QED
    BY <2>2, <2>3
<1>10. ASSUME StopRunning PROVE ActiveExplained'
  BY <1>10 DEF StopRunning, TypeOK, ActiveExplained, Explained, sessionVars, turnVars,
     modeVars, idVars
<1>11. ASSUME Send PROVE ActiveExplained'
  BY <1>11 DEF Send, TypeOK, ActiveExplained, Explained, sessionVars, turnVars, modeVars, idVars
<1>12. ASSUME Reprepare PROVE ActiveExplained'
  <2> SUFFICES ASSUME NEW t \in Sessions PROVE Explained(t)'
    BY DEF ActiveExplained
  <2>1. CASE t = cmd.session
    BY <1>12, <2>1, ReprepareStep DEF ActiveExplained, Explained, sessionVars, turnVars,
       modeVars, idVars
  <2>2. CASE t # cmd.session
    BY <1>12, <2>2, ReprepareStep DEF ActiveExplained, Explained, sessionVars, turnVars,
       modeVars, idVars
  <2> QED
    BY <2>1, <2>2
<1>13. ASSUME Prepared PROVE ActiveExplained'
  <2> SUFFICES ASSUME NEW t \in Sessions PROVE Explained(t)'
    BY DEF ActiveExplained
  <2>1. CASE t = cmd.session
    BY <1>13, <2>1, PreparedStep DEF Moved, Gone, ActiveElsewhere, ActiveExplained,
       Explained, sessionVars, turnVars, modeVars, idVars
  <2>2. CASE t # cmd.session
    BY <1>13, <2>2, PreparedStep DEF Moved, Gone, ActiveElsewhere, ActiveExplained,
       Explained, sessionVars, turnVars, modeVars, idVars
  <2> QED
    BY <2>1, <2>2
<1>14. ASSUME GoalsRead PROVE ActiveExplained'
  <2> SUFFICES ASSUME NEW t \in Sessions PROVE Explained(t)'
    BY DEF ActiveExplained
  <2>1. CASE t = cmd.session
    BY <1>14, <2>1, GoalsReadStep DEF PlanningIdle, Moved, Gone, ActiveElsewhere,
       ActiveExplained, Explained, sessionVars, turnVars, modeVars, idVars
  <2>2. CASE t # cmd.session
    BY <1>14, <2>2, GoalsReadStep DEF PlanningIdle, Moved, Gone, ActiveElsewhere,
       ActiveExplained, Explained, sessionVars, turnVars, modeVars, idVars
  <2> QED
    BY <2>1, <2>2
<1>15. ASSUME Saved PROVE ActiveExplained'
  <2> SUFFICES ASSUME NEW t \in Sessions PROVE Explained(t)'
    BY DEF ActiveExplained
  <2>1. CASE t = cmd.session
    BY <1>15, <2>1, SavedStep DEF Moved, Gone, ActiveElsewhere, ActiveExplained, Explained,
       sessionVars, turnVars, modeVars, idVars
  <2>2. CASE t # cmd.session
    BY <1>15, <2>2, SavedStep DEF Moved, Gone, ActiveElsewhere, ActiveExplained, Explained,
       sessionVars, turnVars, modeVars, idVars
  <2> QED
    BY <2>1, <2>2
<1>16. ASSUME SaveFails PROVE ActiveExplained'
  BY <1>16 DEF SaveFails, TypeOK, ActiveExplained, Explained, sessionVars, turnVars,
     modeVars, idVars
<1>17. ASSUME ExecuteRefused \/ ExecuteFails PROVE ActiveExplained'
  <2> SUFFICES ASSUME NEW t \in Sessions PROVE Explained(t)'
    BY DEF ActiveExplained
  <2>1. CASE t = cmd.session
    BY <1>17, <2>1, FailureStep DEF Moved, Gone, ActiveElsewhere, ActiveExplained,
       Explained, SubmissionAlone, Alone, sessionVars, turnVars, modeVars, idVars
  <2>2. CASE t # cmd.session
    BY <1>17, <2>2, FailureStep DEF Moved, Gone, ActiveElsewhere, ActiveExplained,
       Explained, SubmissionAlone, Alone, sessionVars, turnVars, modeVars, idVars
  <2> QED
    BY <2>1, <2>2
<1>18. ASSUME Execute PROVE ActiveExplained'
  <2> SUFFICES ASSUME NEW t \in Sessions PROVE Explained(t)'
    BY DEF ActiveExplained
  <2>1. CASE t = cmd.session
    BY <1>18, <2>1, ExecuteStep DEF Moved, Gone, ActiveElsewhere, ActiveExplained,
       Explained, sessionVars, turnVars, modeVars, idVars
  <2>2. CASE t # cmd.session
    BY <1>18, <2>2, ExecuteStep DEF Moved, Gone, ActiveElsewhere, ActiveExplained,
       Explained, sessionVars, turnVars, modeVars, idVars
  <2> QED
    BY <2>1, <2>2
<1>19. ASSUME TurnStarts PROVE ActiveExplained'
  <2> SUFFICES ASSUME NEW t \in Sessions, up'[t] = "open", active'[t] # None
               PROVE  Explained(t)'
    BY DEF ActiveExplained, Explained
  <2>1. Explained(t) /\ up[t] = "open" /\ cmd.at = "executing" /\ active' = active /\ native' = native
    BY <1>19, StartStep DEF ActiveExplained, sessionVars
  <2>2. CASE t # cmd.session
    BY <1>19, <2>1, <2>2, StartStep DEF Explained
  <2>3. CASE t = cmd.session
    <3>1. active[t] = cmd.op
      BY <2>1, <2>3 DEF SubmissionAlone, Alone
    <3> QED
      BY <1>19, <2>1, <2>3, <3>1, StartStep DEF Explained
  <2> QED
    BY <2>2, <2>3
<1>20. ASSUME Returned PROVE ActiveExplained'
  BY <1>20 DEF Returned, TypeOK, ActiveExplained, Explained, sessionVars, turnVars,
     modeVars, idVars
<1>21. ASSUME ModeStep PROVE ActiveExplained'
  BY <1>21, ModeSteps DEF Moved, Gone, ActiveElsewhere, ActiveExplained, Explained,
     sessionVars, turnVars, modeVars, idVars
<1>22. CASE UNCHANGED vars
  BY <1>22 DEF vars, ActiveExplained, Explained
<1> QED
  BY <1>1, <1>2, <1>3, <1>4, <1>5, <1>6, <1>7, <1>8, <1>9, <1>10, <1>11, <1>12, <1>13,
     <1>14, <1>15, <1>16, <1>17, <1>18, <1>19, <1>20, <1>21, <1>22 DEF Next, Submission,
     Ends, ModeStep


\* Initially nothing has happened.
LEMMA TurnInvInit ==
    ASSUME Init
    PROVE  TurnInv
<1> USE TurnConstants DEF Init, None, NoCommand, NoAdmission, Held, Adopting
<1>1. TypeOK
  <2>1. <<>> \in Seq(Signals) /\ 0 \in 0 .. MaxOps
    OBVIOUS
  <2>2. /\ signals \in [Sessions -> Seq(Signals)]
        /\ native \in [Sessions -> Admissions \cup {NoAdmission}]
        /\ starting \in [Sessions -> BOOLEAN]
    BY <2>1
  <2>3. cmd.at \notin {"executing", "returning"}
    OBVIOUS
  <2>4. \A s \in Sessions :
            /\ starting[s] = (cmd.at \in {"executing", "returning"} /\ cmd.session = s)
            /\ turn[s] # None => up[s] = "open"
    BY <2>3
  <2> QED
    BY <2>1, <2>2, <2>4 DEF TypeOK, Modes
<1>2. \A s \in Sessions : Len(signals[s]) = 0
  OBVIOUS
<1>3. IdsIssued /\ CommandIssued /\ EndsAreOver /\ StartsAreTold
  BY <1>2 DEF IdsIssued, Issued, CommandIssued, EndsAreOver, Over, StartsAreTold, Told
<1>4. OpenIsLive /\ NewIsBlank /\ SubmissionAlone /\ SendTargets /\ AdoptionAlone
  BY DEF OpenIsLive, Owns, NewIsBlank, Blank, SubmissionAlone, Alone, SendTargets,
     AdoptionAlone, Adopts
<1>5. ReservedIsNew /\ ActiveExplained
  BY DEF ReservedIsNew, Fresh, Reserving, ActiveExplained, Explained
<1> QED
  BY <1>1, <1>3, <1>4, <1>5 DEF TurnInv

\* The invariant is inductive.
LEMMA TurnInvPreserved ==
    ASSUME TurnInv, [Next]_vars
    PROVE  TurnInv'
<1>1. TypeOK'
  BY TypePreserved DEF TurnInv
<1> QED
  BY <1>1, IdsPreserved, CommandPreserved, OpenPreserved, BlankPreserved, SubmissionPreserved,
     TargetsPreserved, AdoptionPreserved, EndsPreserved, ReservedPreserved, StartsPreserved,
     ActivePreserved DEF TurnInv

\* The invariant behind the theorems below holds throughout every behaviour.
THEOREM TurnInvariant == Spec => []TurnInv
BY TurnInvInit, TurnInvPreserved, PTL DEF Spec

\* Variables keep their types; the adapter is starting a turn exactly while a send
\* executes or returns, and runs one only while connected.
THEOREM TurnTypes == Spec => []TypeOK
<1>1. TurnInv => TypeOK
  BY DEF TurnInv
<1> QED
  BY <1>1, TurnInvariant, PTL

\* What the provider executes is the active operation of the live session, however
\* late the reader follows (application.ts, session-signals.ts).
THEOREM TurnsAreOwned == Spec => []RunsAreOwned
<1>1. TurnInv => RunsAreOwned
  BY DEF TurnInv, TypeOK, OpenIsLive, Owns, RunsAreOwned
<1> QED
  BY <1>1, TurnInvariant, PTL

\* The conversation is never left occupied by an operation that neither starts nor
\* runs and whose end is not on its way (onTurnFinished and the failed send in application.ts).
THEOREM NothingPhantom == Spec => []NoPhantomOperation
<1>1. TurnInv => NoPhantomOperation
  <2> SUFFICES ASSUME TurnInv, NEW s \in Sessions, NEW op \in Ops,
                      live = s, up[s] = "open", active[s] = op
               PROVE  \/ turn[s] = op
                      \/ cmd.at \in {"calling", "executing"} /\ cmd.session = s /\ cmd.op = op
                      \/ native[s] = [at |-> "admitted", op |-> op]
                      \/ Contains(signals[s], <<"ended", op>>)
    BY DEF NoPhantomOperation
  <2>1. Explained(s) /\ op # None
    BY DEF TurnInv, ActiveExplained, Ops, None
  <2>2. native[s].at = "admitted" /\ native[s].op = op => native[s] = [at |-> "admitted", op |-> op]
    BY AdmissionForms DEF TurnInv
  <2> QED
    BY <2>1, <2>2 DEF Explained, Contains
<1> QED
  BY <1>1, TurnInvariant, PTL

\* A turn ends before another one takes its place in the adapter (execute's check,
\* the native turn's second look).
THEOREM TurnsAreKept == Spec => NoTurnOverwritten
<1>1. TurnInv /\ [Next]_vars => [\A s \in Sessions : turn[s] # None => turn'[s] \in {turn[s], None}]_vars
  <2> SUFFICES ASSUME TurnInv, Next, NEW t \in Sessions, turn[t] # None
               PROVE  turn'[t] \in {turn[t], None}
    OBVIOUS
  <2> USE DEF TurnInv
  <2>1. ASSUME NEW s \in Sessions, Ends(s) PROVE turn'[t] \in {turn[t], None}
    BY <2>1, EndsStep
  <2>2. ASSUME NEW s \in Sessions, Adopt(s) PROVE turn'[t] \in {turn[t], None}
    BY <2>2, AdoptStep
  <2>3. ASSUME NEW s \in Sessions,
               Publish(s) \/ Retire(s) \/ Read(s) \/ NativeTurn(s) \/ Admitted(s) \/ Denied(s) \/ Stored(s)
        PROVE  turn' = turn
    BY <2>3 DEF Publish, Retire, Read, NativeTurn, Admitted, Denied, Stored, turnVars
  <2>4. CASE TurnStarts
    <3>1. cmd.session \in Sessions /\ turn[cmd.session] = None
      BY <2>4, StartStep DEF SubmissionAlone, Alone, Held
    <3> QED
      BY <2>4, <3>1, StartStep
  <2>5. ASSUME StopRunning \/ ModeStep \/ (Submission /\ ~TurnStarts)
        PROVE  turn' = turn
    BY <2>5 DEF StopRunning, ModeStep, Submission, Send, Reprepare, Prepared, GoalsRead, Saved,
       SaveFails, ExecuteRefused, Execute, ExecuteFails, Returned, SetMode, Entered, ModeStored, turnVars
  <2> QED
    BY <2>1, <2>2, <2>3, <2>4, <2>5 DEF Next, Ends, ModeStep, Submission
<1> QED
  BY <1>1, TurnInvariant, PTL DEF Spec, NoTurnOverwritten

================================================================================
