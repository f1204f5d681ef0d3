------------------------- MODULE DesktopSessionsProofs -------------------------
(***************************************************************************)
(* Theorems about the sessions and the shutdown of the desktop host, for   *)
(* any callers, conversations and sessions.  The inductive invariant says  *)
(* what connect and close leave implicit: which map entry stands for a     *)
(* session at each stage of its life, what each stage of close may rely    *)
(* on, and who has yet to record a release that failed.                    *)
(***************************************************************************)
EXTENDS DesktopSessions, FiniteSetTheorems, SequenceTheorems, TLAPS

\* The stages of a session that its conversation's opening entry stands for, and
\* those its live entry must stand for.
Begun == {"asked", "starting", "rollback"}
Published == {"live", "closing"}

\* A session is being started exactly while it is its conversation's opening
\* entry, and is published at least until it is closed.
MapsMatch ==
    \A s \in Sessions :
        /\ stage[s] \in Begun => opening[HomeOf[s]] = s
        /\ stage[s] \in Published => live[HomeOf[s]] = s

\* No start is under way for a conversation that has a published session.
OneAtATime == \A i \in Conversations : opening[i] = NoSession \/ live[i] = NoSession

\* Resources are held between start and close; afterwards only by a failed release.
HeldUntilOver ==
    /\ \A s \in held \ broken : stage[s] \in Begun \cup Published
    /\ \A s \in broken : stage[s] \in {"failed", "closed"}

ToBeClosed(s) == life = "sessions" /\ \E n \in DOMAIN toClose : toClose[n] = s

Retiring(s) == reader[s] \in {"retiring", "reporting"}

\* What each stage of close() may rely on.
StopsInOrder ==
    /\ life \notin {"running", "draining"} => Admitted = {}
    /\ life \in {"sessions", "pumps", "closed"} => \A i \in Conversations : opening[i] = NoSession
    /\ life \in {"sessions", "pumps", "closed"} =>
            \A s \in Sessions : stage[s] \in Published => ToBeClosed(s)
    /\ life = "pumps" => \A s \in Sessions : Retiring(s) => s \in pumps
    /\ life = "closed" => \A s \in Sessions : ~Retiring(s)

\* A failed release is recorded, or somebody who will record it is on the way:
\* the session's reader or the loop of close().
FailuresFollowed ==
    /\ failures \subseteq broken
    /\ \A s \in Sessions : stage[s] = "closing" =>
            reader[s] = "retiring" \/ (ToBeClosed(s) /\ s = Head(toClose))
    /\ \A s \in broken \ failures : stage[s] = "closed" /\ (Retiring(s) \/ ToBeClosed(s))

IInv == TypeOK /\ MapsMatch /\ OneAtATime /\ HeldUntilOver /\ StopsInOrder
            /\ FailuresFollowed /\ FailuresSurface

--------------------------------------------------------------------------------
\* Queues and sets

\* What is behind the head of a queue stays queued when the head leaves.
LEMMA TailKeeps ==
    ASSUME NEW q \in Seq(Sessions), q # <<>>
    PROVE  /\ Tail(q) \in Seq(Sessions)
           /\ \A n \in DOMAIN q : q[n] = Head(q) \/ \E m \in DOMAIN Tail(q) : Tail(q)[m] = q[n]
<1>1. Tail(q) \in Seq(Sessions) /\ Len(Tail(q)) = Len(q) - 1
        /\ \A m \in 1..Len(Tail(q)) : Tail(q)[m] = q[m + 1]
    BY HeadTailProperties
<1>2. ASSUME NEW n \in DOMAIN q
      PROVE  q[n] = Head(q) \/ \E m \in DOMAIN Tail(q) : Tail(q)[m] = q[n]
    <2>1. DOMAIN q = 1..Len(q) /\ DOMAIN Tail(q) = 1..Len(Tail(q)) /\ Len(q) \in Nat
        BY <1>1
    <2>2. CASE n = 1
        BY <2>2
    <2>3. CASE n # 1
        <3>1. n - 1 \in DOMAIN Tail(q) /\ Tail(q)[n - 1] = q[n]
            BY <1>1, <1>2, <2>1, <2>3
        <3> QED BY <3>1
    <2> QED BY <2>2, <2>3
<1> QED BY <1>1, <1>2

\* There are finitely many conversations, so finitely many sessions are live.
LEMMA LiveIsFinite ==
    live \in [Conversations -> Sessions \cup {NoSession}] => IsFiniteSet(LiveSessions)
<1> SUFFICES ASSUME live \in [Conversations -> Sessions \cup {NoSession}]
             PROVE  IsFiniteSet(LiveSessions)
    OBVIOUS
<1>1. live \in Surjection(Conversations, {live[i] : i \in Conversations})
    BY DEF Surjection
<1>2. IsFiniteSet({live[i] : i \in Conversations})
    BY <1>1, FS_Surjection, SessionConstants
<1>3. LiveSessions \in SUBSET {live[i] : i \in Conversations}
    BY DEF LiveSessions
<1> QED BY <1>2, <1>3, FS_Subset

\* An order of a finite set of sessions lists each of them.
LEMMA OrderLists ==
    ASSUME NEW S \in SUBSET Sessions, IsFiniteSet(S), NEW q \in SetToSeqs(S)
    PROVE  q \in Seq(Sessions) /\ \A s \in S : \E n \in DOMAIN q : q[n] = s
<1> DEFINE D == 1..Cardinality(S)
<1>1. Cardinality(S) \in Nat
    BY FS_CardinalityType
<1>2. q \in [D -> S] /\ \A i, k \in D : i # k => q[i] # q[k]
    BY DEF SetToSeqs
<1>3. IsFiniteSet(D) /\ Cardinality(D) = Cardinality(S)
    BY <1>1, FS_Interval
<1>4. q \in Injection(D, S)
    BY <1>2 DEF Injection, IsInjective
<1>5. q \in Surjection(D, S)
    BY <1>3, <1>4, FS_Injection
<1>6. q \in Seq(Sessions)
    <2>1. q \in [D -> Sessions]
        BY <1>2
    <2> QED BY <1>1, <2>1
<1> QED BY <1>2, <1>5, <1>6 DEF Surjection

--------------------------------------------------------------------------------
\* The steps that need a closer look

\* connect joins a session there is, refuses, or asks for a new one, for which
\* the conversation has neither a live nor an opening session.
LEMMA ConnectAsks ==
    ASSUME IInv, NEW c \in Callers, Connect(c)
    PROVE  /\ caller' \in [Callers -> {"idle", "called", "waiting", "using", "done"}]
           /\ session' \in [Callers -> Sessions \cup {NoSession}]
           /\ \/ UNCHANGED <<opening, stage>>
              \/ /\ ~Stopped
                 /\ \E s \in Sessions :
                     /\ stage[s] = "unused"
                     /\ opening[HomeOf[s]] = NoSession /\ live[HomeOf[s]] = NoSession
                     /\ stage' = [stage EXCEPT ![s] = "asked"]
                     /\ opening' = [opening EXCEPT ![HomeOf[s]] = s]
<1> USE DEF IInv, TypeOK
<1>1. CASE Stopped
    BY <1>1 DEF Connect
<1>2. CASE ~Stopped
    <2>1. PICK s \in Sessions :
            /\ caller' = [caller EXCEPT ![c] = "waiting"]
            /\ session' = [session EXCEPT ![c] = s]
            /\ IF {live[WantOf[c]], opening[WantOf[c]]} = {NoSession}
               THEN /\ stage[s] = "unused" /\ HomeOf[s] = WantOf[c]
                    /\ stage' = [stage EXCEPT ![s] = "asked"]
                    /\ opening' = [opening EXCEPT ![WantOf[c]] = s]
               ELSE UNCHANGED <<opening, stage>>
        BY <1>2 DEF Connect
    <2>2. caller' \in [Callers -> {"idle", "called", "waiting", "using", "done"}]
            /\ session' \in [Callers -> Sessions \cup {NoSession}]
        BY <2>1
    <2>3. CASE {live[WantOf[c]], opening[WantOf[c]]} = {NoSession}
        <3>1. live[WantOf[c]] = NoSession /\ opening[WantOf[c]] = NoSession
            <4>1. live[WantOf[c]] \in {NoSession} /\ opening[WantOf[c]] \in {NoSession}
                BY <2>3
            <4> QED BY <4>1
        <3> QED BY <1>2, <2>1, <2>2, <2>3, <3>1
    <2>4. CASE {live[WantOf[c]], opening[WantOf[c]]} # {NoSession}
        BY <2>1, <2>2, <2>4
    <2> QED BY <2>3, <2>4
<1> QED BY <1>1, <1>2

\* close() lists every session published when the last start has settled.
LEMMA ListsTheLive ==
    ASSUME IInv, OpeningsSettled
    PROVE  /\ toClose' \in Seq(Sessions)
           /\ \A s \in Sessions : stage[s] \in Published =>
                \E n \in DOMAIN toClose' : toClose'[n] = s
<1>1. LiveSessions \in SUBSET Sessions /\ IsFiniteSet(LiveSessions)
    BY LiveIsFinite DEF IInv, TypeOK, LiveSessions
<1>2. toClose' \in SetToSeqs(LiveSessions)
    BY DEF OpeningsSettled
<1>3. toClose' \in Seq(Sessions)
        /\ \A s \in LiveSessions : \E n \in DOMAIN toClose' : toClose'[n] = s
    BY <1>1, <1>2, OrderLists
<1>4. \A s \in Sessions : stage[s] \in Published => s \in LiveSessions
    BY SessionConstants DEF IInv, MapsMatch, LiveSessions
<1> QED BY <1>3, <1>4

--------------------------------------------------------------------------------
\* Each part of the invariant is kept by every step

\* Every variable stays in its range, and a map entry stands for a session at its
\* stage.  A session is published only from its opening entry, which its start kept.
LEMMA TypeStep ==
    ASSUME IInv, Next
    PROVE  TypeOK'
<1> USE SessionConstants DEF IInv, TypeOK, closeVars, failVars, MapsMatch,
       OneAtATime, Stages, Stops, Begun, Published
<1>1. ASSUME NEW c \in Callers, Call(c)
      PROVE  TypeOK'
    BY <1>1 DEF Call
<1>2. ASSUME NEW c \in Callers, Connect(c)
      PROVE  TypeOK'
    <2>1. CASE UNCHANGED <<opening, stage>>
        BY <1>2, <2>1, ConnectAsks DEF Connect, closeVars, failVars
    <2>2. CASE ~UNCHANGED <<opening, stage>>
        <3>1. PICK s \in Sessions :
                /\ stage[s] = "unused"
                /\ opening[HomeOf[s]] = NoSession /\ live[HomeOf[s]] = NoSession
                /\ stage' = [stage EXCEPT ![s] = "asked"]
                /\ opening' = [opening EXCEPT ![HomeOf[s]] = s]
            BY <1>2, <2>2, ConnectAsks
        <3>2. UNCHANGED <<life, live, held, reader, toClose, pumps, failures, broken,
               report>>
            BY <1>2 DEF Connect
        <3> QED BY <1>2, <3>1, <3>2, ConnectAsks
    <2> QED BY <2>1, <2>2
<1>3. ASSUME NEW c \in Callers, Connected(c)
      PROVE  TypeOK'
    <2>1. caller' \in [Callers -> {"idle", "called", "waiting", "using", "done"}]
        BY <1>3 DEF Connected
    <2>2. reader' \in [Sessions -> {"none", "ready", "reading", "retiring",
           "reporting", "over"}]
        <3>1. CASE session[c] \in Sessions
            BY <1>3, <3>1 DEF Connected
        <3>2. CASE session[c] \notin Sessions
            <4>1. reader' = reader
                BY <1>3, <3>2 DEF Connected
            <4> QED BY <4>1
        <3> QED BY <3>1, <3>2
    <2>3. UNCHANGED <<life, session, opening, live, stage, held, toClose, pumps,
           failures, broken, report>>
        BY <1>3 DEF Connected
    <2> QED BY <2>1, <2>2, <2>3
<1>4. ASSUME NEW c \in Callers, Finish(c)
      PROVE  TypeOK'
    BY <1>4 DEF Finish
<1>5. ASSUME NEW s \in Sessions, Start(s)
      PROVE  TypeOK'
    BY <1>5 DEF Start, Stopped
<1>6. ASSUME NEW s \in Sessions, OwnResource(s)
      PROVE  TypeOK'
    BY <1>6 DEF OwnResource
<1>7. ASSUME NEW s \in Sessions, StartFails(s)
      PROVE  TypeOK'
    BY <1>7 DEF StartFails
<1>8. ASSUME NEW s \in Sessions, Made(s)
      PROVE  TypeOK'
    <2>1. CASE Stopped
        BY <1>8, <2>1 DEF Made
    <2>2. CASE ~Stopped
        <3>1. /\ stage' = [stage EXCEPT ![s] = "live"]
              /\ live' = [live EXCEPT ![HomeOf[s]] = s]
              /\ opening' = [opening EXCEPT ![HomeOf[s]] = NoSession]
              /\ reader' = [reader EXCEPT ![s] = "ready"]
              /\ UNCHANGED <<caller, session, held, closeVars, failVars>>
            BY <1>8, <2>2 DEF Made, OpeningWithout
        <3>2. stage[s] = "starting" /\ opening[HomeOf[s]] = s /\ live[HomeOf[s]] = NoSession
            BY <1>8 DEF Made
        <3>3. /\ stage' \in [Sessions -> Stages]
              /\ reader' \in [Sessions -> {"none", "ready", "reading", "retiring",
                                           "reporting", "over"}]
            BY <3>1
        <3>4. /\ live' \in [Conversations -> Sessions \cup {NoSession}]
              /\ opening' \in [Conversations -> Sessions \cup {NoSession}]
            BY <3>1
        <3>5. \A r \in Sessions, i \in Conversations :
                /\ opening'[i] = r => HomeOf[r] = i /\ stage'[r] \in Begun
                /\ live'[i] = r => HomeOf[r] = i /\ stage'[r] \in {"live", "closing", "closed"}
            BY <3>1, <3>2
        <3> QED BY <3>1, <3>3, <3>4, <3>5
    <2> QED BY <2>1, <2>2
<1>9. ASSUME NEW s \in Sessions, NEW ok \in BOOLEAN, RolledBack(s, ok)
      PROVE  TypeOK'
    BY <1>9 DEF RolledBack, Release, FailureRecorded
<1>10. ASSUME NEW s \in Sessions, NEW ok \in BOOLEAN, SessionCloses(s, ok)
      PROVE  TypeOK'
    BY <1>10 DEF SessionCloses, Release
<1>11. ASSUME NEW s \in Sessions, ReaderEnds(s)
      PROVE  TypeOK'
    BY <1>11 DEF ReaderEnds, CloseSession, LiveBeforeRetiring
<1>12. ASSUME NEW s \in Sessions, Unpublish(s)
      PROVE  TypeOK'
    BY <1>12 DEF Unpublish
<1>13. ASSUME NEW s \in Sessions, Reported(s)
      PROVE  TypeOK'
    BY <1>13 DEF Reported, FailureRecorded
<1>14. ASSUME Close
      PROVE  TypeOK'
    BY <1>14 DEF Close
<1>15. ASSUME Drain
      PROVE  TypeOK'
    BY <1>15 DEF Drain, Drained
<1>16. ASSUME OpeningsSettled
      PROVE  TypeOK'
    BY <1>16, ListsTheLive DEF OpeningsSettled
<1>17. ASSUME CloseNext
      PROVE  TypeOK'
    BY <1>17 DEF CloseNext, CloseSession
<1>18. ASSUME NextClosed
      PROVE  TypeOK'
    BY <1>18 DEF NextClosed
<1>19. ASSUME AllClosed
      PROVE  TypeOK'
    BY <1>19 DEF AllClosed
<1>20. ASSUME PumpsEnded
      PROVE  TypeOK'
    BY <1>20 DEF PumpsEnded
<1> QED
    BY <1>1, <1>2, <1>3, <1>4, <1>5, <1>6, <1>7, <1>8, <1>9, <1>10, <1>11, <1>12,
           <1>13, <1>14, <1>15, <1>16, <1>17, <1>18, <1>19, <1>20
    DEF Next, Work, Begins, Ends, Retires, Shutdown, closeVars, failVars

\* The maps match the stages: a new start needs both entries free, a start that
\* ends frees its own, and only a closed session leaves the live map.
LEMMA MapsStep ==
    ASSUME IInv, Next
    PROVE  MapsMatch' /\ OneAtATime'
<1> USE SessionConstants DEF IInv, TypeOK, closeVars, failVars, MapsMatch,
       OneAtATime, StopsInOrder, ToBeClosed, Begun, Published
<1>1. CASE UNCHANGED <<stage, opening, live>>
    BY <1>1
<1>2. ASSUME NEW c \in Callers, Connect(c)
      PROVE  MapsMatch' /\ OneAtATime'
    <2>1. CASE UNCHANGED <<opening, stage>>
        BY <1>2, <2>1, ConnectAsks DEF Connect, closeVars, failVars
    <2>2. CASE ~UNCHANGED <<opening, stage>>
        <3>1. PICK s \in Sessions :
                /\ stage[s] = "unused"
                /\ opening[HomeOf[s]] = NoSession /\ live[HomeOf[s]] = NoSession
                /\ stage' = [stage EXCEPT ![s] = "asked"]
                /\ opening' = [opening EXCEPT ![HomeOf[s]] = s]
            BY <1>2, <2>2, ConnectAsks
        <3>2. UNCHANGED <<life, live, held, reader, toClose, pumps, failures, broken,
               report>>
            BY <1>2 DEF Connect
        <3> QED BY <1>2, <3>1, <3>2, ConnectAsks
    <2> QED BY <2>1, <2>2
<1>3. ASSUME NEW s \in Sessions, Start(s)
      PROVE  MapsMatch' /\ OneAtATime'
    BY <1>3 DEF Start, Stopped
<1>4. ASSUME NEW s \in Sessions, StartFails(s)
      PROVE  MapsMatch' /\ OneAtATime'
    BY <1>4 DEF StartFails
<1>5. ASSUME NEW s \in Sessions, Made(s)
      PROVE  MapsMatch' /\ OneAtATime'
    <2>1. CASE Stopped
        BY <1>5, <2>1 DEF Made
    <2>2. CASE ~Stopped
        <3>1. /\ stage' = [stage EXCEPT ![s] = "live"]
              /\ live' = [live EXCEPT ![HomeOf[s]] = s]
              /\ opening' = [opening EXCEPT ![HomeOf[s]] = NoSession]
            BY <1>5, <2>2 DEF Made, OpeningWithout
        <3>2. stage[s] = "starting" /\ opening[HomeOf[s]] = s
            BY <1>5 DEF Made
        <3> QED BY <3>1, <3>2
    <2> QED BY <2>1, <2>2
<1>6. ASSUME NEW s \in Sessions, NEW ok \in BOOLEAN, RolledBack(s, ok)
      PROVE  MapsMatch' /\ OneAtATime'
    BY <1>6 DEF RolledBack, Release, FailureRecorded
<1>7. ASSUME NEW s \in Sessions, NEW ok \in BOOLEAN, SessionCloses(s, ok)
      PROVE  MapsMatch' /\ OneAtATime'
    BY <1>7 DEF SessionCloses, Release
<1>8. ASSUME NEW s \in Sessions, ReaderEnds(s)
      PROVE  MapsMatch' /\ OneAtATime'
    BY <1>8 DEF ReaderEnds, CloseSession, LiveBeforeRetiring
<1>9. ASSUME NEW s \in Sessions, Unpublish(s)
      PROVE  MapsMatch' /\ OneAtATime'
    BY <1>9 DEF Unpublish
<1>10. ASSUME CloseNext
      PROVE  MapsMatch' /\ OneAtATime'
    BY <1>10 DEF CloseNext, CloseSession
<1>11. ASSUME PumpsEnded
      PROVE  MapsMatch' /\ OneAtATime'
    BY <1>11 DEF PumpsEnded
<1> QED
    BY <1>1, <1>2, <1>3, <1>4, <1>5, <1>6, <1>7, <1>8, <1>9, <1>10, <1>11
    DEF Next, Work, Begins, Ends, Retires, Shutdown, closeVars, failVars,
       Call, Connected, Finish, OwnResource, Reported, Close, Drain, OpeningsSettled,
       NextClosed, AllClosed

\* Resources are owned during a start and given up, or broken, at a session's end.
LEMMA HeldStep ==
    ASSUME IInv, Next
    PROVE  HeldUntilOver'
<1> USE SessionConstants DEF IInv, TypeOK, closeVars, failVars, HeldUntilOver, Begun,
       Published
<1>1. CASE UNCHANGED <<stage, held, broken>>
    BY <1>1
<1>2. ASSUME NEW c \in Callers, Connect(c)
      PROVE  HeldUntilOver'
    <2>1. CASE UNCHANGED <<opening, stage>>
        BY <1>2, <2>1, ConnectAsks DEF Connect, closeVars, failVars
    <2>2. CASE ~UNCHANGED <<opening, stage>>
        <3>1. PICK s \in Sessions :
                /\ stage[s] = "unused"
                /\ opening[HomeOf[s]] = NoSession /\ live[HomeOf[s]] = NoSession
                /\ stage' = [stage EXCEPT ![s] = "asked"]
                /\ opening' = [opening EXCEPT ![HomeOf[s]] = s]
            BY <1>2, <2>2, ConnectAsks
        <3>2. UNCHANGED <<life, live, held, reader, toClose, pumps, failures, broken,
               report>>
            BY <1>2 DEF Connect
        <3> QED BY <1>2, <3>1, <3>2, ConnectAsks
    <2> QED BY <2>1, <2>2
<1>3. ASSUME NEW s \in Sessions, Start(s)
      PROVE  HeldUntilOver'
    BY <1>3 DEF Start, Stopped
<1>4. ASSUME NEW s \in Sessions, OwnResource(s)
      PROVE  HeldUntilOver'
    BY <1>4 DEF OwnResource
<1>5. ASSUME NEW s \in Sessions, StartFails(s)
      PROVE  HeldUntilOver'
    BY <1>5 DEF StartFails
<1>6. ASSUME NEW s \in Sessions, Made(s)
      PROVE  HeldUntilOver'
    <2>1. CASE Stopped
        BY <1>6, <2>1 DEF Made
    <2>2. CASE ~Stopped
        BY <1>6, <2>2 DEF Made, OpeningWithout
    <2> QED BY <2>1, <2>2
<1>7. ASSUME NEW s \in Sessions, NEW ok \in BOOLEAN, RolledBack(s, ok)
      PROVE  HeldUntilOver'
    BY <1>7 DEF RolledBack, Release, FailureRecorded
<1>8. ASSUME NEW s \in Sessions, NEW ok \in BOOLEAN, SessionCloses(s, ok)
      PROVE  HeldUntilOver'
    BY <1>8 DEF SessionCloses, Release
<1>9. ASSUME NEW s \in Sessions, ReaderEnds(s)
      PROVE  HeldUntilOver'
    BY <1>9 DEF ReaderEnds, CloseSession, LiveBeforeRetiring
<1>10. ASSUME CloseNext
      PROVE  HeldUntilOver'
    BY <1>10 DEF CloseNext, CloseSession
<1> QED
    BY <1>1, <1>2, <1>3, <1>4, <1>5, <1>6, <1>7, <1>8, <1>9, <1>10
    DEF Next, Work, Begins, Ends, Retires, Shutdown, closeVars, failVars,
       Call, Connected, Finish, Unpublish, Reported, Close, Drain, OpeningsSettled,
       NextClosed, AllClosed, PumpsEnded

\* The stages of close(): nothing is admitted or started any more, so that what it
\* has waited for does not come back.
LEMMA StopsStep ==
    ASSUME IInv, Next
    PROVE  StopsInOrder'
<1> USE SessionConstants DEF IInv, TypeOK, closeVars, failVars, MapsMatch,
       StopsInOrder, ToBeClosed, Retiring, Admitted, Stops, Begun, Published, Stopped
<1>1. CASE UNCHANGED <<life, caller, opening, stage, toClose, reader, pumps>>
    BY <1>1
<1>2. ASSUME NEW c \in Callers, Call(c)
      PROVE  StopsInOrder'
    BY <1>2 DEF Call
<1>3. ASSUME NEW c \in Callers, Connect(c)
      PROVE  StopsInOrder'
    <2>1. CASE UNCHANGED <<opening, stage>>
        BY <1>3, <2>1, ConnectAsks DEF Connect, closeVars, failVars
    <2>2. CASE ~UNCHANGED <<opening, stage>>
        <3>1. PICK s \in Sessions :
                /\ stage[s] = "unused"
                /\ opening[HomeOf[s]] = NoSession /\ live[HomeOf[s]] = NoSession
                /\ stage' = [stage EXCEPT ![s] = "asked"]
                /\ opening' = [opening EXCEPT ![HomeOf[s]] = s]
            BY <1>3, <2>2, ConnectAsks
        <3>2. UNCHANGED <<life, live, held, reader, toClose, pumps, failures, broken,
               report>>
            BY <1>3 DEF Connect
        <3> QED BY <1>3, <3>1, <3>2, ConnectAsks
    <2> QED BY <2>1, <2>2
<1>4. ASSUME NEW c \in Callers, Connected(c)
      PROVE  StopsInOrder'
    BY <1>4 DEF Connected, Settled, Watches
<1>5. ASSUME NEW c \in Callers, Finish(c)
      PROVE  StopsInOrder'
    BY <1>5 DEF Finish
<1>6. ASSUME NEW s \in Sessions, Start(s)
      PROVE  StopsInOrder'
    BY <1>6 DEF Start, Stopped
<1>7. ASSUME NEW s \in Sessions, StartFails(s)
      PROVE  StopsInOrder'
    BY <1>7 DEF StartFails
<1>8. ASSUME NEW s \in Sessions, Made(s)
      PROVE  StopsInOrder'
    BY <1>8 DEF Made, OpeningWithout
<1>9. ASSUME NEW s \in Sessions, NEW ok \in BOOLEAN, RolledBack(s, ok)
      PROVE  StopsInOrder'
    BY <1>9 DEF RolledBack, Release, FailureRecorded
<1>10. ASSUME NEW s \in Sessions, NEW ok \in BOOLEAN, SessionCloses(s, ok)
      PROVE  StopsInOrder'
    BY <1>10 DEF SessionCloses, Release
<1>11. ASSUME NEW s \in Sessions, ReaderEnds(s)
      PROVE  StopsInOrder'
    BY <1>11 DEF ReaderEnds, CloseSession, LiveBeforeRetiring
<1>12. ASSUME NEW s \in Sessions, Unpublish(s)
      PROVE  StopsInOrder'
    BY <1>12 DEF Unpublish
<1>13. ASSUME NEW s \in Sessions, Reported(s)
      PROVE  StopsInOrder'
    BY <1>13 DEF Reported, FailureRecorded
<1>14. ASSUME Close
      PROVE  StopsInOrder'
    BY <1>14 DEF Close
<1>15. ASSUME Drain
      PROVE  StopsInOrder'
    BY <1>15 DEF Drain, Drained
<1>16. ASSUME OpeningsSettled
      PROVE  StopsInOrder'
    BY <1>16, ListsTheLive DEF OpeningsSettled
<1>17. ASSUME CloseNext
      PROVE  StopsInOrder'
    BY <1>17 DEF CloseNext, CloseSession
<1>18. ASSUME NextClosed
      PROVE  StopsInOrder'
    <2>1. toClose \in Seq(Sessions) /\ toClose # <<>> /\ life = "sessions" /\ toClose' = Tail(toClose)
            /\ stage[Head(toClose)] = "closed" /\ UNCHANGED <<life, caller, opening, stage, reader, pumps>>
        BY <1>18 DEF NextClosed
    <2>2. \A s \in Sessions : ToBeClosed(s) => s = Head(toClose) \/ ToBeClosed(s)'
        BY <2>1, TailKeeps
    <2>3. \A s \in Sessions : stage[s] \in Published => ToBeClosed(s)'
        BY <2>1, <2>2
    <2> QED BY <2>1, <2>3
<1>19. ASSUME AllClosed
      PROVE  StopsInOrder'
    BY <1>19 DEF AllClosed
<1>20. ASSUME PumpsEnded
      PROVE  StopsInOrder'
    BY <1>20 DEF PumpsEnded
<1> QED
    BY <1>1, <1>2, <1>3, <1>4, <1>5, <1>6, <1>7, <1>8, <1>9, <1>10, <1>11, <1>12,
           <1>13, <1>14, <1>15, <1>16, <1>17, <1>18, <1>19, <1>20
    DEF Next, Work, Begins, Ends, Retires, Shutdown, closeVars, failVars,
       OwnResource

\* A release fails at a session's end, and whoever ended the session is still there
\* to record it: the rollback at once, the retiring reader, or the loop of close().
LEMMA FailuresStep ==
    ASSUME IInv, Next
    PROVE  FailuresFollowed'
<1> USE SessionConstants DEF IInv, TypeOK, closeVars, failVars, MapsMatch,
       HeldUntilOver, StopsInOrder, FailuresFollowed, ToBeClosed, Retiring, Begun,
       Published, Stopped
<1>1. CASE UNCHANGED <<life, stage, toClose, reader, failures, broken>>
    BY <1>1
<1>2. ASSUME NEW c \in Callers, Connect(c)
      PROVE  FailuresFollowed'
    <2>1. CASE UNCHANGED <<opening, stage>>
        BY <1>2, <2>1, ConnectAsks DEF Connect, closeVars, failVars
    <2>2. CASE ~UNCHANGED <<opening, stage>>
        <3>1. PICK s \in Sessions :
                /\ stage[s] = "unused"
                /\ opening[HomeOf[s]] = NoSession /\ live[HomeOf[s]] = NoSession
                /\ stage' = [stage EXCEPT ![s] = "asked"]
                /\ opening' = [opening EXCEPT ![HomeOf[s]] = s]
            BY <1>2, <2>2, ConnectAsks
        <3>2. UNCHANGED <<life, live, held, reader, toClose, pumps, failures, broken,
               report>>
            BY <1>2 DEF Connect
        <3> QED BY <1>2, <3>1, <3>2, ConnectAsks
    <2> QED BY <2>1, <2>2
<1>3. ASSUME NEW c \in Callers, Connected(c)
      PROVE  FailuresFollowed'
    BY <1>3 DEF Connected, Settled, Watches
<1>4. ASSUME NEW s \in Sessions, Start(s)
      PROVE  FailuresFollowed'
    BY <1>4 DEF Start, Stopped
<1>5. ASSUME NEW s \in Sessions, StartFails(s)
      PROVE  FailuresFollowed'
    BY <1>5 DEF StartFails
<1>6. ASSUME NEW s \in Sessions, Made(s)
      PROVE  FailuresFollowed'
    BY <1>6 DEF Made, OpeningWithout
<1>7. ASSUME NEW s \in Sessions, NEW ok \in BOOLEAN, RolledBack(s, ok)
      PROVE  FailuresFollowed'
    BY <1>7 DEF RolledBack, Release, FailureRecorded
<1>8. ASSUME NEW s \in Sessions, NEW ok \in BOOLEAN, SessionCloses(s, ok)
      PROVE  FailuresFollowed'
    BY <1>8 DEF SessionCloses, Release
<1>9. ASSUME NEW s \in Sessions, ReaderEnds(s)
      PROVE  FailuresFollowed'
    BY <1>9 DEF ReaderEnds, CloseSession, LiveBeforeRetiring
<1>10. ASSUME NEW s \in Sessions, Unpublish(s)
      PROVE  FailuresFollowed'
    BY <1>10 DEF Unpublish
<1>11. ASSUME NEW s \in Sessions, Reported(s)
      PROVE  FailuresFollowed'
    BY <1>11 DEF Reported, FailureRecorded
<1>12. ASSUME Close
      PROVE  FailuresFollowed'
    BY <1>12 DEF Close
<1>13. ASSUME Drain
      PROVE  FailuresFollowed'
    BY <1>13 DEF Drain, Drained
<1>14. ASSUME OpeningsSettled
      PROVE  FailuresFollowed'
    BY <1>14 DEF OpeningsSettled
<1>15. ASSUME CloseNext
      PROVE  FailuresFollowed'
    BY <1>15 DEF CloseNext, CloseSession
<1>16. ASSUME NextClosed
      PROVE  FailuresFollowed'
    BY <1>16, TailKeeps DEF NextClosed
<1>17. ASSUME AllClosed
      PROVE  FailuresFollowed'
    BY <1>17 DEF AllClosed
<1>18. ASSUME PumpsEnded
      PROVE  FailuresFollowed'
    BY <1>18 DEF PumpsEnded
<1> QED
    BY <1>1, <1>2, <1>3, <1>4, <1>5, <1>6, <1>7, <1>8, <1>9, <1>10, <1>11, <1>12,
           <1>13, <1>14, <1>15, <1>16, <1>17, <1>18
    DEF Next, Work, Begins, Ends, Retires, Shutdown, closeVars, failVars,
       Call, Finish, OwnResource

\* Nothing fails once close() has returned, so its report stays true.
LEMMA SurfaceStep ==
    ASSUME IInv, Next
    PROVE  FailuresSurface'
<1> USE SessionConstants DEF IInv, TypeOK, closeVars, failVars, StopsInOrder,
       FailuresFollowed, FailuresSurface, ToBeClosed, Retiring, Begun, Published
<1>1. CASE UNCHANGED <<life, broken, report>>
    BY <1>1
<1>2. ASSUME NEW s \in Sessions, NEW ok \in BOOLEAN, RolledBack(s, ok)
      PROVE  FailuresSurface'
    <2>1. CASE life = "closed"
        <3>1. stage[s] \notin Begun
            BY <2>1 DEF MapsMatch
        <3> QED BY <1>2, <3>1 DEF RolledBack
    <2>2. CASE life # "closed"
        BY <1>2, <2>2 DEF RolledBack
    <2> QED BY <2>1, <2>2
<1>3. ASSUME NEW s \in Sessions, NEW ok \in BOOLEAN, SessionCloses(s, ok)
      PROVE  FailuresSurface'
    BY <1>3 DEF SessionCloses, Release
<1>4. ASSUME Close
      PROVE  FailuresSurface'
    BY <1>4 DEF Close
<1>5. ASSUME Drain
      PROVE  FailuresSurface'
    BY <1>5 DEF Drain, Drained
<1>6. ASSUME OpeningsSettled
      PROVE  FailuresSurface'
    BY <1>6 DEF OpeningsSettled
<1>7. ASSUME AllClosed
      PROVE  FailuresSurface'
    BY <1>7 DEF AllClosed
<1>8. ASSUME PumpsEnded
      PROVE  FailuresSurface'
    BY <1>8 DEF PumpsEnded
<1> QED
    BY <1>1, <1>2, <1>3, <1>4, <1>5, <1>6, <1>7, <1>8
    DEF Next, Work, Begins, Ends, Retires, Shutdown, closeVars, failVars,
       Call, Connect, Connected, Finish, Start, OwnResource, StartFails, Made,
       ReaderEnds, Unpublish, Reported, CloseNext, NextClosed

--------------------------------------------------------------------------------
\* The invariant and what it implies

\* All of it holds at the start.
LEMMA IInvInit == Init => IInv
<1> SUFFICES ASSUME Init PROVE IInv
    OBVIOUS
<1> USE SessionConstants DEF Init
<1>1. TypeOK
    BY DEF TypeOK, Stages, Stops
<1>2. MapsMatch /\ OneAtATime /\ HeldUntilOver
    BY DEF MapsMatch, OneAtATime, HeldUntilOver, Begun, Published
<1>3. StopsInOrder /\ FailuresFollowed /\ FailuresSurface
    BY DEF StopsInOrder, FailuresFollowed, FailuresSurface, ToBeClosed, Retiring
<1> QED BY <1>1, <1>2, <1>3 DEF IInv

\* Every step keeps it.
LEMMA IInvStep == IInv /\ [Next]_vars => IInv'
<1> SUFFICES ASSUME IInv, [Next]_vars PROVE IInv'
    OBVIOUS
<1>1. CASE Next
    BY <1>1, TypeStep, MapsStep, HeldStep, StopsStep, FailuresStep, SurfaceStep DEF IInv
<1>2. CASE UNCHANGED vars
    BY <1>2 DEF vars, IInv, TypeOK, MapsMatch, OneAtATime, HeldUntilOver, StopsInOrder,
                FailuresFollowed, FailuresSurface, ToBeClosed, Retiring, Admitted
<1> QED BY <1>1, <1>2

\* The inductive invariant holds in every state of every behaviour.
THEOREM SessionsInvariant == Spec => []IInv
<1> QED BY IInvInit, IInvStep, PTL DEF Spec

\* Every variable keeps its type, for any number of conversations and callers.
THEOREM TypeCorrect == Spec => []TypeOK
<1>1. IInv => TypeOK
    BY DEF IInv
<1> QED BY <1>1, SessionsInvariant, PTL

\* A conversation never has two sessions holding provider resources: both would
\* be its only opening entry or its only live one.
THEOREM NeverTwoSessions == Spec => []OneSessionPerConversation
<1>1. ASSUME IInv, NEW s \in held \ broken, NEW t \in held \ broken,
       HomeOf[s] = HomeOf[t]
      PROVE  s = t
    <2>1. s \in Sessions /\ t \in Sessions /\ HomeOf[s] \in Conversations
        BY <1>1, SessionConstants DEF IInv, TypeOK
    <2>2. opening[HomeOf[s]] = s \/ live[HomeOf[s]] = s
        BY <1>1, <2>1 DEF IInv, HeldUntilOver, MapsMatch
    <2>3. opening[HomeOf[s]] = t \/ live[HomeOf[s]] = t
        BY <1>1, <2>1 DEF IInv, HeldUntilOver, MapsMatch
    <2>4. opening[HomeOf[s]] = NoSession \/ live[HomeOf[s]] = NoSession
        BY <1>1, <2>1 DEF IInv, OneAtATime
    <2> QED BY <1>1, <2>1, <2>2, <2>3, <2>4, SessionConstants
<1>2. IInv => OneSessionPerConversation
    BY <1>1 DEF OneSessionPerConversation
<1> QED BY <1>2, SessionsInvariant, PTL

\* When close() has returned, no resource is held but those whose release failed,
\* no start is under way, and no reader will still report to the closed history.
THEOREM CloseIsComplete == Spec => []NothingOutlivesClose
<1>1. ASSUME IInv, life = "closed"
      PROVE  /\ held \subseteq broken /\ Admitted = {}
             /\ \A i \in Conversations : opening[i] = NoSession
             /\ \A s \in Sessions : ~Retiring(s)
    <2>1. Admitted = {} /\ \A i \in Conversations : opening[i] = NoSession
        BY <1>1 DEF IInv, StopsInOrder
    <2>2. \A s \in Sessions : ~Retiring(s)
        BY <1>1 DEF IInv, StopsInOrder
    <2>3. \A s \in Sessions : stage[s] \notin Begun \cup Published
        BY <1>1, <2>1, SessionConstants DEF IInv, MapsMatch, StopsInOrder, ToBeClosed
    <2>4. held \subseteq broken
        BY <1>1, <2>3 DEF IInv, TypeOK, HeldUntilOver
    <2> QED BY <2>1, <2>2, <2>4
<1>2. IInv => NothingOutlivesClose
    BY <1>1 DEF NothingOutlivesClose, Retiring
<1> QED BY <1>2, SessionsInvariant, PTL

\* A release that failed anywhere makes close() reject.
THEOREM CloseReportsFailures == Spec => []FailuresSurface
<1>1. IInv => FailuresSurface
    BY DEF IInv
<1> QED BY <1>1, SessionsInvariant, PTL

================================================================================
