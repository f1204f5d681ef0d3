--------------------------- MODULE ManagerLockProofs ---------------------------
(***************************************************************************)
(* Whatever number of managers and processes: two managers own the data    *)
(* root at once only after a reclaimer has removed a lock other than the   *)
(* one it compared, and never while every process lives.  That a reclaimer *)
(* does remove such a lock is what the run lock_two_reclaimers shows.      *)
(***************************************************************************)
EXTENDS ManagerLock, TLAPS

\* From its creation to its release, the file of a live manager is in place.
FileInPlace ==
    \A m \in Managers :
        IsAlive(m) /\ pc[m] \in {"writing", "owner", "checking", "removing"} => file = m

\* A reclaimer has seen a dead writer's lock.
SeenDead ==
    \A m \in Managers :
        IsAlive(m) /\ pc[m] \in {"comparing", "unlinking"} =>
            seen[m] \in Managers /\ ~IsAlive(seen[m])

LockInv ==
    /\ TypeOK
    /\ SeenDead
    /\ displaced => alive # Processes
    /\ ~displaced => FileInPlace

\* A manager that is acquiring has an attempt left.
TriesLeft == \A m \in Managers : pc[m] \in Acquiring \cup {"idle"} => tries[m] < Attempts

LEMMA InitTypes == Init => TypeOK /\ TriesLeft
<1>1. Init => displaced \in BOOLEAN
  BY DEF Init
<1> QED
  BY <1>1, LockConstants DEF Init, TriesLeft, Acquiring, TypeOK, Places, Attempts

\* Every variable stays in its range: manager.lock only ever names managers of
\* this data root, and no manager tries the creation more than twice.
THEOREM LockTypes == Spec => []TypeOK
<1>1. Init => TypeOK /\ TriesLeft
  BY InitTypes
<1>2. TypeOK /\ TriesLeft /\ [Next]_vars => TypeOK' /\ TriesLeft'
  <2> SUFFICES ASSUME TypeOK, TriesLeft, [Next]_vars PROVE TypeOK' /\ TriesLeft'
    OBVIOUS
  <2> USE LockConstants DEF TypeOK, TriesLeft, Places, Acquiring, Attempts, At, Go
  <2>1. ASSUME NEW m \in Managers, List(m) \/ Prepare(m) PROVE TypeOK' /\ TriesLeft'
    BY <2>1 DEF List, Prepare, Own
  <2>2. ASSUME NEW m \in Managers, PrepareJoins(m) PROVE TypeOK' /\ TriesLeft'
    BY <2>2 DEF PrepareJoins
  <2>3. ASSUME NEW m \in Managers, Open(m) PROVE TypeOK' /\ TriesLeft'
    BY <2>3 DEF Open
  <2>4. ASSUME NEW m \in Managers, Write(m) PROVE TypeOK' /\ TriesLeft'
    BY <2>4 DEF Write
  <2>5. ASSUME NEW m \in Managers, WriteFails(m) PROVE TypeOK' /\ TriesLeft'
    BY <2>5 DEF WriteFails
  <2>6. ASSUME NEW m \in Managers, Read(m) PROVE TypeOK' /\ TriesLeft'
    BY <2>6 DEF Read, Reclaimable
  <2>7. ASSUME NEW m \in Managers, Compare(m) PROVE TypeOK' /\ TriesLeft'
    BY <2>7 DEF Compare
  <2>8. ASSUME NEW m \in Managers, Unlink(m) PROVE TypeOK' /\ TriesLeft'
    BY <2>8 DEF Unlink
  <2>9. ASSUME NEW m \in Managers, Close(m) PROVE TypeOK' /\ TriesLeft'
    BY <2>9 DEF Close
  <2>10. ASSUME NEW m \in Managers, LookAtUnlock(m) PROVE TypeOK' /\ TriesLeft'
    BY <2>10 DEF LookAtUnlock
  <2>11. ASSUME NEW m \in Managers, Check(m) PROVE TypeOK' /\ TriesLeft'
    BY <2>11 DEF Check
  <2>12. ASSUME NEW m \in Managers, Remove(m) PROVE TypeOK' /\ TriesLeft'
    BY <2>12 DEF Remove
  <2>13. ASSUME NEW p \in Processes, Die(p) PROVE TypeOK' /\ TriesLeft'
    BY <2>13 DEF Die
  <2>14. CASE UNCHANGED vars
    BY <2>14 DEF vars
  <2> HIDE DEF TypeOK, TriesLeft, Places, Acquiring, Attempts, At, Go
  <2> QED
    BY <2>1, <2>2, <2>3, <2>4, <2>5, <2>6, <2>7, <2>8, <2>9, <2>10, <2>11, <2>12,
       <2>13, <2>14
    DEF Next, Proceed
<1> QED
  BY <1>1, <1>2, PTL DEF Spec

\* The invariant is inductive: each system call of one manager keeps every
\* other manager's claim on the file, or is the unlink that displaces it.
LEMMA LockInvStep ==
    ASSUME LockInv, TypeOK', [Next]_vars
    PROVE  LockInv'
<1> USE LockConstants DEF LockInv, TypeOK, FileInPlace, SeenDead, IsAlive, At, Acquiring
<1>1. ASSUME NEW m \in Managers, List(m) \/ Prepare(m) PROVE LockInv'
  <2>1. /\ At(m, "idle")
        /\ pc' = [pc EXCEPT ![m] = "opening"]
        /\ UNCHANGED <<file, alive, seen, displaced>>
    BY <1>1 DEF List, Prepare, Own, Go
  <2> QED
    BY <2>1
<1>2. ASSUME NEW m \in Managers, PrepareJoins(m) PROVE LockInv'
  BY <1>2 DEF PrepareJoins
<1>3. ASSUME NEW m \in Managers, Open(m) PROVE LockInv'
  <2>1. CASE file = NoFile
    <3>1. /\ file' = m /\ pc' = [pc EXCEPT ![m] = "writing"]
          /\ UNCHANGED <<alive, seen, displaced>>
      BY <1>3, <2>1 DEF Open, Go
    <3>2. ~displaced => \A n \in Managers :
            IsAlive(n) => pc[n] \notin {"writing", "owner", "checking", "removing"}
      BY <2>1
    <3> QED
      BY <1>3, <3>1, <3>2
  <2>2. CASE file # NoFile
    <3>1. pc' = [pc EXCEPT ![m] = "reading"] /\ UNCHANGED <<file, alive, seen, displaced>>
      BY <1>3, <2>2 DEF Open, Go
    <3> QED
      BY <1>3, <3>1
  <2> QED
    BY <2>1, <2>2
<1>4. ASSUME NEW m \in Managers, Write(m) PROVE LockInv'
  BY <1>4 DEF Write, Go
<1>5. ASSUME NEW m \in Managers, WriteFails(m) PROVE LockInv'
  BY <1>5 DEF WriteFails, Go
<1>6. ASSUME NEW m \in Managers, Read(m) PROVE LockInv'
  <2>1. CASE Reclaimable(file)
    <3>1. /\ pc' = [pc EXCEPT ![m] = "comparing"]
          /\ seen' = [seen EXCEPT ![m] = file]
          /\ UNCHANGED <<file, alive, displaced>>
      BY <1>6, <2>1 DEF Read, Go
    <3>2. file \in Managers /\ ~IsAlive(file)
      BY <2>1 DEF Reclaimable
    <3> QED
      BY <1>6, <3>1, <3>2
  <2>2. CASE ~Reclaimable(file)
    <3>1. pc' = [pc EXCEPT ![m] = "failed"] /\ UNCHANGED <<file, alive, seen, displaced>>
      BY <1>6, <2>2 DEF Read, Go
    <3> QED
      BY <1>6, <3>1
  <2> QED
    BY <2>1, <2>2
<1>7. ASSUME NEW m \in Managers, Compare(m) PROVE LockInv'
  <2>1. /\ At(m, "comparing") /\ UNCHANGED <<file, alive, seen, displaced>>
        /\ \E place \in {"unlinking", "failed"} : pc' = [pc EXCEPT ![m] = place]
    BY <1>7 DEF Compare, Go
  <2> QED
    BY <2>1
<1>8. ASSUME NEW m \in Managers, Unlink(m) PROVE LockInv'
  <2>1. /\ At(m, "unlinking") /\ file' = NoFile /\ UNCHANGED <<alive, seen>>
        /\ displaced' = (displaced \/ file \notin {seen[m], NoFile})
        /\ \E place \in {"opening", "failed"} : pc' = [pc EXCEPT ![m] = place]
    BY <1>8 DEF Unlink, Go
  <2>2. seen[m] \in Managers /\ ~IsAlive(seen[m]) /\ alive # Processes
    BY <2>1
  <2>3. ~displaced' => ~displaced /\ file \in {seen[m], NoFile}
    BY <2>1
  <2>4. ~displaced' => \A n \in Managers :
          IsAlive(n) => pc[n] \notin {"writing", "owner", "checking", "removing"}
    BY <2>2, <2>3
  <2>5. SeenDead'
    BY <2>1
  <2>6. ~displaced' => FileInPlace'
    BY <2>1, <2>4
  <2> QED
    BY <2>1, <2>2, <2>5, <2>6
<1>9. ASSUME NEW m \in Managers, Close(m) PROVE LockInv'
  BY <1>9 DEF Close
<1>10. ASSUME NEW m \in Managers, LookAtUnlock(m) PROVE LockInv'
  <2>1. CASE pc[m] = "owner"
    <3>1. pc' = [pc EXCEPT ![m] = "checking"] /\ UNCHANGED <<file, alive, seen, displaced>>
      BY <1>10, <2>1 DEF LookAtUnlock, Go
    <3> QED
      BY <2>1, <3>1
  <2>2. CASE pc[m] # "owner"
    BY <1>10, <2>2 DEF LookAtUnlock
  <2> QED
    BY <2>1, <2>2
<1>11. ASSUME NEW m \in Managers, Check(m) PROVE LockInv'
  <2>1. /\ At(m, "checking") /\ UNCHANGED <<file, alive, seen, displaced>>
        /\ \/ file = m /\ pc' = [pc EXCEPT ![m] = "removing"]
           \/ pc' = [pc EXCEPT ![m] = "gone"]
    BY <1>11 DEF Check, Go
  <2> QED
    BY <2>1
<1>12. ASSUME NEW m \in Managers, Remove(m) PROVE LockInv'
  <2>1. /\ At(m, "removing") /\ file' = NoFile /\ UNCHANGED <<alive, seen, displaced>>
        /\ pc' = [pc EXCEPT ![m] = "gone"]
    BY <1>12 DEF Remove, Go
  <2>2. ~displaced => \A n \in Managers \ {m} :
          IsAlive(n) => pc[n] \notin {"writing", "owner", "checking", "removing"}
    BY <2>1
  <2> QED
    BY <2>1, <2>2
<1>13. ASSUME NEW p \in Processes, Die(p) PROVE LockInv'
  <2>1. /\ alive' = alive \ {p} /\ p \in alive
        /\ UNCHANGED <<file, pc, seen, displaced>>
    BY <1>13 DEF Die
  <2>2. alive' # Processes
    BY <2>1
  <2> QED
    BY <2>1, <2>2
<1>14. CASE UNCHANGED vars
  BY <1>14 DEF vars
<1> QED
  BY <1>1, <1>2, <1>3, <1>4, <1>5, <1>6, <1>7, <1>8, <1>9, <1>10, <1>11, <1>12,
     <1>13, <1>14
  DEF Next, Proceed

LEMMA LockInvariant == Spec => []LockInv
<1>1. Init => LockInv
  <2>1. Init => TypeOK
    BY InitTypes
  <2>2. Init => SeenDead /\ FileInPlace
    BY DEF Init, SeenDead, FileInPlace
  <2>3. Init => ~displaced
    BY DEF Init
  <2> QED
    BY <2>1, <2>2, <2>3 DEF LockInv
<1>2. LockInv /\ TypeOK' /\ [Next]_vars => LockInv'
  BY LockInvStep
<1> QED
  BY <1>1, <1>2, LockTypes, PTL DEF Spec

\* Two managers own the data root at once only after a reclaimer has removed a
\* lock other than the one it compared, for any number of managers: whatever
\* creations, failed writes, releases and deaths come together, nothing else in
\* acquireLock lets a second owner in.
THEOREM OneOwner == Spec => []OnlyReclaimsClash
<1>1. LockInv => OnlyReclaimsClash
  BY DEF LockInv, FileInPlace, OnlyReclaimsClash, MutualExclusion, Holds
<1> QED
  BY <1>1, LockInvariant, PTL

\* While every process lives, one manager owns the data root at a time: two
\* owners need a crash before them, and two reclaimers of what it left.
THEOREM OneOwnerUntilADeath == Spec => [](alive = Processes => MutualExclusion)
<1>1. LockInv => (alive = Processes => MutualExclusion)
  BY DEF LockInv, FileInPlace, MutualExclusion, Holds
<1> QED
  BY <1>1, LockInvariant, PTL

================================================================================
