------------------------------ MODULE ManagerLock ------------------------------
(***************************************************************************)
(* The PID lock that keeps one Temporal manager per data root              *)
(* (packages/orchestration/temporal-orchestration/src/processes.ts,        *)
(* acquireLock) and its use by a manager's own() and close() (index.ts).   *)
(*                                                                         *)
(* Managers live in operating-system processes; a process dies as a whole  *)
(* and its PID is not reused.  The lock file is created exclusively        *)
(* ("wx") and then written, so a file is first empty, then names its       *)
(* writer.  A file is identified by the manager that created it: each      *)
(* manager draws one token and creates at most one file.  Each awaited     *)
(* system call is a step of its own, and other managers run between any    *)
(* two of them.                                                            *)
(***************************************************************************)
EXTENDS Naturals

CONSTANTS
    Managers,       \* the manager objects sharing one data root
    Processes,      \* the operating-system processes they live in
    ProcessOf,      \* the process of each manager
    NoFile,         \* manager.lock does not exist
    MayDie,         \* the processes that may crash
    Listing         \* the managers that may call listOwners

ASSUME LockConstants ==
    /\ ProcessOf \in [Managers -> Processes]
    /\ NoFile \notin Managers
    /\ MayDie \subseteq Processes
    /\ Listing \subseteq Managers

\* A loop that gives up after reclaiming.
OneAttempt == 1

\* The loop in acquireLock tries the exclusive creation twice.
Attempts == 2

VARIABLES
    file,       \* the creator of the file at manager.lock, or NoFile
    written,    \* the managers whose file holds its { pid, token }
    alive,      \* the processes still running
    pc,         \* where each manager's acquisition or release stands
    tries,      \* creations each manager has tried and lost
    seen,       \* the writer a manager read before reclaiming
    awaited,    \* managers whose close waits for the acquisition (prepare)
    closing,    \* "no", "asked" (closed = true) or "done" (close went past
                \* its look at unlock)
    displaced   \* a reclaimer has removed a lock other than the one it compared

vars == <<file, written, alive, pc, tries, seen, awaited, closing, displaced>>

Acquiring == {"opening", "writing", "reading", "comparing", "unlinking"}
Places == Acquiring \cup {"idle", "owner", "failed", "checking", "removing", "gone"}

\* Every variable stays in its range, and a manager that is about to reclaim a
\* lock has a writer to compare it with.
TypeOK ==
    /\ file \in Managers \cup {NoFile}
    /\ written \subseteq Managers
    /\ alive \subseteq Processes
    /\ pc \in [Managers -> Places]
    /\ tries \in [Managers -> 0..Attempts]
    /\ seen \in [Managers -> Managers \cup {NoFile}]
    /\ awaited \subseteq Managers
    /\ closing \in [Managers -> {"no", "asked", "done"}]
    /\ displaced \in BOOLEAN
    /\ \A m \in Managers : pc[m] \in {"comparing", "unlinking"} => seen[m] \in Managers

Init ==
    /\ file = NoFile
    /\ written = {}
    /\ alive = Processes
    /\ pc = [m \in Managers |-> "idle"]
    /\ tries = [m \in Managers |-> 0]
    /\ seen = [m \in Managers |-> NoFile]
    /\ awaited = {}
    /\ closing = [m \in Managers |-> "no"]
    /\ displaced = FALSE

\* isAlive: process.kill(pid, 0).
IsAlive(m) == ProcessOf[m] \in alive

At(m, place) == IsAlive(m) /\ pc[m] = place
Go(m, place) == pc' = [pc EXCEPT ![m] = place]

\* own(): refused once closed; the first caller starts the acquisition, and
\* its promise, a failure included, is kept for every later caller.
Own(m) ==
    /\ At(m, "idle") /\ closing[m] = "no"
    /\ Go(m, "opening")
    /\ UNCHANGED <<file, written, alive, tries, seen, closing, displaced>>

\* listOwners calls own(); nothing keeps track of it.
List(m) ==
    /\ m \in Listing
    /\ Own(m)
    /\ UNCHANGED awaited

\* prepare calls own() inside a promise that close waits for.
Prepare(m) ==
    /\ Own(m)
    /\ awaited' = awaited \cup {m}

\* prepare while a listing is acquiring: both wait for the same promise.
PrepareJoins(m) ==
    /\ IsAlive(m) /\ pc[m] \in Acquiring /\ closing[m] = "no"
    /\ awaited' = awaited \cup {m}
    /\ UNCHANGED <<file, written, alive, pc, tries, seen, closing, displaced>>

\* open(path, "wx") creates the file, or fails with EEXIST.
Open(m) ==
    /\ At(m, "opening")
    /\ IF file = NoFile
       THEN file' = m /\ Go(m, "writing")
       ELSE file' = file /\ Go(m, "reading")
    /\ UNCHANGED <<written, alive, tries, seen, awaited, closing, displaced>>

\* writeFile and sync on the open descriptor, whatever manager.lock now is.
Write(m) ==
    /\ At(m, "writing")
    /\ written' = written \cup {m}
    /\ Go(m, "owner")
    /\ UNCHANGED <<file, alive, tries, seen, awaited, closing, displaced>>

\* The write fails: the error leaves acquireLock and the file stays behind.
WriteFails(m) ==
    /\ At(m, "writing")
    /\ Go(m, "failed")
    /\ UNCHANGED <<file, written, alive, tries, seen, awaited, closing, displaced>>

\* A lock read as stale without probing its PID.
NamesAWriter(writer) == writer \in written

\* A lock that is gone by the time it is read taken for a stale one.
GoneOrStale(writer) == writer = NoFile \/ (writer \in written /\ ~IsAlive(writer))

\* The file can be reclaimed: it names a writer whose process is dead.
Reclaimable(writer) == writer \in written /\ ~IsAlive(writer)

\* Read the file: missing, incomplete and live locks all fail; a dead
\* writer's is remembered.
Read(m) ==
    /\ At(m, "reading")
    /\ IF Reclaimable(file)
       THEN seen' = [seen EXCEPT ![m] = file] /\ Go(m, "comparing")
       ELSE seen' = seen /\ Go(m, "failed")
    /\ UNCHANGED <<file, written, alive, tries, awaited, closing, displaced>>

\* "Compare immediately before reclaiming a dead writer."
Compare(m) ==
    /\ At(m, "comparing")
    /\ Go(m, IF file \in written /\ file = seen[m] THEN "unlinking" ELSE "failed")
    /\ UNCHANGED <<file, written, alive, tries, seen, awaited, closing, displaced>>

\* unlink(path) removes whatever is there by now, then the loop goes round once.
Unlink(m) ==
    /\ At(m, "unlinking")
    /\ file' = NoFile
    /\ displaced' = (displaced \/ file \notin {seen[m], NoFile})
    /\ tries' = [tries EXCEPT ![m] = @ + 1]
    /\ Go(m, IF tries[m] + 1 < Attempts THEN "opening" ELSE "failed")
    /\ UNCHANGED <<written, alive, seen, awaited, closing>>

\* close() sets closed, so own() refuses from here on.
Close(m) ==
    /\ IsAlive(m) /\ closing[m] = "no"
    /\ closing' = [closing EXCEPT ![m] = "asked"]
    /\ UNCHANGED <<file, written, alive, pc, tries, seen, awaited, displaced>>

\* A close that waits for nothing.
WaitsForNothing(m) == FALSE

\* Promise.allSettled over the preparations.
WaitsForLock(m) == m \in awaited /\ pc[m] \in Acquiring

\* After waiting for the preparations, close releases what it owns by then.
LookAtUnlock(m) ==
    /\ IsAlive(m) /\ closing[m] = "asked"
    /\ ~WaitsForLock(m)
    /\ closing' = [closing EXCEPT ![m] = "done"]
    /\ IF pc[m] = "owner" THEN Go(m, "checking") ELSE UNCHANGED pc
    /\ UNCHANGED <<file, written, alive, tries, seen, awaited, displaced>>

\* The release reads the file and removes it only if the token is its own.
Check(m) ==
    /\ At(m, "checking")
    /\ Go(m, IF file = m THEN "removing" ELSE "gone")
    /\ UNCHANGED <<file, written, alive, tries, seen, awaited, closing, displaced>>

Remove(m) ==
    /\ At(m, "removing")
    /\ file' = NoFile
    /\ Go(m, "gone")
    /\ UNCHANGED <<written, alive, tries, seen, awaited, closing, displaced>>

\* The whole process dies; its managers stop where they are.
Die(p) ==
    /\ p \in MayDie \cap alive
    /\ alive' = alive \ {p}
    /\ UNCHANGED <<file, written, pc, tries, seen, awaited, closing, displaced>>

\* What a manager does on its own once own() or close() has been called.
Proceed(m) ==
    \/ Open(m) \/ Write(m) \/ WriteFails(m) \/ Read(m) \/ Compare(m) \/ Unlink(m)
    \/ LookAtUnlock(m) \/ Check(m) \/ Remove(m)

Next ==
    \/ \E m \in Managers :
        List(m) \/ Prepare(m) \/ PrepareJoins(m) \/ Close(m) \/ Proceed(m)
    \/ \E p \in Processes : Die(p)

Spec == Init /\ [][Next]_vars

\* System calls return: nothing else is assumed to happen.
Fairness == \A m \in Managers : WF_vars(Proceed(m))
FairSpec == Spec /\ Fairness

--------------------------------------------------------------------------------

\* acquireLock has returned and its release has not run to the end.
Holds(m) == IsAlive(m) /\ pc[m] \in {"owner", "checking", "removing"}

\* "One manager per data root": two acquisitions never both stand.  It is what
\* the unsynchronised receipt files and run indexes rely on, and more than
\* acquireLock gives.
MutualExclusion ==
    \A m, n \in Managers : Holds(m) /\ Holds(n) => m = n

\* What it gives: whatever creations, failed writes, releases, deaths and
\* reclaims come together, two managers own the data root only after one
\* reclaimer removed a lock that another had put in place since it compared.
OnlyReclaimsClash == MutualExclusion \/ displaced

\* Between a manager's call and its return there is more of its work to come.
Midway(m) == IsAlive(m) /\ pc[m] \in Acquiring \cup {"checking", "removing"}

\* A reclaimer died after its unlink and before its own creation.
DiedReclaiming == \E m \in Managers : ~IsAlive(m) /\ pc[m] = "opening" /\ tries[m] > 0

\* A dead owner is reclaimed within the two attempts: where an acquirer starts at
\* the complete lock of a dead process and no other manager is midway, another
\* lock takes its place, the acquirer's or that of a manager that joins it,
\* unless the one that removes the dead lock dies as well.
DeadOwnerIsReclaimed ==
    \A m, d \in Managers :
        (/\ At(m, "opening") /\ tries[m] = 0
         /\ file = d /\ Reclaimable(d)
         /\ \A n \in Managers \ {m} : ~Midway(n)) ~>
            (file \in Managers \ {d} \/ ~IsAlive(m) \/ DiedReclaiming)

\* A closed manager does not keep the data root: whatever preparation its
\* close raced with, it ends up without the lock.
ClosedLetsGo ==
    \A m \in Managers :
        (closing[m] = "asked" /\ (pc[m] \in Acquiring => m \in awaited)) ~>
            (~IsAlive(m) \/ pc[m] \in {"idle", "failed", "gone"})

================================================================================
