---------------------- MODULE AuthorizationSchedulerProofs ----------------------
(***************************************************************************)
(* Theorems about the authorization scheduler, for any pools, limits, jobs *)
(* and traffic.  Every operation that frees a slot drains its pool, so the *)
(* proofs follow one drain: what the operation hands to it (Queueing,      *)
(* SlotsHeld, Waiters, Continues), what it leaves (DrainedTo), and that    *)
(* the two together restore the inductive invariant.  That invariant says  *)
(* what a slot, a place in a queue and an unanswered caller have to do     *)
(* with each other.                                                        *)
(***************************************************************************)
EXTENDS AuthorizationScheduler, FiniteSetTheorems, SequenceTheorems, TLAPS

\* A job that queues waits for its answer and was never evaluated.
QueuedWait ==
    \A p \in Pools : \A i \in DOMAIN queue[p] :
        result[queue[p][i]] = "waiting" /\ evaluation[queue[p][i]] = "none"

\* A caller waits only while its job queues or has a slot, a job is evaluated
\* only for a caller, and whoever is evaluated to the end has been told.
WaitersAreKnown ==
    \A j \in Jobs :
        /\ result[j] = "waiting" => Queued(j) \/ j \in active
        /\ result[j] = "none" => evaluation[j] = "none"
        /\ evaluation[j] \in {"over", "released"} => result[j] # "waiting"

\* After shutdown nobody queues and nobody waits.
ClosedIsEmpty ==
    closed => /\ \A p \in Pools : queue[p] = <<>>
              /\ \A j \in Jobs : result[j] # "waiting"

IInv == TypeOK /\ QueuedWait /\ WaitersAreKnown /\ ClosedIsEmpty /\ SlotsAreEvaluations

--------------------------------------------------------------------------------
\* Queues

Distinct(q) == \A i, k \in DOMAIN q : q[i] = q[k] => i = k

\* What n shifts leave of a queue is its end, in the same order.
LEMMA RestOfQueue ==
    ASSUME NEW q \in Seq(Jobs), NEW n \in 0..Len(q)
    PROVE  /\ Shifted(q, n).rest \in Seq(Jobs)
           /\ Len(Shifted(q, n).rest) = Len(q) - n
           /\ \A m \in 1..(Len(q) - n) : Shifted(q, n).rest[m] = q[n + m]
<1>1. Len(q) \in Nat /\ \A i \in (n + 1)..Len(q) : q[i] \in Jobs
    BY ElementOfSeq, LenProperties
<1>2. /\ SubSeq(q, n + 1, Len(q)) \in Seq(Jobs)
      /\ Len(SubSeq(q, n + 1, Len(q))) = IF n + 1 <= Len(q) THEN Len(q) - (n + 1) + 1 ELSE 0
      /\ \A i \in 1..(Len(q) - (n + 1) + 1) : SubSeq(q, n + 1, Len(q))[i] = q[n + 1 + i - 1]
    BY <1>1, SubSeqProperties
<1>3. Shifted(q, n).rest = SubSeq(q, n + 1, Len(q))
    BY DEF Shifted
<1> QED BY <1>1, <1>2, <1>3

\* What follows a place of a queue.
LEMMA RestOf ==
    ASSUME NEW q \in Seq(Jobs), NEW i \in 1..Len(q)
    PROVE  /\ SubSeq(q, i + 1, Len(q)) \in Seq(Jobs)
           /\ Len(SubSeq(q, i + 1, Len(q))) = Len(q) - i
           /\ \A n \in 1..(Len(q) - i) : SubSeq(q, i + 1, Len(q))[n] = q[i + n]
<1>1. /\ SubSeq(q, i + 1, Len(q)) \in Seq(Jobs)
      /\ Len(SubSeq(q, i + 1, Len(q))) = Len(q) - i
    BY SMT
<1>2. \A n \in 1..(Len(q) - i) : SubSeq(q, i + 1, Len(q))[n] = q[i + n]
    BY SMT
<1> QED BY <1>1, <1>2

\* Splicing a job out of a queue keeps the others, in their order.
LEMMA SplicedQueue ==
    ASSUME NEW q \in Seq(Jobs), Distinct(q), NEW j \in Jobs
    PROVE  /\ Spliced(q, j) \in Seq(Jobs) /\ Len(Spliced(q, j)) <= Len(q)
           /\ Distinct(Spliced(q, j))
           /\ \A n \in DOMAIN Spliced(q, j) :
                Spliced(q, j)[n] # j /\ \E i \in DOMAIN q : q[i] = Spliced(q, j)[n]
           /\ \A i \in DOMAIN q : q[i] # j => \E n \in DOMAIN Spliced(q, j) : Spliced(q, j)[n] = q[i]
<1> DEFINE at == {i \in DOMAIN q : q[i] = j}
<1>0. Len(q) \in Nat /\ DOMAIN q = 1..Len(q) /\ \A i \in 1..Len(q) : q[i] \in Jobs
    BY ElementOfSeq, LenProperties
<1>1. CASE at = {}
    <2>1. Spliced(q, j) = q
        BY <1>1 DEF Spliced
    <2> QED BY <1>0, <1>1, <2>1
<1>2. CASE at # {}
    <2>1. PICK i \in DOMAIN q : q[i] = j /\ Spliced(q, j) = RemoveAt(q, i)
        BY <1>2 DEF Spliced
    <2> DEFINE a == SubSeq(q, 1, i - 1)
               b == SubSeq(q, i + 1, Len(q))
               s == Spliced(q, j)
    <2>2. a \in Seq(Jobs) /\ Len(a) = i - 1 /\ \A n \in 1..(i - 1) : a[n] = q[n]
        <3>1. \A n \in 1..(i - 1) : q[n] \in Jobs
            BY <1>0, <2>1
        <3>2. /\ SubSeq(q, 1, i - 1) \in Seq(Jobs)
              /\ Len(SubSeq(q, 1, i - 1)) = IF 1 <= i - 1 THEN (i - 1) - 1 + 1 ELSE 0
              /\ \A n \in 1..((i - 1) - 1 + 1) : SubSeq(q, 1, i - 1)[n] = q[1 + n - 1]
            BY <1>0, <3>1, SubSeqProperties
        <3> QED BY <1>0, <3>2
    <2>3. b \in Seq(Jobs) /\ Len(b) = Len(q) - i /\ \A n \in 1..(Len(q) - i) : b[n] = q[i + n]
        BY <1>0, <2>1, RestOf
    <2> HIDE DEF a, b
    <2>4. s = a \o b
        BY <2>1 DEF RemoveAt, a, b
    <2>5. s \in Seq(Jobs) /\ Len(s) = Len(q) - 1 /\ DOMAIN s = 1..(Len(q) - 1)
        <3>1. s \in Seq(Jobs) /\ Len(s) = Len(a) + Len(b)
            BY <2>2, <2>3, <2>4, ConcatProperties
        <3>2. Len(s) = Len(q) - 1
            BY <1>0, <2>2, <2>3, <3>1
        <3> QED BY <3>1, <3>2
    <2>6. \A n \in 1..(Len(q) - 1) : s[n] = IF n < i THEN q[n] ELSE q[n + 1]
        <3> SUFFICES ASSUME NEW n \in 1..(Len(q) - 1)
                     PROVE  s[n] = IF n < i THEN q[n] ELSE q[n + 1]
            OBVIOUS
        <3>1. s[n] = IF n <= Len(a) THEN a[n] ELSE b[n - Len(a)]
            BY <1>0, <2>2, <2>3, <2>4
        <3>2. CASE n < i
            BY <1>0, <2>2, <3>1, <3>2
        <3>3. CASE n >= i
            <4>1. n - (i - 1) \in 1..(Len(q) - i) /\ i + (n - (i - 1)) = n + 1
                BY <1>0, <3>3
            <4>2. s[n] = b[n - (i - 1)]
                BY <1>0, <2>2, <3>1, <3>3
            <4>3. b[n - (i - 1)] = q[i + (n - (i - 1))]
                BY <2>3, <4>1
            <4> QED BY <3>3, <4>1, <4>2, <4>3, <1>0
        <3> QED BY <1>0, <3>2, <3>3
    <2> HIDE DEF s
    <2>7. \A k \in DOMAIN q : q[k] = j => k = i
        BY <2>1 DEF Distinct
    <2>8. Distinct(s)
        BY <1>0, <2>5, <2>6 DEF Distinct
    <2>9. \A n \in DOMAIN s : s[n] # j /\ \E k \in DOMAIN q : q[k] = s[n]
        <3> SUFFICES ASSUME NEW n \in DOMAIN s
                     PROVE  s[n] # j /\ \E k \in DOMAIN q : q[k] = s[n]
            OBVIOUS
        <3>1. CASE n < i
            BY <1>0, <2>5, <2>6, <2>7, <3>1
        <3>2. CASE n >= i
            BY <1>0, <2>5, <2>6, <2>7, <3>2
        <3> QED BY <1>0, <2>5, <3>1, <3>2
    <2>10. ASSUME NEW k \in DOMAIN q, q[k] # j
           PROVE  \E n \in DOMAIN s : s[n] = q[k]
        <3>1. CASE k < i
            <4>1. k \in DOMAIN s /\ s[k] = q[k]
                BY <1>0, <2>5, <2>6, <3>1
            <4> QED BY <4>1
        <3>2. CASE k > i
            <4>1. k - 1 \in DOMAIN s /\ s[k - 1] = q[k]
                BY <1>0, <2>5, <2>6, <3>2
            <4> QED BY <4>1
        <3> QED BY <1>0, <2>1, <2>10, <3>1, <3>2
    <2> QED BY <1>0, <2>5, <2>8, <2>9, <2>10 DEF s
<1> QED BY <1>1, <1>2

--------------------------------------------------------------------------------
\* Slots

\* Finitely many jobs, so any set of them can be counted.
LEMMA JobsCount ==
    ASSUME NEW A \in SUBSET Jobs
    PROVE  IsFiniteSet(A) /\ Cardinality(A) \in Nat
BY SchedulerConstants, FS_Subset, FS_CardinalityType

\* One more shift starts at most one more job.
LEMMA OneMoreShift ==
    ASSUME NEW q \in Seq(Jobs), NEW n \in 1..Len(q), NEW fit \in SUBSET Jobs
    PROVE  Cardinality(Shifted(q, n).taken \cap fit) <= Cardinality(Shifted(q, n - 1).taken \cap fit) + 1
<1> DEFINE A == Shifted(q, n - 1).taken \cap fit
           B == Shifted(q, n).taken \cap fit
<1>1. Len(q) \in Nat /\ n - 1 \in Nat /\ 1..n = (1..(n - 1)) \cup {n}
    BY LenProperties
<1>2. B \in SUBSET (A \cup {q[n]})
    BY <1>1 DEF Shifted
<1>3. A \in SUBSET Jobs /\ B \in SUBSET Jobs
    OBVIOUS
<1> HIDE DEF A, B
<1>4. IsFiniteSet(A) /\ Cardinality(A) \in Nat /\ Cardinality(B) \in Nat
    BY <1>3, JobsCount
<1>5. IsFiniteSet(A \cup {q[n]}) /\ Cardinality(A \cup {q[n]}) <= Cardinality(A) + 1
    <2>1. /\ IsFiniteSet(A \cup {q[n]})
          /\ Cardinality(A \cup {q[n]}) = IF q[n] \in A THEN Cardinality(A) ELSE Cardinality(A) + 1
        BY <1>4, FS_AddElement
    <2> QED BY <1>4, <2>1
<1>6. Cardinality(A \cup {q[n]}) \in Nat
    BY <1>5, FS_CardinalityType
<1>7. Cardinality(B) <= Cardinality(A \cup {q[n]})
    BY <1>2, <1>5, FS_Subset
<1>8. Cardinality(B) <= Cardinality(A) + 1
    BY <1>4, <1>5, <1>6, <1>7
<1> QED BY <1>8 DEF A, B

\* Slots of a pool given to jobs that had none are counted once each.
LEMMA SlotsAdd ==
    ASSUME NEW p, NEW act \in SUBSET Jobs, NEW more \in SUBSET Jobs,
           act \cap more = {}, \A j \in more : PoolOf[j] = p
    PROVE  /\ Cardinality(ActiveIn(p, act \cup more)) = Cardinality(ActiveIn(p, act)) + Cardinality(more)
           /\ \A r \in Pools \ {p} : ActiveIn(r, act \cup more) = ActiveIn(r, act)
<1>1. ActiveIn(p, act \cup more) = ActiveIn(p, act) \cup more /\ ActiveIn(p,
       act) \cap more = {}
    BY DEF ActiveIn
<1>2. IsFiniteSet(ActiveIn(p, act)) /\ IsFiniteSet(more)
        /\ Cardinality(ActiveIn(p, act)) \in Nat /\ Cardinality(more) \in Nat
    BY JobsCount DEF ActiveIn
<1>3. Cardinality(ActiveIn(p, act) \cup more)
        = Cardinality(ActiveIn(p, act)) + Cardinality(more) - Cardinality(ActiveIn(p, act) \cap more)
    BY <1>2, FS_Union
<1>4. Cardinality(ActiveIn(p, act) \cap more) = 0
    BY <1>1, FS_EmptySet
<1>5. \A r \in Pools \ {p} : ActiveIn(r, act \cup more) = ActiveIn(r, act)
    BY DEF ActiveIn
<1>6. Cardinality(ActiveIn(p, act) \cup more) = Cardinality(ActiveIn(p,
       act)) + Cardinality(more)
    BY <1>2, <1>3, <1>4
<1> QED BY <1>1, <1>5, <1>6

\* drain shifted n jobs and started those in start.
DrainedTo(p, q, act, evs, res, n, start) ==
    /\ start \subseteq Shifted(q, n).taken
    /\ queue' = [queue EXCEPT ![p] = Shifted(q, n).rest]
    /\ active' = act \cup start
    /\ evaluation' = [j \in Jobs |-> IF j \in start THEN "running" ELSE evs[j]]
    /\ result' = [j \in Jobs |-> IF j \in Shifted(q, n).taken \ start THEN Reason(j) ELSE res[j]]
    /\ Cardinality(ActiveIn(p, active')) \in Nat
    /\ Cardinality(ActiveIn(p, active')) <= Limit[p]
    /\ \A r \in Pools \ {p} : ActiveIn(r, active') = ActiveIn(r, act)
    /\ n < Len(q) => closed \/ Cardinality(ActiveIn(p, active')) >= Limit[p]
    /\ closed => n = 0

\* What drain does to a pool whose slots are within its limit: it takes the head
\* of the queue, jobs that fit get a slot and the others their reason, the
\* limit holds, and it stops only at a full pool, an empty queue or a shutdown.
LEMMA DrainEffect ==
    ASSUME NEW p \in Pools, NEW q \in Seq(Jobs), \A i \in DOMAIN q : PoolOf[q[i]] = p,
           NEW act \in SUBSET Jobs, \A i \in DOMAIN q : q[i] \notin act,
           Cardinality(ActiveIn(p, act)) <= Limit[p], closed \in BOOLEAN,
           NEW evs, NEW lft, NEW res, Drain(p, q, act, evs, lft, res)
    PROVE  \E n \in 0..Len(q), start \in SUBSET Jobs : DrainedTo(p, q, act, evs, res, n, start)
<1> DEFINE fit == {j \in Jobs : j \notin aborted /\ lft[j] >= Floor}
           Started(n) == Shifted(q, n).taken \cap fit
           Goes(n) == n < Len(q) /\ Cardinality(Started(n)) < Free(p, act)
<1>0. Len(q) \in Nat /\ DOMAIN q = 1..Len(q) /\ \A i \in 1..Len(q) : q[i] \in Jobs
    BY ElementOfSeq, LenProperties
<1>1. PICK n \in 0..Len(q) :
        /\ ~Goes(n) /\ \A m \in 0..(n - 1) : Goes(m)
        /\ queue' = [queue EXCEPT ![p] = Shifted(q, n).rest]
        /\ active' = act \cup Started(n)
        /\ evaluation' = [j \in Jobs |-> IF j \in Started(n) THEN "running" ELSE evs[j]]
        /\ result' = [j \in Jobs |-> IF j \in Shifted(q, n).taken \ fit THEN Reason(j) ELSE res[j]]
    BY DEF Drain
<1> DEFINE start == Started(n)
           used == Cardinality(ActiveIn(p, act))
<1>2. start \in SUBSET Jobs /\ act \cap start = {} /\ \A j \in start : PoolOf[j] = p
    BY <1>0 DEF Shifted
<1>3. Limit[p] \in Nat
    BY SchedulerConstants
<1>4. used \in Nat /\ \A m \in 0..Len(q) : Cardinality(Started(m)) \in Nat
    BY JobsCount DEF ActiveIn
<1>5. used <= Limit[p]
    OBVIOUS
<1>6. Free(p, act) = IF closed THEN 0 ELSE Limit[p] - used
    BY DEF Free
<1>7. n >= 1 => Cardinality(Started(n)) <= Cardinality(Started(n - 1)) + 1
    <2> SUFFICES ASSUME n >= 1
                 PROVE  Cardinality(Started(n)) <= Cardinality(Started(n - 1)) + 1
        OBVIOUS
    <2>1. n \in 1..Len(q) /\ fit \in SUBSET Jobs
        BY <1>0
    <2> QED BY <2>1, OneMoreShift
<1>8. n = 0 => Cardinality(Started(n)) = 0
    <2>1. n = 0 => Started(n) = {}
        BY DEF Shifted
    <2> QED BY <2>1, FS_EmptySet
<1>9. Cardinality(ActiveIn(p, act \cup start)) = used + Cardinality(start)
        /\ \A r \in Pools \ {p} : ActiveIn(r, act \cup start) = ActiveIn(r, act)
    BY <1>2, SlotsAdd
<1>10. n < Len(q) => closed \/ used + Cardinality(start) >= Limit[p]
    BY <1>0, <1>1, <1>3, <1>4, <1>6
<1>11. closed => n = 0
    <2> SUFFICES ASSUME closed, n >= 1 PROVE FALSE
        BY <1>0
    <2>1. n - 1 \in 0..Len(q) /\ n - 1 \in 0..(n - 1)
        BY <1>0
    <2>2. Goes(n - 1)
        BY <1>1, <2>1
    <2>3. Cardinality(Started(n - 1)) \in Nat
        BY <1>4, <2>1
    <2> QED BY <1>6, <2>2, <2>3
<1>12. used + Cardinality(start) <= Limit[p]
    <2>1. CASE n = 0
        BY <1>3, <1>4, <1>5, <1>8, <2>1
    <2>2. CASE n >= 1
        <3>1. Goes(n - 1) /\ ~closed
            <4>1. n - 1 \in 0..(n - 1)
                BY <1>0, <2>2
            <4>2. ~closed
                BY <1>11, <2>2
            <4> QED BY <1>1, <4>1, <4>2
        <3>2. Cardinality(Started(n - 1)) \in Nat /\ Cardinality(Started(n)) \in Nat
            <4>1. n - 1 \in 0..Len(q)
                BY <1>0, <2>2
            <4> QED BY <1>4, <4>1
        <3>3. Cardinality(Started(n - 1)) < Limit[p] - used
            BY <1>6, <3>1
        <3> QED BY <1>3, <1>4, <1>7, <2>2, <3>2, <3>3
    <2> QED BY <1>0, <2>1, <2>2
<1>13. Shifted(q, n).taken \ fit = Shifted(q, n).taken \ start
    OBVIOUS
<1>14. Cardinality(start) \in Nat
    BY <1>4
<1>15. start \subseteq Shifted(q, n).taken
    OBVIOUS
<1>16. /\ Cardinality(ActiveIn(p, active')) \in Nat
       /\ Cardinality(ActiveIn(p, active')) <= Limit[p]
       /\ \A r \in Pools \ {p} : ActiveIn(r, active') = ActiveIn(r, act)
       /\ n < Len(q) => closed \/ Cardinality(ActiveIn(p, active')) >= Limit[p]
    BY <1>1, <1>4, <1>9, <1>10, <1>12, <1>14
<1>17. result' = [j \in Jobs |-> IF j \in Shifted(q,
       n).taken \ start THEN Reason(j) ELSE res[j]]
    BY <1>1, <1>13
<1>18. active' = act \cup start
        /\ evaluation' = [j \in Jobs |-> IF j \in start THEN "running" ELSE evs[j]]
        /\ queue' = [queue EXCEPT ![p] = Shifted(q, n).rest]
    BY <1>1
<1> HIDE DEF fit, Goes, used, Started, start
<1>19. DrainedTo(p, q, act, evs, res, n, start)
    BY <1>11, <1>15, <1>16, <1>17, <1>18 DEF DrainedTo
<1> QED BY <1>2, <1>19

--------------------------------------------------------------------------------
\* The steps that tell a caller, and the steps that drain

EvaluationStates == {"none", "running", "validating", "over", "released"}
Results == Answers \cup Failures \cup {"none", "waiting"}

\* Telling a caller takes its job, and no other, out of the queues.
LEMMA QueueShrinks ==
    ASSUME TypeOK, NEW j \in Jobs, queue' = [queue EXCEPT ![PoolOf[j]] = Spliced(@, j)]
    PROVE  /\ queue' \in [Pools -> Seq(Jobs)]
           /\ \A p \in Pools :
                /\ Len(queue'[p]) <= Len(queue[p]) /\ Distinct(queue'[p])
                /\ \A n \in DOMAIN queue'[p] : queue'[p][n] # j
                        /\ \E i \in DOMAIN queue[p] : queue[p][i] = queue'[p][n]
                /\ \A i \in DOMAIN queue[p] : queue[p][i] # j =>
                        \E n \in DOMAIN queue'[p] : queue'[p][n] = queue[p][i]
<1>1. PoolOf[j] \in Pools /\ queue \in [Pools -> Seq(Jobs)]
        /\ \A p \in Pools : Distinct(queue[p]) /\ \A i \in DOMAIN queue[p] : PoolOf[queue[p][i]] = p
    BY SchedulerConstants DEF TypeOK, Distinct
<1>2. Spliced(queue[PoolOf[j]], j) \in Seq(Jobs)
    BY <1>1, SplicedQueue
<1>3. queue' \in [Pools -> Seq(Jobs)]
    BY <1>1, <1>2
<1>4. ASSUME NEW p \in Pools
      PROVE  /\ Len(queue'[p]) <= Len(queue[p]) /\ Distinct(queue'[p])
             /\ \A n \in DOMAIN queue'[p] : queue'[p][n] # j
                     /\ \E i \in DOMAIN queue[p] : queue[p][i] = queue'[p][n]
             /\ \A i \in DOMAIN queue[p] : queue[p][i] # j =>
                     \E n \in DOMAIN queue'[p] : queue'[p][n] = queue[p][i]
    <2>1. CASE p = PoolOf[j]
        <3>1. queue'[p] = Spliced(queue[p], j)
            BY <1>1, <2>1
        <3>2. queue[p] \in Seq(Jobs) /\ Distinct(queue[p])
            BY <1>1, <1>4
        <3> QED BY <3>1, <3>2, SplicedQueue
    <2>2. CASE p # PoolOf[j]
        <3>1. queue'[p] = queue[p]
            BY <1>1, <2>2
        <3>2. \A i \in DOMAIN queue[p] : queue[p][i] # j
            BY <1>1, <1>4, <2>2
        <3>3. Len(queue[p]) \in Nat /\ Distinct(queue[p])
            BY <1>1, <1>4, LenProperties
        <3> QED BY <3>1, <3>2, <3>3
    <2> QED BY <2>1, <2>2
<1> QED BY <1>3, <1>4

\* A caller is told, and the evaluation of its job may end with that.
LEMMA FinishKeeps ==
    ASSUME IInv, NEW j \in Jobs, NEW r \in Answers \cup Failures, Finish(j, r),
           \/ evaluation' = evaluation
           \/ /\ evaluation[j] \in {"running", "validating"}
              /\ evaluation' = [evaluation EXCEPT ![j] = "over"],
           UNCHANGED <<callers, closed, active, aborted, left>>
    PROVE  IInv'
<1>1. TypeOK /\ QueuedWait /\ WaitersAreKnown /\ ClosedIsEmpty /\ SlotsAreEvaluations
    BY DEF IInv
<1>2. /\ queue' \in [Pools -> Seq(Jobs)]
      /\ \A p \in Pools :
           /\ Len(queue'[p]) <= Len(queue[p]) /\ Distinct(queue'[p])
           /\ \A n \in DOMAIN queue'[p] : queue'[p][n] # j
                   /\ \E i \in DOMAIN queue[p] : queue[p][i] = queue'[p][n]
           /\ \A i \in DOMAIN queue[p] : queue[p][i] # j =>
                   \E n \in DOMAIN queue'[p] : queue'[p][n] = queue[p][i]
    BY <1>1, QueueShrinks DEF Finish
<1>3. /\ result' \in [Jobs -> Results] /\ result'[j] # "waiting"
      /\ \A k \in Jobs : k # j => result'[k] = result[k]
      /\ result'[j] = "none" => result[j] = "none"
    BY <1>1 DEF Finish, Finished, TypeOK, Results, Answers, Failures
<1>4. /\ evaluation' \in [Jobs -> EvaluationStates]
      /\ \A k \in Jobs : k # j => evaluation'[k] = evaluation[k]
      /\ \/ evaluation'[j] = evaluation[j]
         \/ evaluation[j] \in {"running", "validating"} /\ evaluation'[j] = "over"
    BY <1>1 DEF TypeOK, EvaluationStates
<1>5. TypeOK'
    <2>1. \A p \in Pools : \A i \in DOMAIN queue'[p] : PoolOf[queue'[p][i]] = p
        BY <1>1, <1>2 DEF TypeOK
    <2> QED BY <1>1, <1>2, <1>3, <1>4, <2>1 DEF TypeOK, Results, EvaluationStates,
           Distinct
<1>6. QueuedWait'
    <2> SUFFICES ASSUME NEW p \in Pools, NEW n \in DOMAIN queue'[p]
                 PROVE  result'[queue'[p][n]] = "waiting" /\ evaluation'[queue'[p][n]] = "none"
        BY DEF QueuedWait
    <2>1. PICK i \in DOMAIN queue[p] : queue[p][i] = queue'[p][n]
        BY <1>2
    <2>2. queue'[p][n] \in Jobs /\ queue'[p][n] # j
        BY <1>2, ElementOfSeq, LenProperties
    <2> QED BY <1>1, <1>3, <1>4, <2>1, <2>2 DEF QueuedWait
<1>7. WaitersAreKnown'
    <2> SUFFICES ASSUME NEW k \in Jobs
                 PROVE  /\ result'[k] = "waiting" => Queued(k)' \/ k \in active'
                        /\ result'[k] = "none" => evaluation'[k] = "none"
                        /\ evaluation'[k] \in {"over", "released"} => result'[k] # "waiting"
        BY DEF WaitersAreKnown
    <2>1. CASE k = j
        <3>1. result'[j] # "waiting" /\ (result'[j] = "none" => evaluation[j] = "none")
            BY <1>1, <1>3 DEF WaitersAreKnown
        <3>2. evaluation[j] = "none" => evaluation'[j] = "none"
            BY <1>4
        <3> QED BY <2>1, <3>1, <3>2
    <2>2. CASE k # j
        <3>1. result'[k] = result[k] /\ evaluation'[k] = evaluation[k]
            BY <1>3, <1>4, <2>2
        <3>2. Queued(k) => Queued(k)'
            BY <1>2, <2>2, SchedulerConstants DEF Queued
        <3> QED BY <1>1, <3>1, <3>2 DEF WaitersAreKnown
    <2> QED BY <2>1, <2>2
<1>8. ClosedIsEmpty'
    <2> SUFFICES ASSUME closed
                 PROVE  /\ \A p \in Pools : queue'[p] = <<>>
                        /\ \A k \in Jobs : result'[k] # "waiting"
        BY DEF ClosedIsEmpty
    <2>1. \A k \in Jobs : result'[k] # "waiting"
        BY <1>1, <1>3 DEF ClosedIsEmpty
    <2>2. ASSUME NEW p \in Pools PROVE queue'[p] = <<>>
        <3>1. Len(queue[p]) = 0 /\ Len(queue'[p]) \in Nat
            BY <1>1, <1>2, LenProperties DEF ClosedIsEmpty
        <3>2. Len(queue'[p]) = 0
            BY <1>2, <3>1
        <3> QED BY <1>2, <3>2, EmptySeq
    <2> QED BY <2>1, <2>2
<1>9. SlotsAreEvaluations'
    <2>1. \A k \in Jobs : Evaluating(k)' <=> Evaluating(k)
        BY <1>1, <1>4 DEF Evaluating
    <2>2. active' = active /\ {k \in Jobs : Evaluating(k)}' = {k \in Jobs : Evaluating(k)}
        BY <2>1
    <2>3. \A p \in Pools : ActiveIn(p, active)' = ActiveIn(p, active)
        BY DEF ActiveIn
    <2>4. \A p \in Pools : queue'[p] # <<>> => queue[p] # <<>>
        BY <1>1, <1>2, EmptySeq, LenProperties DEF TypeOK
    <2>5. \A p \in Pools : Len(queue'[p]) <= Waiting[p]
        <3> SUFFICES ASSUME NEW p \in Pools PROVE Len(queue'[p]) <= Waiting[p]
            OBVIOUS
        <3>1. Len(queue[p]) \in Nat /\ Len(queue'[p]) \in Nat /\ Waiting[p] \in Nat
            BY <1>1, <1>2, LenProperties, SchedulerConstants DEF TypeOK
        <3>2. Len(queue'[p]) <= Len(queue[p]) /\ Len(queue[p]) <= Waiting[p]
            BY <1>1, <1>2 DEF SlotsAreEvaluations
        <3> QED BY <3>1, <3>2
    <2> QED BY <1>1, <2>2, <2>3, <2>4, <2>5 DEF SlotsAreEvaluations, Full, ActiveIn
<1> QED BY <1>5, <1>6, <1>7, <1>8, <1>9 DEF IInv

\* What drain is handed: a queue of waiting jobs, the slots and evaluations they
\* may join, and answers in which everybody who waits is known.
Queueing(p, q, evs, res) ==
    /\ Distinct(q)
    /\ \A i \in DOMAIN q : PoolOf[q[i]] = p /\ res[q[i]] = "waiting" /\ evs[q[i]] = "none"
    /\ \A r \in Pools \ {p} : \A i \in DOMAIN queue[r] :
        res[queue[r][i]] = "waiting" /\ evs[queue[r][i]] = "none"

SlotsHeld(p, q, act, evs) ==
    /\ act = {j \in Jobs : evs[j] \in {"running", "validating", "over"}}
    /\ Cardinality(ActiveIn(p, act)) <= Limit[p]
    /\ \A r \in Pools \ {p} : ActiveIn(r, act) = ActiveIn(r, active)
    /\ Cardinality(ActiveIn(p, act)) >= Limit[p] => Len(q) <= Waiting[p]
    /\ Len(q) <= Waiting[p] + 1

Waiters(p, q, act, evs, res) ==
    /\ \A j \in Jobs :
        /\ res[j] = "waiting" =>
            \/ \E i \in DOMAIN q : q[i] = j
            \/ j \in act
            \/ PoolOf[j] # p /\ Queued(j)
        /\ res[j] = "none" => evs[j] = "none"
        /\ evs[j] \in {"over", "released"} => res[j] # "waiting"
    /\ closed => q = <<>> /\ \A j \in Jobs : res[j] # "waiting"

\* A pool is drained, after a job joined its queue or gave its slot back: what
\* holds of the queue, the slots and the answers handed to drain holds after it.
LEMMA DrainKeeps ==
    ASSUME IInv, NEW p \in Pools, NEW q \in Seq(Jobs), NEW act \in SUBSET Jobs,
           NEW evs \in [Jobs -> EvaluationStates], NEW lft, NEW res \in [Jobs -> Results],
           Queueing(p, q, evs, res), SlotsHeld(p, q, act, evs), Waiters(p, q, act, evs, res),
           left' \in [Jobs -> 0..Cap], UNCHANGED <<callers, closed, aborted>>,
           Drain(p, q, act, evs, lft, res)
    PROVE  IInv'
<1>1. TypeOK /\ QueuedWait /\ WaitersAreKnown /\ ClosedIsEmpty /\ SlotsAreEvaluations
    BY DEF IInv
<1>2. Len(q) \in Nat /\ DOMAIN q = 1..Len(q) /\ \A i \in 1..Len(q) : q[i] \in Jobs
    BY ElementOfSeq, LenProperties
<1>3. \A i \in DOMAIN q : PoolOf[q[i]] = p /\ q[i] \notin act
    BY <1>2 DEF Queueing, SlotsHeld
<1>4. closed \in BOOLEAN
    BY <1>1 DEF TypeOK
<1>5. PICK n \in 0..Len(q), start \in SUBSET Jobs : DrainedTo(p, q, act, evs, res, n,
       start)
    <2>1. Cardinality(ActiveIn(p, act)) <= Limit[p]
        BY DEF SlotsHeld
    <2> QED BY <1>3, <1>4, <2>1, DrainEffect
<1>0. n < Len(q) \/ n = Len(q)
    <2>1. Len(q) \in Int /\ n \in Int /\ n <= Len(q)
        BY <1>2
    <2> QED BY <2>1
<1> DEFINE T == Shifted(q, n).taken
           rest == Shifted(q, n).rest
<1>6. /\ T = {q[i] : i \in 1..n} /\ T \subseteq Jobs
      /\ \A j \in T : \E i \in DOMAIN q : i <= n /\ q[i] = j
      /\ \A i \in DOMAIN q : i <= n => q[i] \in T
    <2>1. T = {q[i] : i \in 1..n}
        BY DEF Shifted
    <2>2. \A i \in 1..n : i \in DOMAIN q /\ i <= n
        BY <1>2
    <2>3. \A i \in DOMAIN q : i <= n => i \in 1..n
        BY <1>2
    <2> HIDE DEF T
    <2> QED BY <1>2, <2>1, <2>2, <2>3
<1>7. /\ rest \in Seq(Jobs) /\ Len(rest) = Len(q) - n /\ DOMAIN rest = 1..(Len(q) - n)
      /\ \A m \in 1..(Len(q) - n) : rest[m] = q[n + m] /\ n + m \in DOMAIN q
    <2>1. /\ rest \in Seq(Jobs) /\ Len(rest) = Len(q) - n
          /\ \A m \in 1..(Len(q) - n) : rest[m] = q[n + m]
        BY RestOfQueue
    <2>2. \A m \in 1..(Len(q) - n) : n + m \in DOMAIN q
        BY <1>2
    <2>3. DOMAIN rest = 1..(Len(q) - n)
        BY <2>1, LenProperties
    <2> HIDE DEF rest
    <2> QED BY <2>1, <2>2, <2>3
<1>8. \A m \in DOMAIN rest : rest[m] \notin T
    <2> HIDE DEF T, rest
    <2> SUFFICES ASSUME NEW m \in DOMAIN rest, rest[m] \in T PROVE FALSE
        OBVIOUS
    <2>1. PICK i \in DOMAIN q : i <= n /\ q[i] = rest[m]
        BY <1>6
    <2>2. n + m \in DOMAIN q /\ q[n + m] = rest[m] /\ m >= 1 /\ m \in Nat /\ n \in Nat
        BY <1>2, <1>7
    <2>3. i = n + m
        BY <2>1, <2>2 DEF Queueing, Distinct
    <2> QED BY <1>2, <2>1, <2>2, <2>3
<1>9. /\ queue' \in [Pools -> Seq(Jobs)] /\ queue'[p] = rest
      /\ \A r \in Pools \ {p} : queue'[r] = queue[r]
    BY <1>1, <1>5, <1>7 DEF TypeOK, DrainedTo
<1> HIDE DEF T, rest
<1>10. \A j \in T : res[j] = "waiting" /\ evs[j] = "none" /\ PoolOf[j] = p
    BY <1>6 DEF Queueing
<1>11. start \subseteq T /\ evaluation' \in [Jobs -> EvaluationStates]
        /\ \A j \in Jobs : evaluation'[j] = IF j \in start THEN "running" ELSE evs[j]
    BY <1>5 DEF T, EvaluationStates, DrainedTo
<1>12. result' \in [Jobs -> Results]
        /\ \A j \in Jobs : IF j \in T \ start
                           THEN result'[j] \in {"cancelled", "budget_exhausted"}
                           ELSE result'[j] = res[j]
    BY <1>5 DEF T, Results, Failures, Reason, DrainedTo
<1>13. TypeOK'
    <2>1. active' \subseteq Jobs
        BY <1>5 DEF DrainedTo
    <2>2. \A r \in Pools : Distinct(queue'[r]) /\ \A i \in DOMAIN queue'[r] : PoolOf[queue'[r][i]] = r
        <3>1. ASSUME NEW r \in Pools \ {p}
              PROVE  Distinct(queue'[r]) /\ \A i \in DOMAIN queue'[r] : PoolOf[queue'[r][i]] = r
            BY <1>1, <1>9, <3>1 DEF TypeOK, Distinct
        <3>2. Distinct(rest) /\ \A i \in DOMAIN rest : PoolOf[rest[i]] = p
            <4>1. \A i \in DOMAIN rest : n + i \in DOMAIN q /\ rest[i] = q[n + i] /\ i \in Nat
                BY <1>2, <1>7
            <4>2. \A i \in DOMAIN rest : PoolOf[rest[i]] = p
                BY <4>1 DEF Queueing
            <4>3. ASSUME NEW i \in DOMAIN rest, NEW k \in DOMAIN rest, rest[i] = rest[k]
                  PROVE  i = k
                <5>1. n + i = n + k
                    BY <4>1, <4>3 DEF Queueing, Distinct
                <5> QED BY <4>1, <4>3, <5>1
            <4> QED BY <4>2, <4>3 DEF Distinct
        <3> QED BY <1>9, <3>1, <3>2
    <2> QED BY <1>1, <1>9, <1>11, <1>12, <2>1, <2>2 DEF TypeOK, Distinct, Results,
           EvaluationStates
<1>14. QueuedWait'
    <2>1. ASSUME NEW r \in Pools, NEW i \in DOMAIN queue'[r]
          PROVE  result'[queue'[r][i]] = "waiting" /\ evaluation'[queue'[r][i]] = "none"
        <3>1. queue'[r][i] \in Jobs
            BY <1>9, ElementOfSeq, LenProperties
        <3>2. CASE r = p
            <4>1. queue'[r][i] \notin T
                BY <1>8, <1>9, <3>2
            <4>2. res[queue'[r][i]] = "waiting" /\ evs[queue'[r][i]] = "none"
                <5>1. n + i \in DOMAIN q /\ queue'[r][i] = q[n + i]
                    BY <1>7, <1>9, <2>1, <3>2
                <5> QED BY <5>1 DEF Queueing
            <4> QED BY <1>11, <1>12, <3>1, <4>1, <4>2
        <3>3. CASE r # p
            <4>1. res[queue'[r][i]] = "waiting" /\ evs[queue'[r][i]] = "none"
                <5>1. r \in Pools \ {p} /\ queue'[r] = queue[r]
                    BY <1>9, <3>3
                <5>2. i \in DOMAIN queue[r]
                    BY <2>1, <5>1
                <5> QED BY <5>1, <5>2 DEF Queueing
            <4>2. queue'[r][i] \notin T
                <5>1. PoolOf[queue'[r][i]] = r
                    BY <1>13, <2>1 DEF TypeOK
                <5> QED BY <1>10, <3>3, <5>1
            <4> QED BY <1>11, <1>12, <3>1, <4>1, <4>2
        <3> QED BY <3>2, <3>3
    <2> QED BY <2>1 DEF QueuedWait
<1>15. WaitersAreKnown'
    <2> SUFFICES ASSUME NEW j \in Jobs
                 PROVE  /\ result'[j] = "waiting" => Queued(j)' \/ j \in active'
                        /\ result'[j] = "none" => evaluation'[j] = "none"
                        /\ evaluation'[j] \in {"over", "released"} => result'[j] # "waiting"
        BY DEF WaitersAreKnown
    <2>1. ASSUME result'[j] = "waiting"
          PROVE  Queued(j)' \/ j \in active'
        <3>1. res[j] = "waiting" /\ (j \in T => j \in start)
            BY <1>12, <2>1
        <3>5. \/ \E i \in DOMAIN q : q[i] = j
              \/ j \in act
              \/ PoolOf[j] # p /\ Queued(j)
            BY <3>1 DEF Waiters
        <3>2. CASE \E i \in DOMAIN q : q[i] = j
            <4>1. PICK i \in DOMAIN q : q[i] = j
                BY <3>2
            <4>2. CASE i <= n
                BY <1>5, <1>6, <3>1, <4>1, <4>2 DEF DrainedTo
            <4>3. CASE i > n
                <5>1. PoolOf[j] = p
                    BY <4>1 DEF Queueing
                <5>2. i - n \in DOMAIN rest /\ rest[i - n] = j
                    BY <1>2, <1>7, <4>1, <4>3
                <5> QED BY <1>9, <5>1, <5>2 DEF Queued
            <4> QED BY <1>2, <4>2, <4>3
        <3>3. CASE j \in act
            BY <1>5, <3>3 DEF DrainedTo
        <3>4. CASE PoolOf[j] # p /\ Queued(j)
            BY <1>9, <3>4, SchedulerConstants DEF Queued
        <3> QED BY <3>2, <3>3, <3>4, <3>5
    <2>2. result'[j] = "none" => evaluation'[j] = "none"
        BY <1>10, <1>11, <1>12 DEF Waiters
    <2>3. evaluation'[j] \in {"over", "released"} => result'[j] # "waiting"
        BY <1>11, <1>12 DEF Waiters
    <2> QED BY <2>1, <2>2, <2>3
<1>16. ClosedIsEmpty'
    <2> SUFFICES ASSUME closed
                 PROVE  /\ \A r \in Pools : queue'[r] = <<>>
                        /\ \A j \in Jobs : result'[j] # "waiting"
        BY DEF ClosedIsEmpty
    <2>1. \A j \in Jobs : result'[j] # "waiting"
        BY <1>12 DEF Waiters
    <2>2. rest = <<>>
        <3>1. Len(q) = 0 /\ n = 0
            BY <1>5 DEF Waiters, DrainedTo
        <3> QED BY <1>7, <3>1, EmptySeq
    <2> QED BY <1>1, <1>9, <2>1, <2>2 DEF ClosedIsEmpty
<1>17. SlotsAreEvaluations'
    <2>1. active' = {j \in Jobs : Evaluating(j)}'
        BY <1>5, <1>11 DEF Evaluating, SlotsHeld, DrainedTo
    <2>2. \A r \in Pools \ {p} : ActiveIn(r, active') = ActiveIn(r, active)
        BY <1>5 DEF SlotsHeld, DrainedTo
    <2>3. ASSUME NEW r \in Pools
          PROVE  /\ Cardinality(ActiveIn(r, active')) <= Limit[r]
                 /\ queue'[r] # <<>> => Cardinality(ActiveIn(r, active')) >= Limit[r]
                 /\ Len(queue'[r]) <= Waiting[r]
        <3>1. CASE r # p
            <4>1. active = {j \in Jobs : Evaluating(j)}
                BY <1>1 DEF SlotsAreEvaluations
            <4>2. /\ Cardinality(ActiveIn(r, active)) <= Limit[r]
                  /\ queue[r] # <<>> => Cardinality(ActiveIn(r, active)) >= Limit[r]
                  /\ Len(queue[r]) <= Waiting[r]
                BY <1>1, <2>3, <4>1 DEF SlotsAreEvaluations, Full
            <4> QED BY <1>9, <2>2, <2>3, <3>1, <4>2
        <3>2. CASE r = p
            <4>1. rest # <<>> => n < Len(q)
                <5>1. CASE n < Len(q)
                    BY <5>1
                <5>2. CASE n = Len(q)
                    <6>1. Len(rest) = 0
                        BY <1>2, <1>7, <5>2
                    <6> QED BY <1>7, <6>1, EmptySeq
                <5> QED BY <1>0, <5>1, <5>2
            <4>2. rest # <<>> => ~closed
                BY <1>9, <1>16 DEF ClosedIsEmpty
            <4>3. rest # <<>> => Cardinality(ActiveIn(p, active')) >= Limit[p]
                BY <1>5, <4>1, <4>2 DEF DrainedTo
            <4>4. Len(rest) <= Waiting[p]
                <5>1. Waiting[p] \in Nat /\ Limit[p] \in Nat
                    BY SchedulerConstants
                <5>2. CASE n >= 1
                    BY <1>2, <1>7, <5>1, <5>2 DEF SlotsHeld
                <5>3. CASE n = 0 /\ rest = <<>>
                    <6>1. Len(rest) = 0
                        BY <5>3
                    <6> QED BY <5>1, <6>1
                <5>4. CASE n = 0 /\ rest # <<>>
                    <6>1. T = {}
                        BY <1>6, <5>4
                    <6>2. active' = act
                        BY <1>5, <1>11, <6>1 DEF DrainedTo
                    <6>3. Len(q) <= Waiting[p]
                        BY <4>3, <5>4, <6>2 DEF SlotsHeld
                    <6> QED BY <1>2, <1>7, <5>4, <6>3
                <5> QED BY <1>2, <5>2, <5>3, <5>4
            <4> QED BY <1>5, <1>9, <3>2, <4>3, <4>4 DEF DrainedTo
        <3> QED BY <3>1, <3>2
    <2> QED BY <2>1, <2>3 DEF SlotsAreEvaluations, Full
<1> QED BY <1>13, <1>14, <1>15, <1>16, <1>17 DEF IInv

\* The bodies of the two action properties.
ToldOnce ==
    \A j \in Jobs : result'[j] # result[j] =>
        /\ result[j] \in {"none", "waiting"}
        /\ result'[j] \in Answers => ~Outlived(j) /\ ~closed

StartsInOrder ==
    \A p \in Pools : \A i, k \in DOMAIN queue[p] :
        i < k /\ evaluation'[queue[p][k]] # evaluation[queue[p][k]] =>
            \A n \in DOMAIN queue'[p] : queue'[p][n] # queue[p][i]

\* What drain was handed continues the present: the queue at most grew at its
\* end, a caller at most began to wait, and no queued job's evaluation changed.
Continues(p, q, evs, res) ==
    /\ \A i \in DOMAIN queue[p] : i \in DOMAIN q /\ q[i] = queue[p][i]
    /\ \A j \in Jobs : res[j] # result[j] => result[j] = "none" /\ res[j] = "waiting"
    /\ \A r \in Pools : \A i \in DOMAIN queue[r] : evs[queue[r][i]] = evaluation[queue[r][i]]

\* drain tells nobody a provider's answer, and starts the jobs ahead first.
LEMMA DrainActs ==
    ASSUME IInv, NEW p \in Pools, NEW q \in Seq(Jobs), NEW act \in SUBSET Jobs,
           NEW evs \in [Jobs -> EvaluationStates], NEW lft, NEW res \in [Jobs -> Results],
           Queueing(p, q, evs, res), SlotsHeld(p, q, act, evs), Continues(p, q, evs, res),
           Drain(p, q, act, evs, lft, res)
    PROVE  ToldOnce /\ StartsInOrder
<1>1. TypeOK
    BY DEF IInv
<1>2. Len(q) \in Nat /\ DOMAIN q = 1..Len(q) /\ \A i \in 1..Len(q) : q[i] \in Jobs
    BY ElementOfSeq, LenProperties
<1>3. \A i \in DOMAIN q : PoolOf[q[i]] = p /\ q[i] \notin act
    BY <1>2 DEF Queueing, SlotsHeld
<1>4. closed \in BOOLEAN /\ Cardinality(ActiveIn(p, act)) <= Limit[p]
    BY <1>1 DEF TypeOK, SlotsHeld
<1>5. PICK n \in 0..Len(q), start \in SUBSET Jobs : DrainedTo(p, q, act, evs, res, n,
       start)
    BY <1>3, <1>4, DrainEffect
<1> DEFINE T == Shifted(q, n).taken
           rest == Shifted(q, n).rest
<1>6. \A j \in T : \E i \in DOMAIN q : i <= n /\ q[i] = j
    <2>1. T = {q[i] : i \in 1..n} /\ \A i \in 1..n : i \in DOMAIN q /\ i <= n
        BY <1>2 DEF Shifted
    <2> QED BY <2>1
<1>7. /\ queue'[p] = rest /\ DOMAIN rest = 1..(Len(q) - n)
      /\ \A m \in 1..(Len(q) - n) : rest[m] = q[n + m]
    <2>1. /\ rest \in Seq(Jobs) /\ Len(rest) = Len(q) - n
          /\ \A m \in 1..(Len(q) - n) : rest[m] = q[n + m]
        BY RestOfQueue
    <2>2. queue'[p] = rest
        BY <1>1, <1>5 DEF DrainedTo, TypeOK
    <2>3. DOMAIN rest = 1..(Len(q) - n)
        BY <2>1, LenProperties
    <2> HIDE DEF rest
    <2> QED BY <2>1, <2>2, <2>3
<1> HIDE DEF T, rest
<1>8. ToldOnce
    <2> SUFFICES ASSUME NEW j \in Jobs, result'[j] # result[j]
                 PROVE  result[j] \in {"none", "waiting"} /\ result'[j] \notin Answers
        BY DEF ToldOnce
    <2>1. CASE j \in T \ start
        <3>1. res[j] = "waiting"
            BY <1>6, <2>1 DEF Queueing
        <3>2. result[j] \in {"none", "waiting"}
            BY <3>1 DEF Continues
        <3>3. result'[j] = Reason(j)
            BY <1>5, <2>1 DEF DrainedTo, T
        <3> QED BY <3>2, <3>3 DEF Reason, Answers
    <2>2. CASE j \notin T \ start
        <3>1. result'[j] = res[j]
            BY <1>5, <2>2 DEF DrainedTo, T
        <3>2. result[j] = "none" /\ res[j] = "waiting"
            BY <3>1 DEF Continues
        <3> QED BY <3>1, <3>2 DEF Answers
    <2> QED BY <2>1, <2>2
<1>9. StartsInOrder
    <2> SUFFICES ASSUME NEW r \in Pools, NEW i \in DOMAIN queue[r],
           NEW k \in DOMAIN queue[r],
                        i < k, evaluation'[queue[r][k]] # evaluation[queue[r][k]],
                        NEW m \in DOMAIN queue'[r]
                 PROVE  queue'[r][m] # queue[r][i]
        BY DEF StartsInOrder
    <2>1. queue[r] \in Seq(Jobs) /\ queue[r][k] \in Jobs /\ PoolOf[queue[r][k]] = r
            /\ i \in Nat /\ k \in Nat
        BY <1>1, ElementOfSeq, LenProperties DEF TypeOK
    <2>2. queue[r][k] \in T
        BY <1>5, <2>1 DEF DrainedTo, Continues, T
    <2>3. PICK h \in DOMAIN q : h <= n /\ q[h] = queue[r][k]
        BY <1>6, <2>2
    <2>4. r = p
        BY <1>3, <2>1, <2>3
    <2>5. /\ i \in DOMAIN q /\ k \in DOMAIN q
          /\ q[i] = queue[r][i] /\ q[k] = queue[r][k]
        BY <2>4 DEF Continues
    <2>6. h = k
        BY <2>3, <2>5 DEF Queueing, Distinct
    <2>7. m \in Nat /\ m >= 1 /\ n \in Nat /\ n + m \in DOMAIN q /\ queue'[r][m] = q[n + m]
        BY <1>2, <1>7, <2>4
    <2>8. n + m # i
        BY <2>1, <2>3, <2>6, <2>7
    <2> QED BY <2>5, <2>7, <2>8 DEF Queueing, Distinct
<1> QED BY <1>8, <1>9

\* What authorize hands to drain: its job has just joined the end of the queue.
LEMMA AdmitHands ==
    ASSUME IInv, NEW j \in Jobs, NEW t \in Floor..Cap, Admit(j, t)
    PROVE  LET p == PoolOf[j]
               q == Append(queue[p], j)
               res == [result EXCEPT ![j] = "waiting"]
           IN  /\ q \in Seq(Jobs) /\ res \in [Jobs -> Results]
               /\ Queueing(p, q, evaluation, res) /\ SlotsHeld(p, q, active, evaluation)
               /\ Waiters(p, q, active, evaluation, res) /\ Continues(p, q, evaluation, res)
               /\ Drain(p, q, active, evaluation, left', res)
<1> DEFINE p == PoolOf[j]
           q == Append(queue[p], j)
           res == [result EXCEPT ![j] = "waiting"]
<1>1. TypeOK /\ QueuedWait /\ WaitersAreKnown /\ ClosedIsEmpty /\ SlotsAreEvaluations
    BY DEF IInv
<1>2. p \in Pools /\ queue[p] \in Seq(Jobs) /\ result[j] = "none" /\ ~closed /\ ~Overflows(p)
    BY <1>1, SchedulerConstants DEF TypeOK, Admit
<1>3. /\ q \in Seq(Jobs) /\ Len(queue[p]) \in Nat /\ Len(q) = Len(queue[p]) + 1
      /\ DOMAIN queue[p] = 1..Len(queue[p]) /\ DOMAIN q = 1..(Len(queue[p]) + 1)
      /\ \A i \in DOMAIN queue[p] : q[i] = queue[p][i] /\ queue[p][i] \in Jobs
      /\ q[Len(queue[p]) + 1] = j
    BY <1>2, AppendProperties, LenProperties, ElementOfSeq
<1>4. evaluation[j] = "none"
    BY <1>1, <1>2 DEF WaitersAreKnown
<1>5. res \in [Jobs -> Results] /\ res[j] = "waiting" /\ \A k \in Jobs : k # j => res[k] = result[k]
    BY <1>1, <1>2 DEF TypeOK, Results
<1>6. \A r \in Pools : \A i \in DOMAIN queue[r] :
        /\ queue[r][i] \in Jobs /\ queue[r][i] # j
        /\ result[queue[r][i]] = "waiting" /\ evaluation[queue[r][i]] = "none"
    BY <1>1, <1>2, ElementOfSeq, LenProperties DEF TypeOK, QueuedWait
<1>7. \A i \in DOMAIN q : i \in DOMAIN queue[p] \/ i = Len(queue[p]) + 1
    BY <1>3
<1>8. Drain(p, q, active, evaluation, left', res)
    BY DEF Admit, Port
<1> HIDE DEF q, res
<1>9. Distinct(q)
    <2> SUFFICES ASSUME NEW i \in DOMAIN q, NEW k \in DOMAIN q, q[i] = q[k] PROVE i = k
        BY DEF Distinct
    <2>1. CASE i \in DOMAIN queue[p] /\ k \in DOMAIN queue[p]
        <3>1. q[i] = queue[p][i] /\ q[k] = queue[p][k]
            BY <1>3, <2>1
        <3>2. queue[p][i] = queue[p][k] => i = k
            BY <1>1, <1>2, <2>1 DEF TypeOK
        <3> QED BY <3>1, <3>2
    <2>2. CASE i = Len(queue[p]) + 1 \/ k = Len(queue[p]) + 1
        BY <1>2, <1>3, <1>6, <1>7, <2>2
    <2> QED BY <1>7, <2>1, <2>2
<1>10. Queueing(p, q, evaluation, res)
    <2>1. \A i \in DOMAIN q : PoolOf[q[i]] = p /\ res[q[i]] = "waiting" /\ evaluation[q[i]] = "none"
        <3> SUFFICES ASSUME NEW i \in DOMAIN q
                     PROVE  PoolOf[q[i]] = p /\ res[q[i]] = "waiting" /\ evaluation[q[i]] = "none"
            OBVIOUS
        <3>1. CASE i \in DOMAIN queue[p]
            <4>1. q[i] = queue[p][i]
                BY <1>3, <3>1
            <4>2. PoolOf[queue[p][i]] = p
                BY <1>1, <1>2, <3>1 DEF TypeOK
            <4>3. /\ queue[p][i] \in Jobs /\ queue[p][i] # j
                  /\ result[queue[p][i]] = "waiting" /\ evaluation[queue[p][i]] = "none"
                BY <1>2, <1>6, <3>1
            <4> QED BY <1>5, <4>1, <4>2, <4>3
        <3>2. CASE i = Len(queue[p]) + 1
            BY <1>3, <1>4, <1>5, <3>2
        <3> QED BY <1>7, <3>1, <3>2
    <2>2. \A r \in Pools \ {p} : \A i \in DOMAIN queue[r] :
            res[queue[r][i]] = "waiting" /\ evaluation[queue[r][i]] = "none"
        BY <1>5, <1>6
    <2> QED BY <1>9, <2>1, <2>2 DEF Queueing
<1>11. SlotsHeld(p, q, active, evaluation)
    <2>1. active = {k \in Jobs : evaluation[k] \in {"running", "validating", "over"}}
        BY <1>1 DEF SlotsAreEvaluations, Evaluating
    <2>2. Cardinality(ActiveIn(p, active)) <= Limit[p] /\ Len(queue[p]) <= Waiting[p]
        BY <1>1, <1>2 DEF SlotsAreEvaluations
    <2>3. Waiting[p] \in Nat
        BY <1>2, SchedulerConstants
    <2>4. Cardinality(ActiveIn(p, active)) >= Limit[p] => ~(Len(queue[p]) >= Waiting[p])
        BY <1>2 DEF Overflows, Full
    <2>5. Len(q) <= Waiting[p] + 1
            /\ (Cardinality(ActiveIn(p, active)) >= Limit[p] => Len(q) <= Waiting[p])
        BY <1>3, <2>2, <2>3, <2>4
    <2> QED BY <2>1, <2>2, <2>5 DEF SlotsHeld
<1>12. Waiters(p, q, active, evaluation, res)
    <2>1. ASSUME NEW k \in Jobs, res[k] = "waiting"
          PROVE  (\E i \in DOMAIN q : q[i] = k) \/ k \in active \/ (PoolOf[k] # p /\ Queued(k))
        <3>1. CASE k = j
            BY <1>3, <3>1
        <3>2. CASE k # j
            <4>1. Queued(k) \/ k \in active
                BY <1>1, <1>5, <2>1, <3>2 DEF WaitersAreKnown
            <4>2. PoolOf[k] = p /\ Queued(k) => \E i \in DOMAIN q : q[i] = k
                <5>1. DOMAIN queue[p] \subseteq DOMAIN q
                    BY <1>3
                <5> QED BY <1>3, <5>1 DEF Queued
            <4> QED BY <4>1, <4>2
        <3> QED BY <3>1, <3>2
    <2>2. \A k \in Jobs : res[k] = "none" => evaluation[k] = "none"
        BY <1>1, <1>4, <1>5 DEF WaitersAreKnown
    <2>3. \A k \in Jobs : evaluation[k] \in {"over", "released"} => res[k] # "waiting"
        BY <1>1, <1>4, <1>5 DEF WaitersAreKnown
    <2> QED BY <1>2, <2>1, <2>2, <2>3 DEF Waiters
<1>13. Continues(p, q, evaluation, res)
    <2>1. \A i \in DOMAIN queue[p] : i \in DOMAIN q /\ q[i] = queue[p][i]
        BY <1>3
    <2> QED BY <1>2, <1>5, <2>1 DEF Continues
<1> QED BY <1>3, <1>5, <1>8, <1>10, <1>11, <1>12, <1>13 DEF q, res

\* What the end of an evaluation hands to drain: its job has given up the slot.
LEMMA ReleaseHands ==
    ASSUME IInv, NEW j \in Jobs, Release(j)
    PROVE  LET p == PoolOf[j]
               act == active \ {j}
               evs == [evaluation EXCEPT ![j] = "released"]
           IN  /\ queue[p] \in Seq(Jobs) /\ evs \in [Jobs -> EvaluationStates]
               /\ Queueing(p, queue[p], evs, result) /\ SlotsHeld(p, queue[p], act, evs)
               /\ Waiters(p, queue[p], act, evs, result) /\ Continues(p, queue[p], evs, result)
               /\ Drain(p, queue[p], act, evs, left, result)
<1> DEFINE p == PoolOf[j]
           act == active \ {j}
           evs == [evaluation EXCEPT ![j] = "released"]
<1>1. TypeOK /\ QueuedWait /\ WaitersAreKnown /\ ClosedIsEmpty /\ SlotsAreEvaluations
    BY DEF IInv
<1>2. p \in Pools /\ queue[p] \in Seq(Jobs) /\ evaluation[j] = "over" /\ result[j] # "waiting"
    BY <1>1, SchedulerConstants DEF TypeOK, Release, WaitersAreKnown
<1>3. evs \in [Jobs -> EvaluationStates] /\ evs[j] = "released"
        /\ \A k \in Jobs : k # j => evs[k] = evaluation[k]
    BY <1>1 DEF TypeOK, EvaluationStates
<1>4. Drain(p, queue[p], act, evs, left, result)
    BY DEF Release
<1>5. \A r \in Pools : \A i \in DOMAIN queue[r] :
        /\ queue[r][i] \in Jobs /\ queue[r][i] # j
        /\ result[queue[r][i]] = "waiting" /\ evaluation[queue[r][i]] = "none"
    BY <1>1, <1>2, ElementOfSeq, LenProperties DEF TypeOK, QueuedWait
<1> HIDE DEF evs
<1>6. Queueing(p, queue[p], evs, result)
    BY <1>1, <1>2, <1>3, <1>5 DEF Queueing, TypeOK, Distinct
<1>7. SlotsHeld(p, queue[p], act, evs)
    <2>1. act = {k \in Jobs : evs[k] \in {"running", "validating", "over"}}
        BY <1>1, <1>3 DEF SlotsAreEvaluations, Evaluating, TypeOK
    <2>2. Cardinality(ActiveIn(p, active)) <= Limit[p] /\ Len(queue[p]) <= Waiting[p]
        BY <1>1, <1>2 DEF SlotsAreEvaluations
    <2>3. Cardinality(ActiveIn(p, act)) <= Limit[p]
        <3>1. ActiveIn(p, act) \in SUBSET ActiveIn(p, active) /\ ActiveIn(p,
               active) \in SUBSET Jobs
            BY <1>1 DEF ActiveIn, TypeOK
        <3>2. Cardinality(ActiveIn(p, act)) <= Cardinality(ActiveIn(p, active))
                /\ Cardinality(ActiveIn(p, act)) \in Nat /\ Cardinality(ActiveIn(p, active)) \in Nat
            BY <3>1, JobsCount, FS_Subset
        <3> QED BY <1>2, <2>2, <3>2, SchedulerConstants
    <2>4. \A r \in Pools \ {p} : ActiveIn(r, act) = ActiveIn(r, active)
        BY DEF ActiveIn
    <2>5. Len(queue[p]) <= Waiting[p] + 1
        BY <1>2, <2>2, LenProperties, SchedulerConstants
    <2> QED BY <2>1, <2>2, <2>3, <2>4, <2>5 DEF SlotsHeld
<1>8. Waiters(p, queue[p], act, evs, result)
    <2>1. ASSUME NEW k \in Jobs, result[k] = "waiting"
          PROVE  (\E i \in DOMAIN queue[p] : queue[p][i] = k) \/ k \in act \/ (PoolOf[k] # p /\ Queued(k))
        <3>1. Queued(k) \/ k \in active
            BY <1>1, <2>1 DEF WaitersAreKnown
        <3> QED BY <1>2, <2>1, <3>1 DEF Queued
    <2>2. \A k \in Jobs : result[k] = "none" => evs[k] = "none"
        <3>1. result[j] # "none"
            BY <1>1, <1>2 DEF WaitersAreKnown
        <3> QED BY <1>1, <1>3, <3>1 DEF WaitersAreKnown
    <2>3. \A k \in Jobs : evs[k] \in {"over", "released"} => result[k] # "waiting"
        BY <1>1, <1>2, <1>3 DEF WaitersAreKnown
    <2>4. closed => queue[p] = <<>> /\ \A k \in Jobs : result[k] # "waiting"
        BY <1>1, <1>2 DEF ClosedIsEmpty
    <2> QED BY <2>1, <2>2, <2>3, <2>4 DEF Waiters
<1>9. Continues(p, queue[p], evs, result)
    BY <1>3, <1>5 DEF Continues
<1> QED BY <1>2, <1>3, <1>4, <1>6, <1>7, <1>8, <1>9 DEF evs

--------------------------------------------------------------------------------
\* The invariant and what it implies

\* A step that moves no slot and no queue keeps the limits.
LEMMA SlotsUntouched ==
    ASSUME SlotsAreEvaluations, UNCHANGED <<queue, active>>,
           \A j \in Jobs : Evaluating(j)' <=> Evaluating(j)
    PROVE  SlotsAreEvaluations'
<1>1. {j \in Jobs : Evaluating(j)}' = {j \in Jobs : Evaluating(j)}
    OBVIOUS
<1> QED BY <1>1 DEF SlotsAreEvaluations, Full, ActiveIn

\* A request refused at the door never queues.
LEMMA RefuseKeeps ==
    ASSUME IInv, NEW j \in Jobs, NEW r \in Failures, Refuse(j, r)
    PROVE  IInv'
<1>1. TypeOK /\ QueuedWait /\ WaitersAreKnown /\ ClosedIsEmpty /\ SlotsAreEvaluations
    BY DEF IInv
<1>2. /\ result[j] = "none" /\ result' = [result EXCEPT ![j] = r]
      /\ UNCHANGED <<callers, closed, queue, active, aborted, left, evaluation>>
    BY DEF Refuse
<1>3. r # "waiting" /\ r # "none" /\ result' \in [Jobs -> Results]
    BY <1>1, <1>2 DEF Failures, Results, TypeOK
<1>4. TypeOK'
    BY <1>1, <1>2, <1>3 DEF TypeOK, Results
<1>5. QueuedWait'
    BY <1>1, <1>2, ElementOfSeq, LenProperties DEF QueuedWait, TypeOK
<1>6. WaitersAreKnown'
    BY <1>1, <1>2, <1>3 DEF WaitersAreKnown, Queued, TypeOK
<1>7. ClosedIsEmpty'
    BY <1>1, <1>2, <1>3 DEF ClosedIsEmpty, TypeOK
<1>8. SlotsAreEvaluations'
    BY <1>1, <1>2, SlotsUntouched DEF Evaluating
<1> QED BY <1>4, <1>5, <1>6, <1>7, <1>8 DEF IInv

\* Time and aborts only change what will be told.
LEMMA ClockKeeps ==
    ASSUME IInv, NEW j \in Jobs, Pass(j) \/ Abort(j)
    PROVE  IInv'
<1>1. TypeOK /\ QueuedWait /\ WaitersAreKnown /\ ClosedIsEmpty /\ SlotsAreEvaluations
    BY DEF IInv
<1>2. /\ left' \in [Jobs -> 0..Cap] /\ aborted' \subseteq Jobs
      /\ UNCHANGED <<callers, closed, queue, active, result, evaluation>>
    BY <1>1 DEF Pass, Abort, TypeOK
<1>3. TypeOK' /\ QueuedWait' /\ WaitersAreKnown' /\ ClosedIsEmpty'
    BY <1>1, <1>2 DEF TypeOK, QueuedWait, WaitersAreKnown, Queued, ClosedIsEmpty
<1>4. SlotsAreEvaluations'
    BY <1>1, <1>2, SlotsUntouched DEF Evaluating
<1> QED BY <1>3, <1>4 DEF IInv

\* An answer is validated for a caller that still waits.
LEMMA AnswersKeeps ==
    ASSUME IInv, NEW j \in Jobs, EvaluationAnswers(j)
    PROVE  IInv'
<1>1. TypeOK /\ QueuedWait /\ WaitersAreKnown /\ ClosedIsEmpty /\ SlotsAreEvaluations
    BY DEF IInv
<1>2. CASE result[j] # "waiting" \/ Outlived(j)
    <2>1. Reason(j) \in Answers \cup Failures
        BY DEF Reason, Failures
    <2> QED BY <1>2, <2>1, FinishKeeps DEF EvaluationAnswers
<1>3. CASE ~(result[j] # "waiting" \/ Outlived(j))
    <2>1. /\ evaluation[j] = "running" /\ result[j] = "waiting"
          /\ evaluation' = [evaluation EXCEPT ![j] = "validating"]
          /\ UNCHANGED <<callers, closed, queue, active, result, aborted, left>>
        BY <1>3 DEF EvaluationAnswers
    <2>2. TypeOK'
        BY <1>1, <2>1 DEF TypeOK
    <2>3. QueuedWait' /\ WaitersAreKnown' /\ ClosedIsEmpty'
        BY <1>1, <2>1, ElementOfSeq, LenProperties
        DEF TypeOK, QueuedWait, WaitersAreKnown, Queued, ClosedIsEmpty
    <2>4. SlotsAreEvaluations'
        BY <1>1, <2>1, SlotsUntouched DEF TypeOK, Evaluating
    <2> QED BY <2>2, <2>3, <2>4 DEF IInv
<1> QED BY <1>2, <1>3

\* The steps that tell one caller something.
LEMMA TellingKeeps ==
    ASSUME IInv, NEW j \in Jobs,
           \/ Timer(j) \/ AbortHeard(j) \/ EvaluationRejects(j)
           \/ \E answer \in {"decision", "malformed_result"} : Validated(j, answer)
    PROVE  IInv'
<1>1. CASE Timer(j)
    BY <1>1, FinishKeeps DEF Timer, Failures
<1>2. CASE AbortHeard(j)
    BY <1>2, FinishKeeps DEF AbortHeard, Failures
<1>3. CASE EvaluationRejects(j)
    <2>1. Verdict(j, "rejected") \in Answers \cup Failures
        BY DEF Verdict, Reason, Answers, Failures
    <2> QED BY <1>3, <2>1, FinishKeeps DEF EvaluationRejects
<1>4. ASSUME NEW answer \in {"decision", "malformed_result"}, Validated(j, answer)
      PROVE  IInv'
    <2>1. Verdict(j, answer) \in Answers \cup Failures
        BY DEF Verdict, Reason, Answers, Failures
    <2> QED BY <1>4, <2>1, FinishKeeps DEF Validated
<1> QED BY <1>1, <1>2, <1>3, <1>4

\* shutdown tells everybody who waits, since whoever waits queues or has a slot.
LEMMA ShutdownKeeps ==
    ASSUME IInv, Shutdown
    PROVE  IInv'
<1>1. TypeOK /\ QueuedWait /\ WaitersAreKnown /\ ClosedIsEmpty /\ SlotsAreEvaluations
    BY DEF IInv
<1>2. /\ closed' = TRUE /\ queue' = [p \in Pools |-> <<>>]
      /\ result' = [j \in Jobs |-> IF j \in Clients THEN "shutdown" ELSE result[j]]
      /\ UNCHANGED <<callers, active, aborted, left, evaluation>>
    BY DEF Shutdown
<1>3. \A p \in Pools : queue'[p] = <<>> /\ Len(queue'[p]) = 0 /\ DOMAIN queue'[p] = {}
    BY <1>2
<1>4. \A j \in Jobs : /\ result'[j] # "waiting"
                      /\ result'[j] = "none" => result[j] = "none"
    BY <1>1, <1>2 DEF WaitersAreKnown, Clients
<1>5. TypeOK'
    <2>1. result' \in [Jobs -> Answers \cup Failures \cup {"none", "waiting"}]
        BY <1>1, <1>2 DEF TypeOK, Failures
    <2>2. queue' \in [Pools -> Seq(Jobs)]
        BY <1>2
    <2> QED BY <1>1, <1>2, <1>3, <2>1, <2>2 DEF TypeOK
<1>6. QueuedWait' /\ WaitersAreKnown' /\ ClosedIsEmpty'
    BY <1>1, <1>2, <1>3, <1>4 DEF QueuedWait, WaitersAreKnown, ClosedIsEmpty
<1>7. SlotsAreEvaluations'
    <2>1. {j \in Jobs : Evaluating(j)}' = {j \in Jobs : Evaluating(j)}
        BY <1>2 DEF Evaluating
    <2>2. \A p \in Pools : Len(queue'[p]) <= Waiting[p]
        BY <1>3, SchedulerConstants
    <2> QED BY <1>1, <1>2, <1>3, <2>1, <2>2 DEF SlotsAreEvaluations, ActiveIn
<1> QED BY <1>5, <1>6, <1>7 DEF IInv

\* A request is admitted; an evaluation gives its slot back.
LEMMA AdmitKeeps ==
    ASSUME IInv, NEW j \in Jobs, NEW t \in Floor..Cap, Admit(j, t)
    PROVE  IInv' /\ ToldOnce /\ StartsInOrder
<1> DEFINE p == PoolOf[j]
           q == Append(queue[p], j)
           res == [result EXCEPT ![j] = "waiting"]
<1>1. /\ q \in Seq(Jobs) /\ res \in [Jobs -> Results]
      /\ Queueing(p, q, evaluation, res) /\ SlotsHeld(p, q, active, evaluation)
      /\ Waiters(p, q, active, evaluation, res) /\ Continues(p, q, evaluation, res)
      /\ Drain(p, q, active, evaluation, left', res)
    BY AdmitHands
<1>2. p \in Pools /\ active \in SUBSET Jobs /\ evaluation \in [Jobs -> EvaluationStates]
    BY SchedulerConstants DEF IInv, TypeOK, EvaluationStates
<1>3. left' \in [Jobs -> 0..Cap] /\ UNCHANGED <<callers, closed, aborted>>
    <2>1. t \in 0..Cap
        BY SchedulerConstants
    <2> QED BY <2>1 DEF Admit, IInv, TypeOK
<1> HIDE DEF p, q, res
<1>4. IInv'
    BY <1>1, <1>2, <1>3, DrainKeeps
<1>5. ToldOnce /\ StartsInOrder
    BY <1>1, <1>2, DrainActs
<1> QED BY <1>4, <1>5

\* The end of an evaluation frees its slot and drains the pool.
LEMMA ReleaseKeeps ==
    ASSUME IInv, NEW j \in Jobs, Release(j)
    PROVE  IInv' /\ ToldOnce /\ StartsInOrder
<1> DEFINE p == PoolOf[j]
           q == queue[p]
           act == active \ {j}
           evs == [evaluation EXCEPT ![j] = "released"]
<1>1. /\ q \in Seq(Jobs) /\ evs \in [Jobs -> EvaluationStates]
      /\ Queueing(p, q, evs, result) /\ SlotsHeld(p, q, act, evs)
      /\ Waiters(p, q, act, evs, result) /\ Continues(p, q, evs, result)
      /\ Drain(p, q, act, evs, left, result)
    BY ReleaseHands
<1>2. p \in Pools /\ act \in SUBSET Jobs /\ result \in [Jobs -> Results]
    BY SchedulerConstants DEF IInv, TypeOK, Results
<1>3. left' \in [Jobs -> 0..Cap] /\ UNCHANGED <<callers, closed, aborted>>
    BY DEF Release, IInv, TypeOK
<1> HIDE DEF p, q, act, evs
<1>4. IInv'
    BY <1>1, <1>2, <1>3, DrainKeeps
<1>5. ToldOnce /\ StartsInOrder
    BY <1>1, <1>2, DrainActs
<1> QED BY <1>4, <1>5

\* All of it holds at the start.
LEMMA IInvInit == Init => IInv
<1> SUFFICES ASSUME Init PROVE IInv
    OBVIOUS
<1>1. \A p \in Pools : queue[p] = <<>> /\ Len(queue[p]) = 0 /\ DOMAIN queue[p] = {}
    BY DEF Init
<1>2. TypeOK
    <2>1. left \in [Jobs -> 0..Cap]
        BY SchedulerConstants DEF Init
    <2>2. queue \in [Pools -> Seq(Jobs)]
        BY EmptySeq DEF Init
    <2>3. \A p \in Pools : \A i, k \in DOMAIN queue[p] :
              PoolOf[queue[p][i]] = p /\ (queue[p][i] = queue[p][k] => i = k)
        BY <1>1
    <2>4. closed \in BOOLEAN /\ callers \in Traffic /\ active \subseteq Jobs /\ aborted \subseteq Jobs
        BY DEF Init
    <2>5. /\ result \in [Jobs -> Answers \cup Failures \cup {"none", "waiting"}]
          /\ evaluation \in [Jobs -> {"none", "running", "validating", "over", "released"}]
        BY DEF Init
    <2> QED BY <2>1, <2>2, <2>3, <2>4, <2>5 DEF TypeOK
<1>3. QueuedWait /\ WaitersAreKnown /\ ClosedIsEmpty
    BY <1>1 DEF Init, QueuedWait, WaitersAreKnown, ClosedIsEmpty
<1>4. SlotsAreEvaluations
    <2>1. active = {j \in Jobs : Evaluating(j)}
        BY DEF Init, Evaluating
    <2>2. \A p \in Pools : ActiveIn(p, {j \in Jobs : Evaluating(j)}) = {}
        BY <2>1 DEF Init, ActiveIn
    <2>3. Cardinality({}) = 0
        BY FS_EmptySet
    <2>4. \A p \in Pools : Limit[p] \in Nat \ {0} /\ Waiting[p] \in Nat
        <3> TAKE p \in Pools
        <3> QED BY SchedulerConstants
    <2>5. ASSUME NEW p \in Pools
          PROVE  /\ Cardinality(ActiveIn(p, {j \in Jobs : Evaluating(j)})) <= Limit[p]
                 /\ queue[p] # <<>> => Full(p)
                 /\ Len(queue[p]) <= Waiting[p]
        <3>1. Cardinality(ActiveIn(p, {j \in Jobs : Evaluating(j)})) = 0
            BY <2>2, <2>3
        <3>2. 0 <= Limit[p] /\ 0 <= Waiting[p]
            BY <2>4
        <3> QED BY <1>1, <3>1, <3>2
    <2> QED BY <2>1, <2>5 DEF SlotsAreEvaluations
<1> QED BY <1>2, <1>3, <1>4 DEF IInv

\* Every step keeps it.
LEMMA IInvStep == IInv /\ [Next]_vars => IInv'
<1> SUFFICES ASSUME IInv, [Next]_vars PROVE IInv'
    OBVIOUS
<1>1. ASSUME NEW j \in Jobs, NEW r \in Failures, Refuse(j, r) PROVE IInv'
    BY <1>1, RefuseKeeps
<1>2. ASSUME NEW j \in Jobs, NEW t \in Floor..Cap, Admit(j, t) PROVE IInv'
    BY <1>2, AdmitKeeps
<1>3. ASSUME NEW j \in Jobs, Pass(j) \/ Abort(j) PROVE IInv'
    BY <1>3, ClockKeeps
<1>4. ASSUME NEW j \in Jobs,
             \/ Timer(j) \/ AbortHeard(j) \/ EvaluationRejects(j)
             \/ \E answer \in {"decision", "malformed_result"} : Validated(j, answer)
      PROVE  IInv'
    BY <1>4, TellingKeeps
<1>5. ASSUME NEW j \in Jobs, EvaluationAnswers(j) PROVE IInv'
    BY <1>5, AnswersKeeps
<1>6. ASSUME NEW j \in Jobs, Release(j) PROVE IInv'
    BY <1>6, ReleaseKeeps
<1>7. CASE Shutdown
    BY <1>7, ShutdownKeeps
<1>8. CASE UNCHANGED vars
    <2>1. TypeOK' /\ QueuedWait' /\ WaitersAreKnown' /\ ClosedIsEmpty'
        BY <1>8 DEF vars, IInv, TypeOK, QueuedWait, WaitersAreKnown, Queued,
               ClosedIsEmpty
    <2>2. SlotsAreEvaluations'
        BY <1>8, SlotsUntouched DEF vars, IInv, Evaluating
    <2> QED BY <2>1, <2>2 DEF IInv
<1> QED BY <1>1, <1>2, <1>3, <1>4, <1>5, <1>6, <1>7, <1>8 DEF Next

\* The inductive invariant holds in every state of every behaviour.
THEOREM SchedulerInvariant == Spec => []IInv
<1> QED BY IInvInit, IInvStep, PTL DEF Spec

\* Every variable keeps its type, and each job queues once, in its own pool, for
\* any pools, limits and jobs.
THEOREM TypeCorrect == Spec => []TypeOK
<1>1. IInv => TypeOK
    BY DEF IInv
<1> QED BY <1>1, SchedulerInvariant, PTL

\* The provider never sees more evaluations than a pool's limit, whatever callers
\* were told meanwhile; no slot idles while a job queues; no queue outgrows its
\* waiting limit.
THEOREM LimitsHold == Spec => []SlotsAreEvaluations
<1>1. IInv => SlotsAreEvaluations
    BY DEF IInv
<1> QED BY <1>1, SchedulerInvariant, PTL

--------------------------------------------------------------------------------
\* What a step may never do

\* A step that tells at most one caller, who waits, and starts nothing.
LEMMA TellingActs ==
    ASSUME IInv, NEW j \in Jobs, NEW r, Finish(j, r), UNCHANGED <<closed, aborted, left>>,
           r \in Answers => ~Outlived(j),
           \A k \in Jobs : evaluation'[k] # evaluation[k] => evaluation[k] # "none"
    PROVE  ToldOnce /\ StartsInOrder
<1>1. TypeOK /\ QueuedWait /\ ClosedIsEmpty
    BY DEF IInv
<1>2. \A k \in Jobs : result'[k] # result[k] => k = j /\ result[j] = "waiting" /\ result'[j] = r
    BY <1>1 DEF Finish, Finished, TypeOK
<1>3. ToldOnce
    BY <1>1, <1>2 DEF ToldOnce, ClosedIsEmpty
<1>4. \A p \in Pools : \A k \in DOMAIN queue[p] : evaluation'[queue[p][k]] = evaluation[queue[p][k]]
    BY <1>1, ElementOfSeq, LenProperties DEF QueuedWait, TypeOK
<1>5. StartsInOrder
    BY <1>4 DEF StartsInOrder
<1> QED BY <1>3, <1>5

\* Every step keeps both properties.
LEMMA ActionsKeep == IInv /\ [Next]_vars => ToldOnce /\ StartsInOrder
<1> SUFFICES ASSUME IInv, [Next]_vars PROVE ToldOnce /\ StartsInOrder
    OBVIOUS
<1>0. TypeOK /\ ClosedIsEmpty
    BY DEF IInv
<1>1. ASSUME NEW j \in Jobs, NEW r \in Failures, Refuse(j,
       r) PROVE ToldOnce /\ StartsInOrder
    <2>1. r \notin Answers
        BY DEF Failures, Answers
    <2> QED BY <1>0, <1>1, <2>1 DEF Refuse, ToldOnce, StartsInOrder, TypeOK
<1>2. ASSUME NEW j \in Jobs, NEW t \in Floor..Cap, Admit(j,
       t) PROVE ToldOnce /\ StartsInOrder
    BY <1>2, AdmitKeeps
<1>3. ASSUME NEW j \in Jobs, Pass(j) \/ Abort(j) PROVE ToldOnce /\ StartsInOrder
    BY <1>3 DEF Pass, Abort, ToldOnce, StartsInOrder
<1>4. ASSUME NEW j \in Jobs, Timer(j) \/ AbortHeard(j) PROVE ToldOnce /\ StartsInOrder
    BY <1>4, TellingActs DEF Timer, AbortHeard, Answers
<1>5. ASSUME NEW j \in Jobs, EvaluationRejects(j) PROVE ToldOnce /\ StartsInOrder
    <2>1. \A k \in Jobs : evaluation'[k] # evaluation[k] => evaluation[k] # "none"
        BY <1>0, <1>5 DEF EvaluationRejects, TypeOK
    <2>2. Verdict(j, "rejected") \in Answers => ~Outlived(j)
        BY DEF Verdict, Reason, Answers
    <2> QED BY <1>5, <2>1, <2>2, TellingActs DEF EvaluationRejects
<1>6. ASSUME NEW j \in Jobs, NEW answer \in {"decision", "malformed_result"},
       Validated(j, answer)
      PROVE  ToldOnce /\ StartsInOrder
    <2>1. \A k \in Jobs : evaluation'[k] # evaluation[k] => evaluation[k] # "none"
        BY <1>0, <1>6 DEF Validated, TypeOK
    <2>2. Verdict(j, answer) \in Answers => ~Outlived(j)
        BY DEF Verdict, Reason, Answers
    <2> QED BY <1>6, <2>1, <2>2, TellingActs DEF Validated
<1>7. ASSUME NEW j \in Jobs, EvaluationAnswers(j) PROVE ToldOnce /\ StartsInOrder
    <2>1. \A k \in Jobs : evaluation'[k] # evaluation[k] => evaluation[k] # "none"
        BY <1>0, <1>7 DEF EvaluationAnswers, TypeOK
    <2>2. CASE result[j] # "waiting" \/ Outlived(j)
        <3>1. Reason(j) \notin Answers
            BY DEF Reason, Answers
        <3> QED BY <1>7, <2>1, <2>2, <3>1, TellingActs DEF EvaluationAnswers
    <2>3. CASE ~(result[j] # "waiting" \/ Outlived(j))
        <3>1. ToldOnce
            BY <1>7, <2>3 DEF EvaluationAnswers, ToldOnce
        <3>2. UNCHANGED queue /\ \A p \in Pools : \A k \in DOMAIN queue[p] :
                evaluation'[queue[p][k]] = evaluation[queue[p][k]]
            BY <1>0, <1>7, <2>1, <2>3, ElementOfSeq, LenProperties
            DEF EvaluationAnswers, IInv, QueuedWait, TypeOK
        <3> QED BY <3>1, <3>2 DEF StartsInOrder
    <2> QED BY <2>2, <2>3
<1>8. ASSUME NEW j \in Jobs, Release(j) PROVE ToldOnce /\ StartsInOrder
    BY <1>8, ReleaseKeeps
<1>9. CASE Shutdown
    BY <1>9 DEF Shutdown, Clients, ToldOnce, StartsInOrder, Answers
<1>10. CASE UNCHANGED vars
    BY <1>10 DEF vars, ToldOnce, StartsInOrder
<1> QED BY <1>1, <1>2, <1>3, <1>4, <1>5, <1>6, <1>7, <1>8, <1>9, <1>10 DEF Next

\* A caller is told once, and the provider's word only while it neither aborted
\* nor ran out of time, and never after shutdown.
THEOREM NothingToldLate == Spec => NoLateAnswer
<1>1. IInv /\ [Next]_vars => ToldOnce
    BY ActionsKeep
<1>2. IInv /\ [Next]_vars => [\A j \in Jobs : result'[j] # result[j] =>
        /\ result[j] \in {"none", "waiting"}
        /\ result'[j] \in Answers => ~Outlived(j) /\ ~closed]_vars
    BY <1>1 DEF ToldOnce
<1> QED BY <1>2, SchedulerInvariant, PTL DEF Spec, NoLateAnswer

\* Evaluations start in the order of arrival, in each pool.
THEOREM ArrivalOrderKept == Spec => FirstComeFirstServed
<1>1. IInv /\ [Next]_vars => StartsInOrder
    BY ActionsKeep
<1>2. IInv /\ [Next]_vars => [\A p \in Pools : \A i, k \in DOMAIN queue[p] :
        i < k /\ evaluation'[queue[p][k]] # evaluation[queue[p][k]] =>
            \A n \in DOMAIN queue'[p] : queue'[p][n] # queue[p][i]]_vars
    BY <1>1 DEF StartsInOrder
<1> QED BY <1>2, SchedulerInvariant, PTL DEF Spec, FirstComeFirstServed

================================================================================
