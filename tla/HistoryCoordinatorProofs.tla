------------------------- MODULE HistoryCoordinatorProofs -------------------------
(***************************************************************************)
(* Theorems about the saved history of a conversation, for any messages,   *)
(* assets, synchronize calls and scenes.  The inductive invariant follows  *)
(* the newest text of each message on its way from the pending map through *)
(* the queue into the store: an older text never comes behind it, and      *)
(* every text that leaves the queue is saved, older, or lost by a store    *)
(* that fails.                                                             *)
(***************************************************************************)
EXTENDS HistoryCoordinator, FiniteSetTheorems, SequenceTheorems, WellFoundedInduction, TLAPS

\* The text numbered n of message i is in p, a pending map, or in q, a queue.
InPending(p, i, n) == \E k \in DOMAIN p : p[k].id = i /\ p[k].text = n
InJob(job, i, n) == \E m \in DOMAIN job.updates :
    job.updates[m].id = i /\ job.updates[m].text = n
Carried(p, q, i, n) == InPending(p, i, n) \/ \E k \in DOMAIN q : InJob(q[k], i, n)

\* It comes after the job at place k.
CarriedBehind(p, q, k, i, n) ==
    InPending(p, i, n) \/ \E l \in DOMAIN q : l > k /\ InJob(q[l], i, n)

OncePerId(p) == \A k, m \in DOMAIN p : p[k].id = p[m].id => k = m

\* What is pending has the newest text of its message, or no text at all.
PendingIsNewest(p, lat) ==
    /\ p \in Seq(Update) /\ OncePerId(p)
    /\ \A k \in DOMAIN p :
        /\ p[k].assetOnly <=> p[k].text = 0
        /\ p[k].text # 0 => p[k].text = lat[p[k].id]

\* An update in the queue has the newest text of its message, or the newest is
\* behind it.
JobInOrder(p, q, lat, k) ==
    /\ q[k].kind # "flush" => q[k].updates = <<>>
    /\ OncePerId(q[k].updates)
    /\ \A m \in DOMAIN q[k].updates :
        LET u == q[k].updates[m]
        IN  /\ u.assetOnly <=> u.text = 0
            /\ u.text # 0 => \/ u.text = lat[u.id]
                             \/ CarriedBehind(p, q, k, u.id, lat[u.id])
QueueInOrder(p, q, lat) == q \in Seq(Job) /\ \A k \in DOMAIN q : JobInOrder(p, q, lat, k)

InOrder(p, q, lat) == PendingIsNewest(p, lat) /\ QueueInOrder(p, q, lat)

\* Only the oldest job has begun, so that no read is ever stale.
OneAtATime(q, failing) ==
    \A k \in DOMAIN q :
        /\ q[k].stage # "stale" /\ (k # 1 => q[k].stage = "waiting")
        /\ q[k].stage = "reporting" => q[k].kind = "sync" /\ "reader" \in failing

\* A newest text that is not underway is saved, or a failing store lost it.
NewestIsSafe ==
    \A i \in Ids : latest[i] # 0 =>
        \/ Carried(pending, queue, i, latest[i])
        \/ i \in lost
        \/ Saved(i) /\ store[i].text = latest[i]

OnlyStoreLoses == lost # {} \/ missing # {} => "store" \in scene.failing

IInv ==
    /\ TypeOK
    /\ InOrder(pending, queue, latest)
    /\ OneAtATime(queue, scene.failing)
    /\ NewestIsSafe /\ OnlyStoreLoses /\ DroppedIsNeverInSync

--------------------------------------------------------------------------------
\* Sets of numbers, pending maps and queues

\* A finite set of naturals has a greatest element.
LEMMA GreatestExists ==
    ASSUME NEW S \in SUBSET Nat, IsFiniteSet(S), S # {}
    PROVE  Max(S) \in S /\ \A x \in S : x <= Max(S)
<1> DEFINE Bare == {X \in SUBSET S : X # {} /\ ~\E x \in X : \A y \in X : x >= y}
<1>1. Bare = {}
    <2> SUFFICES ASSUME Bare # {} PROVE FALSE
        OBVIOUS
    <2>1. Bare \subseteq FiniteSubsetsOf(S)
        BY FS_FiniteSubsetsOfFinite
    <2>2. PICK X \in Bare : \A Y \in Bare : ~(<<Y, X>> \in StrictSubsetOrdering(S))
        BY <2>1, FS_StrictSubsetOrderingWellFounded, WFMin
    <2>3. PICK x \in X : TRUE
        BY <2>2
    <2> DEFINE Y == X \ {x}
    <2>4. Y \notin Bare
        BY <2>2, <2>3 DEF StrictSubsetOrdering
    <2>5. Y # {}
        BY <2>2, <2>3
    <2>6. PICK y \in Y : \A z \in Y : y >= z
        BY <2>2, <2>4, <2>5
    <2>7. X \subseteq Nat /\ x \in Nat /\ y \in Nat
        BY <2>2, <2>3, <2>6
    <2>8. CASE x >= y
        BY <2>2, <2>3, <2>6, <2>7, <2>8
    <2>9. CASE ~(x >= y)
        BY <2>2, <2>3, <2>6, <2>7, <2>9
    <2> QED BY <2>8, <2>9
<1>2. \E x \in S : \A y \in S : x >= y
    BY <1>1
<1> QED BY <1>2 DEF Max

\* The elements of a sequence.
LEMMA SeqAt ==
    ASSUME NEW S, NEW seq \in Seq(S), NEW k \in DOMAIN seq
    PROVE  seq[k] \in S
    BY ElementOfSeq, LenProperties

\* What Put makes of a pending map.
LEMMA PutShape ==
    ASSUME pending \in Seq(Update), OncePerId(pending), NEW u \in Update
    PROVE  /\ Put(u) \in Seq(Update) /\ OncePerId(Put(u))
           /\ \A k \in DOMAIN Put(u) : Put(u)[k].id # u.id =>
                \E m \in DOMAIN pending : Put(u)[k] = pending[m]
           /\ \A k \in DOMAIN Put(u) : Put(u)[k].id = u.id =>
                \/ Put(u)[k].assetOnly = u.assetOnly /\ Put(u)[k].text = u.text
                \/ /\ u.assetOnly
                   /\ \E m \in DOMAIN pending :
                        /\ pending[m].id = u.id
                        /\ Put(u)[k].assetOnly = pending[m].assetOnly
                        /\ Put(u)[k].text = pending[m].text
           /\ \A m \in DOMAIN pending : pending[m].id # u.id \/ u.assetOnly =>
                \E k \in DOMAIN Put(u) :
                    Put(u)[k].id = pending[m].id /\ Put(u)[k].text = pending[m].text
           /\ ~u.assetOnly =>
                \E k \in DOMAIN Put(u) : Put(u)[k].id = u.id /\ Put(u)[k].text = u.text
           /\ Put(u) # <<>>
<1>1. Len(pending) \in Nat /\ DOMAIN pending = 1..Len(pending)
      /\ \A k \in DOMAIN pending : pending[k] \in Update
    BY LenProperties, ElementOfSeq
<1>2. CASE \E k \in DOMAIN pending : pending[k].id = u.id
    <2> DEFINE at(k) ==
            IF pending[k].id # u.id THEN pending[k]
            ELSE IF u.assetOnly THEN [pending[k] EXCEPT !.assets = @ \cup u.assets]
            ELSE [u EXCEPT !.assets = @ \cup pending[k].assets]
    <2>1. Put(u) = [k \in DOMAIN pending |-> at(k)]
        BY <1>2 DEF Put
    <2>2. \A k \in DOMAIN pending :
            /\ at(k) \in Update /\ at(k).id = pending[k].id
            /\ pending[k].id # u.id => at(k) = pending[k]
            /\ pending[k].id = u.id /\ u.assetOnly =>
                at(k).assetOnly = pending[k].assetOnly /\ at(k).text = pending[k].text
            /\ pending[k].id = u.id /\ ~u.assetOnly =>
                at(k).assetOnly = u.assetOnly /\ at(k).text = u.text
        <3> SUFFICES ASSUME NEW k \in DOMAIN pending
                     PROVE  /\ at(k) \in Update /\ at(k).id = pending[k].id
                            /\ pending[k].id # u.id => at(k) = pending[k]
                            /\ pending[k].id = u.id /\ u.assetOnly =>
                                /\ at(k).assetOnly = pending[k].assetOnly
                                /\ at(k).text = pending[k].text
                            /\ pending[k].id = u.id /\ ~u.assetOnly =>
                                at(k).assetOnly = u.assetOnly /\ at(k).text = u.text
            OBVIOUS
        <3>1. pending[k] \in Update
            BY <1>1
        <3> QED BY <3>1 DEF Update
    <2> HIDE DEF at
    <2>3. Put(u) \in Seq(Update)
        BY <1>1, <2>1, <2>2, SeqDef
    <2>4. DOMAIN Put(u) = DOMAIN pending /\ \A k \in DOMAIN pending : Put(u)[k] = at(k)
        BY <2>1
    <2>5. OncePerId(Put(u))
        BY <2>2, <2>4 DEF OncePerId
    <2>6. Put(u) # <<>>
        BY <1>2, <2>4
    <2>7. \A k \in DOMAIN Put(u) : Put(u)[k].id = u.id =>
            \/ Put(u)[k].assetOnly = u.assetOnly /\ Put(u)[k].text = u.text
            \/ /\ u.assetOnly
               /\ \E m \in DOMAIN pending :
                    /\ pending[m].id = u.id
                    /\ Put(u)[k].assetOnly = pending[m].assetOnly
                    /\ Put(u)[k].text = pending[m].text
        BY <2>2, <2>4
    <2>8. \A k \in DOMAIN Put(u) : Put(u)[k].id # u.id =>
            \E m \in DOMAIN pending : Put(u)[k] = pending[m]
        BY <2>2, <2>4
    <2>9. \A m \in DOMAIN pending : pending[m].id # u.id \/ u.assetOnly =>
            \E k \in DOMAIN Put(u) :
                Put(u)[k].id = pending[m].id /\ Put(u)[k].text = pending[m].text
        BY <2>2, <2>4
    <2>10. ~u.assetOnly =>
            \E k \in DOMAIN Put(u) : Put(u)[k].id = u.id /\ Put(u)[k].text = u.text
        BY <1>2, <2>2, <2>4
    <2> QED BY <2>3, <2>5, <2>6, <2>7, <2>8, <2>9, <2>10
<1>3. CASE ~\E k \in DOMAIN pending : pending[k].id = u.id
    <2>1. Put(u) = Append(pending, u)
        BY <1>3 DEF Put
    <2>2. /\ Put(u) \in Seq(Update) /\ Len(Put(u)) = Len(pending) + 1
          /\ \A k \in DOMAIN pending : Put(u)[k] = pending[k]
          /\ Put(u)[Len(pending) + 1] = u
        BY <1>1, <2>1
    <2>3. DOMAIN Put(u) = 1..(Len(pending) + 1)
        BY <2>2, LenProperties
    <2>4. \A k \in DOMAIN Put(u) : k \in DOMAIN pending \/ k = Len(pending) + 1
        BY <1>1, <2>3
    <2>5. Len(pending) + 1 \in DOMAIN Put(u) /\ DOMAIN pending \subseteq DOMAIN Put(u)
        BY <1>1, <2>3
    <2>6. OncePerId(Put(u))
        BY <1>3, <2>2, <2>4 DEF OncePerId
    <2>7. Put(u) # <<>>
        BY <2>5
    <2> QED BY <1>3, <2>2, <2>4, <2>5, <2>6, <2>7
<1> QED BY <1>2, <1>3

\* A text that is put pending is the newest; what was underway of others stays.
LEMMA PutText ==
    ASSUME InOrder(pending, queue, latest), latest \in [Ids -> 0..MaxWrites],
           NEW u \in Update, ~u.assetOnly, u.text # 0,
           NEW lat, lat = [latest EXCEPT ![u.id] = u.text]
    PROVE  /\ InOrder(Put(u), queue, lat) /\ InPending(Put(u), u.id, u.text)
           /\ \A i, n : i # u.id /\ InPending(pending, i, n) => InPending(Put(u), i, n)
<1> DEFINE put == Put(u)
<1>1. /\ put \in Seq(Update) /\ OncePerId(put)
      /\ \A k \in DOMAIN put : put[k].id # u.id =>
            \E m \in DOMAIN pending : put[k] = pending[m]
      /\ \A k \in DOMAIN put : put[k].id = u.id =>
            put[k].assetOnly = u.assetOnly /\ put[k].text = u.text
      /\ \A m \in DOMAIN pending : pending[m].id # u.id =>
            \E k \in DOMAIN put : put[k].id = pending[m].id /\ put[k].text = pending[m].text
      /\ \E k \in DOMAIN put : put[k].id = u.id /\ put[k].text = u.text
    BY PutShape DEF InOrder, PendingIsNewest
<1> HIDE DEF put
<1>2. u.id \in Ids /\ lat[u.id] = u.text /\ \A i \in Ids : i # u.id => lat[i] = latest[i]
    BY DEF Update
<1>3. InPending(put, u.id, u.text)
    BY <1>1 DEF InPending
<1>4. \A i, n : i # u.id /\ InPending(pending, i, n) => InPending(put, i, n)
    BY <1>1 DEF InPending
<1>5. PendingIsNewest(put, lat)
    <2> SUFFICES ASSUME NEW k \in DOMAIN put
                 PROVE  /\ put[k].assetOnly <=> put[k].text = 0
                        /\ put[k].text # 0 => put[k].text = lat[put[k].id]
        BY <1>1 DEF PendingIsNewest
    <2>1. CASE put[k].id = u.id
        BY <1>1, <1>2, <2>1
    <2>2. CASE put[k].id # u.id
        <3>1. PICK m \in DOMAIN pending : put[k] = pending[m]
            BY <1>1, <2>2
        <3>2. pending[m] \in Update
            BY <3>1, SeqAt DEF InOrder, PendingIsNewest
        <3>3. pending[m].id \in Ids
            BY <3>2 DEF Update
        <3> QED BY <1>2, <2>2, <3>1, <3>3 DEF InOrder, PendingIsNewest
    <2> QED BY <2>1, <2>2
<1>6. QueueInOrder(put, queue, lat)
    <2>1. queue \in Seq(Job)
        BY DEF InOrder, QueueInOrder
    <2> SUFFICES ASSUME NEW k \in DOMAIN queue
                 PROVE  JobInOrder(put, queue, lat, k)
        BY <2>1 DEF QueueInOrder
    <2>2. JobInOrder(pending, queue, latest, k)
        BY DEF InOrder, QueueInOrder
    <2>3. queue[k].updates \in Seq(Update)
        <3>1. queue[k] \in Job
            BY <2>1, SeqAt
        <3> QED BY <3>1 DEF Job
    <2> SUFFICES ASSUME NEW m \in DOMAIN queue[k].updates,
                        queue[k].updates[m].text # 0,
                        queue[k].updates[m].text # lat[queue[k].updates[m].id]
                 PROVE  CarriedBehind(put, queue, k, queue[k].updates[m].id,
                                      lat[queue[k].updates[m].id])
        BY <2>2 DEF JobInOrder
    <2> DEFINE i == queue[k].updates[m].id
    <2>4. i \in Ids
        <3>1. queue[k].updates[m] \in Update
            BY <2>3, SeqAt
        <3> QED BY <3>1 DEF Update
    <2>5. CASE i = u.id
        BY <1>2, <1>3, <2>5 DEF CarriedBehind
    <2>6. CASE i # u.id
        <3>1. lat[i] = latest[i]
            BY <1>2, <2>4, <2>6
        <3>2. CarriedBehind(pending, queue, k, i, latest[i])
            BY <2>2, <3>1 DEF JobInOrder
        <3> QED BY <1>4, <2>6, <3>1, <3>2 DEF CarriedBehind
    <2> QED BY <2>5, <2>6
<1> QED BY <1>3, <1>4, <1>5, <1>6 DEF InOrder, put

\* An asset that is put pending hides no text.
LEMMA PutAsset ==
    ASSUME InOrder(pending, queue, latest), NEW u \in Update, u.assetOnly, u.text = 0
    PROVE  /\ InOrder(Put(u), queue, latest)
           /\ \A i, n : InPending(pending, i, n) => InPending(Put(u), i, n)
<1> DEFINE put == Put(u)
<1>1. /\ put \in Seq(Update) /\ OncePerId(put)
      /\ \A k \in DOMAIN put : put[k].id # u.id =>
            \E m \in DOMAIN pending : put[k] = pending[m]
      /\ \A k \in DOMAIN put : put[k].id = u.id =>
            \/ put[k].assetOnly = u.assetOnly /\ put[k].text = u.text
            \/ \E m \in DOMAIN pending :
                    /\ pending[m].id = u.id
                    /\ put[k].assetOnly = pending[m].assetOnly
                    /\ put[k].text = pending[m].text
      /\ \A m \in DOMAIN pending :
            \E k \in DOMAIN put : put[k].id = pending[m].id /\ put[k].text = pending[m].text
    <2>1. pending \in Seq(Update) /\ OncePerId(pending)
        BY DEF InOrder, PendingIsNewest
    <2> QED BY <2>1, PutShape
<1> HIDE DEF put
<1>2. \A i, n : InPending(pending, i, n) => InPending(put, i, n)
    BY <1>1 DEF InPending
<1>3. PendingIsNewest(put, latest)
    <2> SUFFICES ASSUME NEW k \in DOMAIN put
                 PROVE  /\ put[k].assetOnly <=> put[k].text = 0
                        /\ put[k].text # 0 => put[k].text = latest[put[k].id]
        BY <1>1 DEF PendingIsNewest
    <2>1. CASE put[k].id = u.id
        <3>1. CASE put[k].assetOnly = u.assetOnly /\ put[k].text = u.text
            BY <3>1
        <3>2. CASE \E m \in DOMAIN pending :
                        /\ pending[m].id = u.id
                        /\ put[k].assetOnly = pending[m].assetOnly
                        /\ put[k].text = pending[m].text
            BY <2>1, <3>2 DEF InOrder, PendingIsNewest
        <3> QED BY <1>1, <2>1, <3>1, <3>2
    <2>2. CASE put[k].id # u.id
        BY <1>1, <2>2 DEF InOrder, PendingIsNewest
    <2> QED BY <2>1, <2>2
<1>4. QueueInOrder(put, queue, latest)
    BY <1>2 DEF InOrder, QueueInOrder, JobInOrder, CarriedBehind
<1> QED BY <1>2, <1>3, <1>4 DEF InOrder, put

\* A flush moves what is pending to the end of the queue.
LEMMA FlushKeeps ==
    ASSUME NEW p, NEW lat, InOrder(p, queue, lat), NEW failing, OneAtATime(queue, failing),
           NEW w \in Syncs \cup {"nobody", "closer"}, FlushNow(p, w)
    PROVE  /\ InOrder(pending', queue', lat) /\ OneAtATime(queue', failing)
           /\ \A i, n : Carried(p, queue, i, n) => Carried(pending', queue', i, n)
           /\ Len(queue') \in Nat /\ Len(queue) <= Len(queue') /\ timer' = FALSE
<1>1. queue \in Seq(Job) /\ p \in Seq(Update) /\ pending' = <<>> /\ timer' = FALSE
    BY DEF InOrder, QueueInOrder, PendingIsNewest, FlushNow
<1>2. PendingIsNewest(<<>>, lat)
    BY EmptySeq DEF PendingIsNewest, OncePerId
<1>3. CASE p = <<>>
    BY <1>1, <1>2, <1>3, LenProperties DEF FlushNow, InOrder
<1>4. CASE p # <<>>
    <2> DEFINE job == Flush(p, w)
    <2>1. queue' = Append(queue, job) /\ job \in Job /\ job.updates = p
          /\ job.kind = "flush" /\ job.stage = "waiting"
        BY <1>1, <1>4 DEF FlushNow, Flush, Job
    <2> HIDE DEF job
    <2>2. /\ Len(queue) \in Nat /\ DOMAIN queue = 1..Len(queue)
          /\ queue' \in Seq(Job) /\ Len(queue') = Len(queue) + 1
          /\ DOMAIN queue' = 1..(Len(queue) + 1)
          /\ \A k \in DOMAIN queue : queue'[k] = queue[k]
          /\ queue'[Len(queue) + 1] = job
        BY <1>1, <2>1, LenProperties
    <2>3. /\ \A k \in DOMAIN queue : k \in DOMAIN queue' /\ k < Len(queue) + 1
          /\ Len(queue) + 1 \in DOMAIN queue'
          /\ \A k \in DOMAIN queue' : k \in DOMAIN queue \/ k = Len(queue) + 1
        BY <2>2
    <2>4. \A i, n : InPending(p, i, n) => InJob(queue'[Len(queue) + 1], i, n)
        BY <2>1, <2>2 DEF InPending, InJob
    <2>5. \A i, n : Carried(p, queue, i, n) => Carried(<<>>, queue', i, n)
        BY <2>2, <2>3, <2>4 DEF Carried
    <2>6. \A k \in DOMAIN queue : \A i, n :
            CarriedBehind(p, queue, k, i, n) => CarriedBehind(<<>>, queue', k, i, n)
        BY <2>2, <2>3, <2>4 DEF CarriedBehind
    <2>7. ASSUME NEW k \in DOMAIN queue' PROVE JobInOrder(<<>>, queue', lat, k)
        <3>1. CASE k \in DOMAIN queue
            <4>1. JobInOrder(p, queue, lat, k)
                BY <3>1 DEF InOrder, QueueInOrder
            <4> QED BY <2>2, <2>6, <3>1, <4>1 DEF JobInOrder
        <3>2. CASE k = Len(queue) + 1
            <4>1. queue'[k] = job
                BY <2>2, <3>2
            <4> QED BY <2>1, <4>1 DEF JobInOrder, InOrder, PendingIsNewest
        <3> QED BY <2>3, <3>1, <3>2
    <2>8. OneAtATime(queue', failing)
        <3>1. ASSUME NEW k \in DOMAIN queue'
              PROVE  queue'[k] = job \/ (k \in DOMAIN queue /\ queue'[k] = queue[k])
            <4>1. CASE k \in DOMAIN queue
                BY <2>2, <4>1
            <4>2. CASE k = Len(queue) + 1
                BY <2>2, <4>2
            <4> QED BY <2>3, <4>1, <4>2
        <3> QED BY <2>1, <3>1 DEF OneAtATime
    <2> QED BY <1>1, <1>2, <2>2, <2>5, <2>7, <2>8 DEF InOrder, QueueInOrder
<1> QED BY <1>3, <1>4

\* The oldest job leaves, and the others move up as they are.
LEMMA SettleMoves ==
    ASSUME queue \in Seq(Job), queue # <<>>, NEW failing, OneAtATime(queue, failing),
           NEW c \in BOOLEAN, NEW m \in BOOLEAN, Settle(1, c, m)
    PROVE  /\ Len(queue) \in Nat \ {0} /\ DOMAIN queue = 1..Len(queue)
           /\ queue' \in Seq(Job) /\ Len(queue') = Len(queue) - 1
           /\ DOMAIN queue' = 1..(Len(queue) - 1)
           /\ \A n \in DOMAIN queue' : n + 1 \in DOMAIN queue /\ queue'[n] = queue[n + 1]
<1> DEFINE staled == [n \in DOMAIN queue |->
                IF c /\ queue[n].stage = "read"
                THEN [queue[n] EXCEPT !.stage = "stale"] ELSE queue[n]]
           len == Len(queue)
<1>1. len \in Nat \ {0} /\ DOMAIN queue = 1..len
    BY EmptySeq, LenProperties
<1>2. queue' = SubSeq(staled, 1, 0) \o SubSeq(staled, 2, len)
    BY <1>1 DEF Settle
<1>3. \A n \in 2..len : staled[n] = queue[n] /\ queue[n] \in Job
    <2> SUFFICES ASSUME NEW n \in 2..len PROVE staled[n] = queue[n] /\ queue[n] \in Job
        OBVIOUS
    <2>1. n \in DOMAIN queue /\ n # 1
        BY <1>1
    <2>2. queue[n].stage = "waiting"
        BY <2>1 DEF OneAtATime
    <2> QED BY <2>1, <2>2, SeqAt
<1> HIDE DEF staled
<1>4. SubSeq(staled, 1, 0) = <<>>
    BY SubSeqEmpty
<1>5. /\ SubSeq(staled, 2, len) \in Seq(Job)
      /\ Len(SubSeq(staled, 2, len)) = IF 2 <= len THEN len - 2 + 1 ELSE 0
      /\ \A i \in 1..(len - 2 + 1) : SubSeq(staled, 2, len)[i] = staled[2 + i - 1]
    BY <1>1, <1>3, SubSeqProperties
<1>6. queue' = SubSeq(staled, 2, len)
    BY <1>2, <1>4, <1>5, ConcatEmptySeq
<1>7. queue' \in Seq(Job) /\ Len(queue') = len - 1
    BY <1>1, <1>5, <1>6
<1>8. DOMAIN queue' = 1..(len - 1)
    BY <1>7, LenProperties
<1>9. ASSUME NEW n \in DOMAIN queue'
      PROVE  n + 1 \in DOMAIN queue /\ queue'[n] = queue[n + 1]
    <2>1. n \in 1..(len - 2 + 1) /\ n + 1 \in 2..len /\ 2 + n - 1 = n + 1 /\ n + 1 \in 1..len
        BY <1>1, <1>8
    <2>2. queue'[n] = staled[n + 1]
        BY <1>5, <1>6, <2>1
    <2> QED BY <1>1, <1>3, <2>1, <2>2
<1> QED BY <1>1, <1>7, <1>8, <1>9

\* What it carried leaves with it, all else stays underway.
LEMMA SettleKeeps ==
    ASSUME InOrder(pending, queue, latest), queue # <<>>,
           NEW failing, OneAtATime(queue, failing),
           NEW c \in BOOLEAN, NEW m \in BOOLEAN, Settle(1, c, m)
    PROVE  /\ InOrder(pending, queue', latest) /\ OneAtATime(queue', failing)
           /\ \A i, n : Carried(pending, queue, i, n) =>
                Carried(pending, queue', i, n) \/ InJob(queue[1], i, n)
           /\ \A i, n : CarriedBehind(pending, queue, 1, i, n) =>
                Carried(pending, queue', i, n)
<1>1. /\ queue \in Seq(Job) /\ Len(queue) \in Nat \ {0} /\ DOMAIN queue = 1..Len(queue)
      /\ queue' \in Seq(Job) /\ Len(queue') = Len(queue) - 1
      /\ DOMAIN queue' = 1..(Len(queue) - 1)
      /\ \A n \in DOMAIN queue' : n + 1 \in DOMAIN queue /\ queue'[n] = queue[n + 1]
    BY SettleMoves DEF InOrder, QueueInOrder
<1>2. \A l \in DOMAIN queue : l > 1 => l - 1 \in DOMAIN queue' /\ queue'[l - 1] = queue[l]
    <2> SUFFICES ASSUME NEW l \in DOMAIN queue, l > 1
                 PROVE  l - 1 \in DOMAIN queue' /\ queue'[l - 1] = queue[l]
        OBVIOUS
    <2>1. l - 1 \in DOMAIN queue' /\ (l - 1) + 1 = l
        BY <1>1
    <2> QED BY <1>1, <2>1
<1>3. \A i, n : CarriedBehind(pending, queue, 1, i, n) => Carried(pending, queue', i, n)
    BY <1>2 DEF CarriedBehind, Carried
<1>4. \A i, n : Carried(pending, queue, i, n) =>
            Carried(pending, queue', i, n) \/ InJob(queue[1], i, n)
    <2>1. \A l \in DOMAIN queue : l = 1 \/ l > 1
        BY <1>1
    <2> QED BY <1>2, <2>1 DEF Carried
<1>5. ASSUME NEW k \in DOMAIN queue', NEW i, NEW n, CarriedBehind(pending, queue, k + 1, i, n)
      PROVE  CarriedBehind(pending, queue', k, i, n)
    <2>1. CASE InPending(pending, i, n)
        BY <2>1 DEF CarriedBehind
    <2>2. ASSUME NEW l \in DOMAIN queue, l > k + 1, InJob(queue[l], i, n)
          PROVE  CarriedBehind(pending, queue', k, i, n)
        <3>1. l > 1 /\ l - 1 > k
            BY <1>1, <2>2
        <3> QED BY <1>2, <2>2, <3>1 DEF CarriedBehind
    <2> QED BY <1>5, <2>1, <2>2 DEF CarriedBehind
<1>6. ASSUME NEW k \in DOMAIN queue' PROVE JobInOrder(pending, queue', latest, k)
    <2>1. JobInOrder(pending, queue, latest, k + 1)
        BY <1>1 DEF InOrder, QueueInOrder
    <2>2. queue'[k] = queue[k + 1]
        BY <1>1
    <2> QED BY <1>5, <2>1, <2>2 DEF JobInOrder
<1>7. OneAtATime(queue', failing)
    <2> SUFFICES ASSUME NEW k \in DOMAIN queue'
                 PROVE  queue'[k].stage = "waiting"
        BY DEF OneAtATime
    <2>1. k + 1 \in DOMAIN queue /\ k + 1 # 1 /\ queue'[k] = queue[k + 1]
        BY <1>1
    <2> QED BY <2>1 DEF OneAtATime
<1> QED BY <1>1, <1>3, <1>4, <1>6, <1>7 DEF InOrder, QueueInOrder

\* Whoever waits goes on.
LEMMA SettleTypes ==
    ASSUME TypeOK, queue # <<>>, NEW failing, OneAtATime(queue, failing),
           NEW c \in BOOLEAN, NEW m \in BOOLEAN, Settle(1, c, m)
    PROVE  /\ sync' \in [Syncs -> {"idle", "flushing", "looping", "queued", "done"}]
           /\ closing' \in {"open", "flushing", "draining", "closed"}
           /\ drain' \in 0..Len(queue')
<1>1. Len(queue) \in Nat \ {0} /\ Len(queue') = Len(queue) - 1 /\ drain \in 0..Len(queue)
    BY SettleMoves DEF TypeOK
<1>2. drain' \in {Len(queue) - 1, 0, drain - 1} /\ (drain = 0 => drain' \in {Len(queue) - 1, 0})
    BY DEF Settle
<1>3. drain' \in 0..Len(queue')
    BY <1>1, <1>2
<1>4. closing' \in {"open", "flushing", "draining", "closed"}
    BY DEF Settle, TypeOK
<1>5. sync' \in [Syncs -> {"idle", "flushing", "looping", "queued", "done"}]
    BY DEF Settle, TypeOK
<1> QED BY <1>3, <1>4, <1>5

\* A job that moves to another stage carries what it carried.
LEMMA RestageKeeps ==
    ASSUME InOrder(pending, queue, latest), queue # <<>>, NEW failing, OneAtATime(queue, failing),
           NEW to \in {"read", "reporting"},
           to = "reporting" => queue[1].kind = "sync" /\ "reader" \in failing,
           queue' = [queue EXCEPT ![1].stage = to]
    PROVE  /\ InOrder(pending, queue', latest) /\ OneAtATime(queue', failing)
           /\ \A i, n : Carried(pending, queue, i, n) => Carried(pending, queue', i, n)
           /\ Len(queue') = Len(queue)
<1>1. /\ queue \in Seq(Job) /\ Len(queue) \in Nat \ {0} /\ DOMAIN queue = 1..Len(queue)
      /\ 1 \in DOMAIN queue
    BY EmptySeq, LenProperties DEF InOrder, QueueInOrder
<1>2. DOMAIN queue' = DOMAIN queue /\ \A k \in DOMAIN queue : k # 1 => queue'[k] = queue[k]
    OBVIOUS
<1>3. queue[1] \in Job
    BY <1>1, SeqAt
<1>4. /\ queue'[1] \in Job /\ queue'[1].kind = queue[1].kind
      /\ queue'[1].updates = queue[1].updates /\ queue'[1].stage = to
    BY <1>1, <1>3 DEF Job
<1>5. queue' \in Seq(Job) /\ Len(queue') = Len(queue)
    <2>1. queue' = [queue EXCEPT ![1] = queue'[1]]
        BY <1>1, <1>2
    <2> QED BY <1>1, <1>4, <2>1, ExceptSeq
<1>6. \A k \in DOMAIN queue :
        queue'[k].kind = queue[k].kind /\ queue'[k].updates = queue[k].updates
    BY <1>2, <1>4
<1>7. \A i, n : Carried(pending, queue, i, n) => Carried(pending, queue', i, n)
    BY <1>2, <1>6 DEF Carried, InJob
<1>8. \A k \in DOMAIN queue : \A i, n :
        CarriedBehind(pending, queue, k, i, n) => CarriedBehind(pending, queue', k, i, n)
    BY <1>2, <1>6 DEF CarriedBehind, InJob
<1>9. ASSUME NEW k \in DOMAIN queue' PROVE JobInOrder(pending, queue', latest, k)
    <2>1. k \in DOMAIN queue
        BY <1>2
    <2>2. JobInOrder(pending, queue, latest, k)
        BY <2>1 DEF InOrder, QueueInOrder
    <2> QED BY <1>6, <1>8, <2>1, <2>2 DEF JobInOrder
<1>10. OneAtATime(queue', failing)
    BY <1>2, <1>4 DEF OneAtATime
<1> QED BY <1>5, <1>7, <1>9, <1>10 DEF InOrder, QueueInOrder

\* A reconciliation, or the commit of a status, joins the queue.
LEMMA ReconcileKeeps ==
    ASSUME InOrder(pending, queue, latest), NEW failing, OneAtATime(queue, failing),
           NEW job \in {Gone} \cup {Reconcile(s) : s \in Syncs}, queue' = Append(queue, job)
    PROVE  /\ InOrder(pending, queue', latest) /\ OneAtATime(queue', failing)
           /\ \A i, n : Carried(pending, queue, i, n) => Carried(pending, queue', i, n)
           /\ Len(queue) \in Nat /\ Len(queue') = Len(queue) + 1
<1>1. job \in Job /\ job.updates = <<>> /\ job.stage = "waiting"
    <2>1. <<>> \in Seq(Update)
        BY EmptySeq
    <2>2. CASE job = Gone
        BY <2>1, <2>2 DEF Gone, Job
    <2>3. ASSUME NEW s \in Syncs, job = Reconcile(s)
          PROVE  job \in Job /\ job.updates = <<>> /\ job.stage = "waiting"
        BY <2>1, <2>3 DEF Reconcile, Job
    <2> QED BY <2>2, <2>3
<1>2. /\ queue \in Seq(Job) /\ Len(queue) \in Nat /\ DOMAIN queue = 1..Len(queue)
      /\ queue' \in Seq(Job) /\ Len(queue') = Len(queue) + 1
      /\ DOMAIN queue' = 1..(Len(queue) + 1)
      /\ \A k \in DOMAIN queue : queue'[k] = queue[k]
      /\ queue'[Len(queue) + 1] = job
    BY <1>1, LenProperties DEF InOrder, QueueInOrder
<1>3. /\ \A k \in DOMAIN queue : k \in DOMAIN queue'
      /\ \A k \in DOMAIN queue' : k \in DOMAIN queue \/ k = Len(queue) + 1
    BY <1>2
<1>4. \A i, n : Carried(pending, queue, i, n) => Carried(pending, queue', i, n)
    BY <1>2, <1>3 DEF Carried
<1>5. \A k \in DOMAIN queue : \A i, n :
        CarriedBehind(pending, queue, k, i, n) => CarriedBehind(pending, queue', k, i, n)
    BY <1>2, <1>3 DEF CarriedBehind
<1>6. ASSUME NEW k \in DOMAIN queue' PROVE JobInOrder(pending, queue', latest, k)
    <2>1. CASE k \in DOMAIN queue
        BY <1>2, <1>5, <2>1 DEF InOrder, QueueInOrder, JobInOrder
    <2>2. CASE k = Len(queue) + 1
        <3>1. queue'[k].updates = <<>> /\ DOMAIN queue'[k].updates = {}
            BY <1>1, <1>2, <2>2
        <3> QED BY <3>1 DEF JobInOrder, OncePerId
    <2> QED BY <1>3, <2>1, <2>2
<1>7. OneAtATime(queue', failing)
    <2>1. ASSUME NEW k \in DOMAIN queue'
          PROVE  queue'[k] = job \/ (k \in DOMAIN queue /\ queue'[k] = queue[k])
        <3>1. CASE k \in DOMAIN queue
            BY <1>2, <3>1
        <3>2. CASE k = Len(queue) + 1
            BY <1>2, <3>2
        <3> QED BY <1>3, <3>1, <3>2
    <2> QED BY <1>1, <2>1 DEF OneAtATime
<1> QED BY <1>2, <1>4, <1>6, <1>7 DEF InOrder, QueueInOrder

--------------------------------------------------------------------------------
\* The store

\* The newest position is a number.
LEMMA RankIsNat ==
    ASSUME TypeOK PROVE Rank \in Nat
<1> DEFINE known == {i \in Ids : Saved(i)}
           places == {store[i].position : i \in known}
<1>1. \A i \in known : store[i].position \in Nat
    BY DEF Saved, TypeOK, Entry
<1>2. IsFiniteSet(known)
    BY HistoryConstants, FS_Subset
<1>3. IsFiniteSet(places)
    <2> DEFINE at == [i \in known |-> store[i].position]
    <2>1. at \in Surjection(known, places)
        BY DEF Surjection
    <2> QED BY <1>2, <2>1, FS_Surjection
<1>4. IsFiniteSet({0} \cup places)
    BY <1>3, FS_Singleton, FS_Union
<1>5. {0} \cup places \in SUBSET Nat /\ {0} \cup places # {}
    BY <1>1
<1>6. Max({0} \cup places) \in Nat
    BY <1>4, <1>5, GreatestExists
<1> QED BY <1>6 DEF Rank

\* What a message's entry is after an update of it.
Grown(i, entry) ==
    /\ entry \in Entry
    /\ Saved(i) => /\ entry.position = store[i].position
                   /\ store[i].assets \subseteq entry.assets
                   /\ store[i].text # 0 => entry.text # 0

\* An update with a text, or of an asset alone, leaves a message grown.
LEMMA MergedGrows ==
    ASSUME TypeOK, NEW u \in Update, u.assetOnly <=> u.text = 0, NEW rank \in Nat
    PROVE  /\ Grown(u.id, Merged(u, rank))
           /\ Merged(u, rank).text =
                IF u.assetOnly /\ Saved(u.id) THEN store[u.id].text ELSE u.text
<1>1. /\ u.id \in Ids /\ u.text \in 0..MaxWrites /\ u.assets \in SUBSET Assets
      /\ u.assetOnly \in BOOLEAN
    BY DEF Update
<1>2. Saved(u.id) => store[u.id] \in Entry
    BY <1>1 DEF Saved, TypeOK
<1>3. Saved(u.id) => /\ store[u.id].text \in 0..MaxWrites
                     /\ store[u.id].assets \in SUBSET Assets /\ store[u.id].position \in Nat
    BY <1>2 DEF Entry
<1>4. AssetsMerged(u) \in SUBSET Assets
      /\ (Saved(u.id) => store[u.id].assets \subseteq AssetsMerged(u))
    BY <1>1, <1>3 DEF AssetsMerged
<1> DEFINE entry == Merged(u, rank)
<1>5. /\ entry = [text |-> entry.text, assets |-> entry.assets, position |-> entry.position]
      /\ entry.text = IF u.assetOnly /\ Saved(u.id) THEN store[u.id].text ELSE u.text
      /\ entry.assets = AssetsMerged(u)
      /\ entry.position = IF Saved(u.id) THEN store[u.id].position ELSE rank
    BY DEF Merged
<1> HIDE DEF entry
<1>6. entry \in Entry
    BY <1>1, <1>3, <1>4, <1>5 DEF Entry
<1>7. Saved(u.id) /\ store[u.id].text # 0 => entry.text # 0
    BY <1>1, <1>5
<1> QED BY <1>4, <1>5, <1>6, <1>7 DEF Grown, entry

\* What a store call leaves of every message.
StoreGrows ==
    \A i \in Ids : store'[i] = store[i] \/ Grown(i, store'[i])

\* A flush's updates and only they change their messages.
LEMMA FlushedIs ==
    ASSUME TypeOK, NEW updates \in Seq(Update), OncePerId(updates),
           \A m \in DOMAIN updates : updates[m].assetOnly <=> updates[m].text = 0
    PROVE  /\ Flushed(updates) \in [Ids -> Entry \cup {NoEntry}]
           /\ \A i \in Ids : (~\E m \in DOMAIN updates : updates[m].id = i) =>
                Flushed(updates)[i] = store[i]
           /\ \A m \in DOMAIN updates :
                LET i == updates[m].id
                IN  /\ Grown(i, Flushed(updates)[i])
                    /\ Flushed(updates)[i].text =
                        IF updates[m].assetOnly /\ Saved(i) THEN store[i].text
                        ELSE updates[m].text
<1> DEFINE index(i) == {n \in DOMAIN updates : updates[n].id = i}
           new == Flushed(updates)
<1>1. /\ Len(updates) \in Nat /\ DOMAIN updates = 1..Len(updates)
      /\ \A m \in DOMAIN updates : updates[m] \in Update
    BY LenProperties, SeqAt
<1>2. \A i \in Ids : new[i] = IF index(i) = {} THEN store[i]
            ELSE Merged(updates[Max(index(i))], Ranked(updates, Max(index(i))))
    BY DEF Flushed
<1>3. ASSUME NEW m \in DOMAIN updates
      PROVE  /\ updates[m].id \in Ids
             /\ new[updates[m].id] = Merged(updates[m], Ranked(updates, m))
             /\ Ranked(updates, m) \in Nat
    <2>1. updates[m].id \in Ids
        BY <1>1 DEF Update
    <2>2. index(updates[m].id) = {m}
        BY DEF OncePerId
    <2>3. Max({m}) = m
        BY <1>1 DEF Max
    <2>4. Ranked(updates, m) \in Nat
        <3>1. IsFiniteSet(1..m)
            BY <1>1, FS_Interval
        <3>2. IsFiniteSet({n \in 1..m : ~Saved(updates[n].id)})
            BY <3>1, FS_Subset
        <3> QED BY <3>2, FS_CardinalityType, RankIsNat DEF Ranked
    <2> QED BY <1>2, <2>1, <2>2, <2>3, <2>4
<1> HIDE DEF new
<1>4. ASSUME NEW m \in DOMAIN updates
      PROVE  /\ Grown(updates[m].id, new[updates[m].id])
             /\ new[updates[m].id].text =
                    IF updates[m].assetOnly /\ Saved(updates[m].id)
                    THEN store[updates[m].id].text ELSE updates[m].text
    BY <1>1, <1>3, MergedGrows
<1>5. \A i \in Ids : (~\E m \in DOMAIN updates : updates[m].id = i) => new[i] = store[i]
    BY <1>2
<1>6. new \in [Ids -> Entry \cup {NoEntry}]
    <2>1. new = [i \in Ids |-> new[i]]
        BY DEF new, Flushed
    <2>2. ASSUME NEW i \in Ids PROVE new[i] \in Entry \cup {NoEntry}
        BY <1>4, <1>5 DEF Grown, TypeOK
    <2> QED BY <2>1, <2>2
<1> QED BY <1>4, <1>5, <1>6 DEF new

\* A batch saves the newest text of what it has seen.
LEMMA ReconciledIs ==
    ASSUME TypeOK, NEW seen \in SUBSET {i \in Ids : latest[i] # 0}
    PROVE  /\ Reconciled(seen) \in [Ids -> Entry \cup {NoEntry}]
           /\ \A i \in Ids \ seen : Reconciled(seen)[i] = store[i]
           /\ \A i \in seen : /\ Grown(i, Reconciled(seen)[i])
                              /\ Reconciled(seen)[i].text = latest[i]
<1> DEFINE u(i) == [id |-> i, text |-> latest[i], assets |-> {}, assetOnly |-> FALSE]
           rank(i) == Rank + Cardinality({k \in seen : ~Saved(k) /\ latest[k] <= latest[i]})
           new == Reconciled(seen)
<1>1. \A i \in Ids : new[i] = IF i \notin seen THEN store[i] ELSE Merged(u(i), rank(i))
    BY DEF Reconciled
<1>2. ASSUME NEW i \in seen
      PROVE  Grown(i, new[i]) /\ new[i].text = latest[i]
    <2>1. i \in Ids /\ latest[i] \in 0..MaxWrites /\ latest[i] # 0
        BY DEF TypeOK
    <2>2. u(i) \in Update /\ u(i).id = i /\ u(i).text = latest[i] /\ u(i).assetOnly = FALSE
        BY <2>1 DEF Update
    <2>3. rank(i) \in Nat
        <3>1. IsFiniteSet({k \in seen : ~Saved(k) /\ latest[k] <= latest[i]})
            BY HistoryConstants, FS_Subset
        <3> QED BY <3>1, FS_CardinalityType, RankIsNat
    <2> HIDE DEF u, rank
    <2>4. Grown(u(i).id, Merged(u(i), rank(i))) /\ Merged(u(i), rank(i)).text = u(i).text
        BY <2>1, <2>2, <2>3, MergedGrows
    <2> QED BY <1>1, <2>1, <2>2, <2>4
<1>3. \A i \in Ids \ seen : new[i] = store[i]
    BY <1>1
<1>4. new \in [Ids -> Entry \cup {NoEntry}]
    <2>1. new = [i \in Ids |-> new[i]]
        BY DEF Reconciled
    <2> HIDE DEF new
    <2>2. ASSUME NEW i \in Ids PROVE new[i] \in Entry \cup {NoEntry}
        BY <1>2, <1>3 DEF Grown, TypeOK
    <2> QED BY <2>1, <2>2
<1> QED BY <1>2, <1>3, <1>4

--------------------------------------------------------------------------------
\* The steps

\* What stays underway stays safe.
LEMMA HistoryStands ==
    ASSUME NewestIsSafe, OnlyStoreLoses, DroppedIsNeverInSync,
           UNCHANGED <<scene, store, inSync, history>>, error' = error \/ error' = TRUE,
           \A i, n : Carried(pending, queue, i, n) => Carried(pending', queue', i, n)
    PROVE  NewestIsSafe' /\ OnlyStoreLoses' /\ DroppedIsNeverInSync'
<1>1. NewestIsSafe'
    BY DEF NewestIsSafe, history, Saved
<1>2. OnlyStoreLoses' /\ DroppedIsNeverInSync'
    BY DEF OnlyStoreLoses, DroppedIsNeverInSync, history
<1> QED BY <1>1, <1>2

\* The variables apart from the pending map and the queue.
Others ==
    /\ scene \in Scenes /\ timer \in BOOLEAN
    /\ store \in [Ids -> Entry \cup {NoEntry}] /\ error \in BOOLEAN /\ inSync \in BOOLEAN
    /\ sync \in [Syncs -> {"idle", "flushing", "looping", "queued", "done"}]
    /\ closing \in {"open", "flushing", "draining", "closed"}
    /\ drain \in 0..Len(queue)
    /\ latest \in [Ids -> 0..MaxWrites]
    /\ lost \subseteq Ids /\ missing \subseteq Ids

\* The type invariant, put together again.
LEMMA TypesOf ==
    TypeOK <=> /\ Others /\ pending \in Seq(Update) /\ OncePerId(pending)
               /\ queue \in Seq(Job)
    BY DEF TypeOK, Others, OncePerId

\* Steps that leave the store alone.
LEMMA QuietStep ==
    ASSUME IInv, UNCHANGED <<scene, store, inSync, history>>, error' = error \/ error' = TRUE,
           InOrder(pending', queue', latest), OneAtATime(queue', scene.failing),
           \A i, n : Carried(pending, queue, i, n) => Carried(pending', queue', i, n),
           timer' \in BOOLEAN,
           sync' \in [Syncs -> {"idle", "flushing", "looping", "queued", "done"}],
           closing' \in {"open", "flushing", "draining", "closed"},
           drain' \in 0..Len(queue')
    PROVE  IInv'
<1>1. UNCHANGED <<scene, store, inSync, latest, lost, missing>> /\ error' \in BOOLEAN
    BY TypesOf DEF history, IInv, Others
<1>2. NewestIsSafe' /\ OnlyStoreLoses' /\ DroppedIsNeverInSync'
    BY HistoryStands DEF IInv
<1>3. InOrder(pending', queue', latest') /\ OneAtATime(queue', scene'.failing)
    BY <1>1
<1>4. Others'
    BY <1>1, TypesOf DEF Others, IInv
<1>5. TypeOK'
    BY <1>3, <1>4 DEF TypeOK, Others, InOrder, PendingIsNewest, QueueInOrder, OncePerId
<1> QED BY <1>2, <1>3, <1>5 DEF IInv

\* Those that only flush what is pending.
LEMMA FlushStep ==
    ASSUME IInv, NEW w \in Syncs \cup {"nobody", "closer"}, FlushNow(pending, w),
           UNCHANGED <<scene, store, error, inSync, history>>,
           sync' \in [Syncs -> {"idle", "flushing", "looping", "queued", "done"}],
           closing' \in {"open", "flushing", "draining", "closed"},
           drain' = drain \/ drain' = Len(queue)
    PROVE  IInv'
<1>1. InOrder(pending, queue, latest) /\ OneAtATime(queue, scene.failing)
    BY DEF IInv
<1>2. /\ InOrder(pending', queue', latest) /\ OneAtATime(queue', scene.failing)
      /\ \A i, n : Carried(pending, queue, i, n) => Carried(pending', queue', i, n)
      /\ Len(queue') \in Nat /\ Len(queue) <= Len(queue') /\ timer' = FALSE
    BY <1>1, FlushKeeps
<1>3. drain \in 0..Len(queue) /\ Len(queue) \in Nat
    BY TypesOf, LenProperties DEF IInv, Others
<1>4. drain' \in 0..Len(queue')
    BY <1>2, <1>3
<1> QED BY <1>2, <1>4, QuietStep

\* write.
LEMMA WriteKeeps ==
    ASSUME IInv, NEW i \in Ids, NEW assets \in SUBSET Assets, NEW partial \in BOOLEAN,
           Write(i, assets, partial)
    PROVE  IInv'
<1> DEFINE text == Max({latest[k] : k \in Ids}) + 1
           u == [id |-> i, text |-> text, assets |-> assets, assetOnly |-> FALSE]
           put == Put(u)
<1>1. /\ text <= MaxWrites /\ latest' = [latest EXCEPT ![i] = text] /\ lost' = lost \ {i}
      /\ UNCHANGED <<scene, store, error, inSync, sync, closing, drain, missing>>
      /\ IF partial THEN pending' = put /\ timer' = TRUE /\ UNCHANGED queue
                    ELSE FlushNow(put, "nobody")
    BY DEF Write
<1>2. TypeOK /\ Others /\ InOrder(pending, queue, latest) /\ OneAtATime(queue, scene.failing)
      /\ latest \in [Ids -> 0..MaxWrites] /\ MaxWrites \in Nat
    BY TypesOf, HistoryConstants DEF IInv, Others
<1>3. text \in Nat \ {0}
    <2> DEFINE texts == {latest[k] : k \in Ids}
    <2>1. texts \in SUBSET Nat /\ texts # {} /\ \A n \in texts : n <= MaxWrites
        BY <1>2
    <2>2. IsFiniteSet(texts)
        BY <1>2, <2>1, FS_BoundedSetOfNaturals
    <2>3. Max(texts) \in Nat
        BY <2>1, <2>2, GreatestExists
    <2> QED BY <2>3
<1> HIDE DEF text
<1>4. text \in 0..MaxWrites /\ text # 0
    BY <1>1, <1>2, <1>3
<1>5. u \in Update /\ u.id = i /\ u.text = text /\ ~u.assetOnly
    BY <1>4 DEF Update
<1> HIDE DEF u
<1>6. /\ InOrder(put, queue, latest') /\ InPending(put, i, text)
      /\ \A j, n : j # i /\ InPending(pending, j, n) => InPending(put, j, n)
    BY <1>1, <1>2, <1>4, <1>5, PutText
<1> HIDE DEF put
<1>7. /\ InOrder(pending', queue', latest') /\ OneAtATime(queue', scene.failing)
      /\ \A j, n : Carried(put, queue, j, n) => Carried(pending', queue', j, n)
      /\ Len(queue') \in Nat /\ Len(queue) <= Len(queue') /\ timer' \in BOOLEAN
    <2>1. CASE partial
        <3>1. Len(queue) \in Nat
            BY <1>2, LenProperties DEF InOrder, QueueInOrder
        <3> QED BY <1>1, <1>2, <1>6, <2>1, <3>1
    <2>2. CASE ~partial
        <3>1. FlushNow(put, "nobody")
            BY <1>1, <2>2
        <3> QED BY <1>2, <1>6, <3>1, FlushKeeps
    <2> QED BY <2>1, <2>2
<1>8. drain' \in 0..Len(queue')
    <2>1. drain \in 0..Len(queue) /\ Len(queue) \in Nat /\ drain' = drain
        BY <1>1, <1>2, LenProperties DEF Others, InOrder, QueueInOrder
    <2> QED BY <1>7, <2>1
<1>9. Others'
    <2>1. latest' \in [Ids -> 0..MaxWrites]
        BY <1>1, <1>2, <1>4
    <2> QED BY <1>1, <1>2, <1>7, <1>8, <2>1 DEF Others
<1>10. TypeOK'
    BY <1>7, <1>9 DEF TypeOK, Others, InOrder, PendingIsNewest, QueueInOrder, OncePerId
<1>11. NewestIsSafe'
    <2> SUFFICES ASSUME NEW j \in Ids, latest'[j] # 0
                 PROVE  \/ Carried(pending', queue', j, latest'[j]) \/ j \in lost'
                        \/ Saved(j)' /\ store'[j].text = latest'[j]
        BY DEF NewestIsSafe
    <2>1. CASE j = i
        <3>1. latest'[i] = text
            BY <1>1, <1>2
        <3> QED BY <1>6, <1>7, <2>1, <3>1 DEF Carried
    <2>2. CASE j # i
        <3>1. latest'[j] = latest[j]
            BY <1>1, <1>2, <2>2
        <3>2. Carried(pending, queue, j, latest[j]) => Carried(put, queue, j, latest[j])
            BY <1>6, <2>2 DEF Carried
        <3> QED BY <1>1, <1>7, <2>2, <3>1, <3>2 DEF IInv, NewestIsSafe, Saved
    <2> QED BY <2>1, <2>2
<1>12. OnlyStoreLoses' /\ DroppedIsNeverInSync'
    BY <1>1 DEF IInv, OnlyStoreLoses, DroppedIsNeverInSync
<1>13. OneAtATime(queue', scene'.failing)
    BY <1>1, <1>7
<1> QED BY <1>7, <1>10, <1>11, <1>12, <1>13 DEF IInv

\* writeAsset.
LEMMA WriteAssetKeeps ==
    ASSUME IInv, NEW i \in Ids, NEW asset \in Assets, WriteAsset(i, asset)
    PROVE  IInv'
<1> DEFINE u == [id |-> i, text |-> 0, assets |-> {asset}, assetOnly |-> TRUE]
           put == Put(u)
<1>1. u \in Update /\ u.assetOnly /\ u.text = 0
    BY HistoryConstants DEF Update
<1>2. /\ FlushNow(put, "nobody")
      /\ UNCHANGED <<scene, store, error, inSync, sync, closing, drain, history>>
    BY DEF WriteAsset
<1>3. InOrder(pending, queue, latest) /\ OneAtATime(queue, scene.failing) /\ Others
    BY TypesOf DEF IInv
<1> HIDE DEF u
<1>4. /\ InOrder(put, queue, latest)
      /\ \A j, n : InPending(pending, j, n) => InPending(put, j, n)
    BY <1>1, <1>3, PutAsset
<1> HIDE DEF put
<1>5. /\ InOrder(pending', queue', latest) /\ OneAtATime(queue', scene.failing)
      /\ \A j, n : Carried(put, queue, j, n) => Carried(pending', queue', j, n)
      /\ Len(queue') \in Nat /\ Len(queue) <= Len(queue') /\ timer' = FALSE
    BY <1>2, <1>3, <1>4, FlushKeeps
<1>6. \A j, n : Carried(pending, queue, j, n) => Carried(pending', queue', j, n)
    BY <1>4, <1>5 DEF Carried
<1>7. drain' \in 0..Len(queue')
    <2>1. drain \in 0..Len(queue) /\ Len(queue) \in Nat /\ drain' = drain
        BY <1>2, <1>3, LenProperties DEF Others, InOrder, QueueInOrder
    <2> QED BY <1>5, <2>1
<1> QED BY <1>2, <1>3, <1>5, <1>6, <1>7, QuietStep DEF Others

\* The timer, a report, a provider that is gone, a synchronize call, a round of
\* its loop, and close.
LEMMA CallsKeep ==
    ASSUME IInv,
           \/ Timer \/ Report \/ Unavailable \/ Close \/ Closed
           \/ \E s \in Syncs : Synchronize(s) \/ Loop(s)
    PROVE  IInv'
<1>1. /\ Others /\ InOrder(pending, queue, latest) /\ OneAtATime(queue, scene.failing)
      /\ queue \in Seq(Job) /\ Len(queue) \in Nat
    BY TypesOf, LenProperties DEF IInv
<1>2. CASE Timer
    BY <1>1, <1>2, FlushStep DEF Timer, Others
<1>3. CASE Report
    BY <1>1, <1>3, QuietStep DEF Report, Others
<1>4. CASE Close
    BY <1>1, <1>4, FlushStep DEF Close, Others
<1>5. CASE Closed
    BY <1>1, <1>5, QuietStep DEF Closed, Others
<1>6. ASSUME NEW s \in Syncs, Synchronize(s) PROVE IInv'
    <2>1. sync' \in [Syncs -> {"idle", "flushing", "looping", "queued", "done"}]
        BY <1>1, <1>6 DEF Synchronize, Others
    <2> QED BY <1>1, <1>6, <2>1, FlushStep DEF Synchronize, Others
<1>7. ASSUME NEW s \in Syncs, Loop(s) PROVE IInv'
    <2>1. sync' \in [Syncs -> {"idle", "flushing", "looping", "queued", "done"}]
        BY <1>1, <1>7 DEF Loop, Others
    <2>2. UNCHANGED <<scene, pending, timer, store, error, inSync, closing, drain, history>>
        BY <1>7 DEF Loop
    <2>3. CASE queue' = Append(queue, Reconcile(s))
        <3>1. /\ InOrder(pending, queue', latest) /\ OneAtATime(queue', scene.failing)
              /\ \A i, n : Carried(pending, queue, i, n) => Carried(pending, queue', i, n)
              /\ Len(queue') = Len(queue) + 1
            BY <1>1, <2>3, ReconcileKeeps
        <3>2. drain' \in 0..Len(queue')
            BY <1>1, <2>2, <3>1 DEF Others
        <3> QED BY <1>1, <2>1, <2>2, <3>1, <3>2, QuietStep DEF Others
    <2>4. CASE UNCHANGED queue
        BY <1>1, <2>1, <2>2, <2>4, QuietStep DEF Others
    <2> QED BY <1>7, <2>3, <2>4 DEF Loop
<1>8. CASE Unavailable
    <2>1. UNCHANGED <<scene, pending, timer, store, error, inSync, sync, closing, drain, history>>
        BY <1>8 DEF Unavailable
    <2>2. /\ InOrder(pending, queue', latest) /\ OneAtATime(queue', scene.failing)
          /\ \A i, n : Carried(pending, queue, i, n) => Carried(pending, queue', i, n)
          /\ Len(queue') = Len(queue) + 1
        BY <1>1, <1>8, ReconcileKeeps DEF Unavailable
    <2>3. drain' \in 0..Len(queue')
        BY <1>1, <2>1, <2>2 DEF Others
    <2> QED BY <1>1, <2>1, <2>2, <2>3, QuietStep DEF Others
<1> QED BY <1>2, <1>3, <1>4, <1>5, <1>6, <1>7, <1>8

\* A job's first step: it reads, or its reader throws.
LEMMA BeginKeeps ==
    ASSUME IInv, NEW k \in DOMAIN queue, Begin(k) \/ ReadError(k)
    PROVE  IInv'
<1>1. /\ Others /\ InOrder(pending, queue, latest) /\ OneAtATime(queue, scene.failing)
      /\ k = 1 /\ queue # <<>>
    BY TypesOf DEF IInv, Begin, ReadError, Turn
<1>2. ASSUME NEW to \in {"read", "reporting"},
             to = "reporting" => queue[1].kind = "sync" /\ "reader" \in scene.failing,
             queue' = [queue EXCEPT ![1].stage = to],
             UNCHANGED <<scene, pending, timer, store, inSync, sync, closing, drain, history>>,
             error' = error \/ error' = TRUE
      PROVE  IInv'
    <2>1. /\ InOrder(pending, queue', latest) /\ OneAtATime(queue', scene.failing)
          /\ \A i, n : Carried(pending, queue, i, n) => Carried(pending, queue', i, n)
          /\ Len(queue') = Len(queue)
        BY <1>1, <1>2, RestageKeeps
    <2>2. drain' \in 0..Len(queue')
        BY <1>1, <1>2, <2>1 DEF Others
    <2> QED BY <1>1, <1>2, <2>1, <2>2, QuietStep DEF Others
<1>3. CASE Begin(k)
    BY <1>1, <1>2, <1>3 DEF Begin
<1>4. CASE ReadError(k)
    BY <1>1, <1>2, <1>4 DEF ReadError
<1> QED BY <1>3, <1>4

\* What a job that settles leaves, whatever it did to the store.
Settled ==
    /\ InOrder(pending', queue', latest') /\ OneAtATime(queue', scene'.failing)
    /\ UNCHANGED <<scene, pending, timer, latest>>
    /\ sync' \in [Syncs -> {"idle", "flushing", "looping", "queued", "done"}]
    /\ closing' \in {"open", "flushing", "draining", "closed"}
    /\ drain' \in 0..Len(queue')
    /\ \A i, n : Carried(pending, queue, i, n) =>
            Carried(pending', queue', i, n) \/ InJob(queue[1], i, n)
    /\ \A i, n : CarriedBehind(pending, queue, 1, i, n) => Carried(pending', queue', i, n)

\* Every job that settles leaves that.
LEMMA SettleLeaves ==
    ASSUME IInv, queue # <<>>, NEW c \in BOOLEAN, NEW m \in BOOLEAN, Settle(1, c, m),
           UNCHANGED <<scene, pending, timer, latest>>
    PROVE  Settled
<1>1. TypeOK /\ InOrder(pending, queue, latest) /\ OneAtATime(queue, scene.failing)
    BY DEF IInv
<1>2. /\ InOrder(pending, queue', latest) /\ OneAtATime(queue', scene.failing)
      /\ \A i, n : Carried(pending, queue, i, n) =>
            Carried(pending, queue', i, n) \/ InJob(queue[1], i, n)
      /\ \A i, n : CarriedBehind(pending, queue, 1, i, n) => Carried(pending, queue', i, n)
    BY <1>1, SettleKeeps
<1>3. /\ sync' \in [Syncs -> {"idle", "flushing", "looping", "queued", "done"}]
      /\ closing' \in {"open", "flushing", "draining", "closed"}
      /\ drain' \in 0..Len(queue')
    BY <1>1, SettleTypes
<1> QED BY <1>2, <1>3 DEF Settled

\* The rest of a job's end.
LEMMA SettledKeeps ==
    ASSUME IInv, Settled, store' \in [Ids -> Entry \cup {NoEntry}], error' \in BOOLEAN,
           inSync' \in BOOLEAN,
           lost' \subseteq Ids, missing' \subseteq Ids,
           NewestIsSafe', OnlyStoreLoses', DroppedIsNeverInSync'
    PROVE  IInv'
<1>1. Others'
    BY TypesOf DEF IInv, Settled, Others
<1>2. TypeOK'
    BY <1>1 DEF Settled, TypeOK, Others, InOrder, PendingIsNewest, QueueInOrder, OncePerId
<1> QED BY <1>2 DEF IInv, Settled

\* The oldest job, and what a reconciliation carries.
LEMMA OldestJob ==
    ASSUME IInv, NEW k \in DOMAIN queue, Turn(k)
    PROVE  /\ k = 1 /\ queue # <<>> /\ 1 \in DOMAIN queue
           /\ queue[1] \in Job /\ queue[1].updates \in Seq(Update)
           /\ JobInOrder(pending, queue, latest, 1)
           /\ queue[1].stage # "stale"
           /\ queue[1].stage = "reporting" =>
                queue[1].kind = "sync" /\ "reader" \in scene.failing
           /\ queue[1].kind # "flush" => \A i, n : ~InJob(queue[1], i, n)
<1>1. k = 1 /\ queue # <<>> /\ queue \in Seq(Job)
    BY DEF Turn, IInv, TypeOK
<1>2. queue[1] \in Job
    BY <1>1, SeqAt
<1>3. queue[1].updates \in Seq(Update)
    BY <1>2 DEF Job
<1>4. JobInOrder(pending, queue, latest, 1)
    BY <1>1 DEF IInv, InOrder, QueueInOrder
<1>5. queue[1].kind # "flush" => \A i, n : ~InJob(queue[1], i, n)
    <2> SUFFICES ASSUME queue[1].kind # "flush" PROVE \A i, n : ~InJob(queue[1], i, n)
        OBVIOUS
    <2>1. DOMAIN queue[1].updates = {}
        BY <1>4 DEF JobInOrder
    <2> QED BY <2>1 DEF InJob
<1> QED BY <1>1, <1>2, <1>3, <1>4, <1>5 DEF IInv, OneAtATime

\* The flush commits: a newest text of it is saved now, an older one has the
\* newest behind it.
LEMMA FlushCommitsKeeps ==
    ASSUME IInv, NEW k \in DOMAIN queue, FlushCommits(k)
    PROVE  IInv' /\ StoreGrows
<1> DEFINE updates == queue[1].updates
<1>1. /\ k = 1 /\ queue # <<>> /\ updates \in Seq(Update)
      /\ JobInOrder(pending, queue, latest, 1)
    BY OldestJob DEF FlushCommits
<1>2. /\ store' = Flushed(updates) /\ error' = error /\ Settle(1, TRUE, FALSE)
      /\ UNCHANGED <<scene, pending, timer, inSync, latest, lost, missing>>
    BY <1>1 DEF FlushCommits, WarningKept, history
<1>3. Settled
    BY <1>1, <1>2, SettleLeaves
<1>4. TypeOK /\ OncePerId(updates)
      /\ \A m \in DOMAIN updates : updates[m].assetOnly <=> updates[m].text = 0
    BY <1>1 DEF IInv, JobInOrder
<1> HIDE DEF updates
<1>5. /\ store' \in [Ids -> Entry \cup {NoEntry}]
      /\ \A i \in Ids : (~\E m \in DOMAIN updates : updates[m].id = i) => store'[i] = store[i]
      /\ \A m \in DOMAIN updates :
            /\ Grown(updates[m].id, store'[updates[m].id])
            /\ store'[updates[m].id].text =
                 IF updates[m].assetOnly /\ Saved(updates[m].id) THEN store[updates[m].id].text
                 ELSE updates[m].text
    BY <1>1, <1>2, <1>4, FlushedIs
<1>6. NewestIsSafe'
    <2> SUFFICES ASSUME NEW i \in Ids, latest[i] # 0, ~Carried(pending', queue', i, latest[i]),
                        i \notin lost
                 PROVE  store'[i] # NoEntry /\ store'[i].text = latest[i]
        BY <1>2 DEF NewestIsSafe, Saved
    <2>1. InJob(queue[1], i, latest[i]) \/ (Saved(i) /\ store[i].text = latest[i])
        BY <1>3 DEF IInv, NewestIsSafe, Settled
    <2>2. ASSUME NEW m \in DOMAIN updates, updates[m].id = i
          PROVE  store'[i] # NoEntry /\ store'[i].text = latest[i]
        <3>1. store'[i] # NoEntry
            BY <1>5, <2>2, HistoryConstants DEF Grown
        <3>2. CASE updates[m].text = 0
            <4>1. ~InJob(queue[1], i, latest[i])
                BY <1>4, <2>2, <3>2 DEF InJob, OncePerId, updates
            <4> QED BY <1>4, <1>5, <2>1, <2>2, <3>1, <3>2, <4>1
        <3>3. CASE updates[m].text # 0
            <4>1. ~CarriedBehind(pending, queue, 1, i, latest[i])
                BY <1>3 DEF Settled
            <4>2. updates[m].text = latest[i]
                BY <1>1, <2>2, <3>3, <4>1 DEF JobInOrder, updates
            <4> QED BY <1>4, <1>5, <2>2, <3>1, <3>3, <4>2
        <3> QED BY <3>2, <3>3
    <2>3. CASE ~\E m \in DOMAIN updates : updates[m].id = i
        BY <1>5, <2>1, <2>3 DEF InJob, Saved, updates
    <2> QED BY <2>2, <2>3
<1>7. OnlyStoreLoses' /\ DroppedIsNeverInSync'
    BY <1>2 DEF IInv, OnlyStoreLoses, DroppedIsNeverInSync
<1>8. StoreGrows
    BY <1>5 DEF StoreGrows
<1>9. lost' \subseteq Ids /\ missing' \subseteq Ids /\ error' \in BOOLEAN /\ inSync' \in BOOLEAN
    BY <1>2, <1>4 DEF TypeOK
<1> QED BY <1>3, <1>5, <1>6, <1>7, <1>8, <1>9, SettledKeeps

\* The flush fails, which only a failing store makes it: nothing is stale.
LEMMA FlushFailsKeeps ==
    ASSUME IInv, NEW k \in DOMAIN queue, FlushFails(k)
    PROVE  IInv' /\ StoreGrows
<1> DEFINE updates == queue[1].updates
<1>1. /\ k = 1 /\ queue # <<>> /\ updates \in Seq(Update) /\ "store" \in scene.failing
      /\ JobInOrder(pending, queue, latest, 1)
    BY OldestJob DEF FlushFails
<1>2. /\ error' = TRUE /\ lost' = lost \cup Newest(updates) /\ Settle(1, FALSE, FALSE)
      /\ missing' = missing \cup {updates[n].id : n \in DOMAIN updates}
      /\ UNCHANGED <<scene, pending, timer, store, inSync, latest>>
    BY <1>1 DEF FlushFails
<1>3. Settled
    BY <1>1, <1>2, SettleLeaves
<1>4. TypeOK /\ \A m \in DOMAIN updates : updates[m].assetOnly <=> updates[m].text = 0
    BY <1>1 DEF IInv, JobInOrder
<1> HIDE DEF updates
<1>5. NewestIsSafe'
    <2> SUFFICES ASSUME NEW i \in Ids, latest[i] # 0, ~Carried(pending', queue', i, latest[i]),
                        i \notin lost'
                 PROVE  store[i] # NoEntry /\ store[i].text = latest[i]
        BY <1>2 DEF NewestIsSafe, Saved
    <2>1. ~InJob(queue[1], i, latest[i])
        BY <1>2, <1>4 DEF InJob, Newest, updates
    <2> QED BY <1>2, <1>3, <2>1 DEF IInv, NewestIsSafe, Settled, Saved
<1>6. OnlyStoreLoses' /\ DroppedIsNeverInSync'
    BY <1>1, <1>2 DEF OnlyStoreLoses, DroppedIsNeverInSync
<1>7. StoreGrows
    BY <1>2 DEF StoreGrows
<1>8. lost' \subseteq Ids /\ missing' \subseteq Ids /\ error' \in BOOLEAN /\ inSync' \in BOOLEAN
      /\ store' \in [Ids -> Entry \cup {NoEntry}]
    <2>1. \A n \in DOMAIN updates : updates[n].id \in Ids
        <3> TAKE n \in DOMAIN updates
        <3>1. updates[n] \in Update
            BY <1>1, SeqAt DEF updates
        <3> QED BY <3>1 DEF Update
    <2> QED BY <1>2, <1>4, <2>1 DEF TypeOK, Newest
<1> QED BY <1>3, <1>5, <1>6, <1>7, <1>8, SettledKeeps

\* A batch commits: what it has seen is saved, and nobody misses anything.
LEMMA BatchCommitsKeeps ==
    ASSUME IInv, NEW k \in DOMAIN queue, NEW seen \in SUBSET {i \in Ids : latest[i] # 0},
           NEW more \in BOOLEAN, BatchCommits(k, seen, more)
    PROVE  IInv' /\ StoreGrows
<1>1. /\ k = 1 /\ queue # <<>> /\ \A i, n : ~InJob(queue[1], i, n)
    BY OldestJob DEF BatchCommits
<1>2. /\ store' = Reconciled(seen) /\ error' = FALSE /\ missing' = {} /\ lost' = lost \ seen
      /\ inSync' = TRUE /\ Settle(1, TRUE, more) /\ UNCHANGED <<scene, pending, timer, latest>>
    BY <1>1 DEF BatchCommits
<1>3. Settled
    BY <1>1, <1>2, SettleLeaves
<1>4. /\ store' \in [Ids -> Entry \cup {NoEntry}]
      /\ \A i \in Ids \ seen : store'[i] = store[i]
      /\ \A i \in seen : Grown(i, store'[i]) /\ store'[i].text = latest[i]
    BY <1>2, ReconciledIs DEF IInv
<1>5. NewestIsSafe'
    <2> SUFFICES ASSUME NEW i \in Ids, latest[i] # 0, ~Carried(pending', queue', i, latest[i]),
                        i \notin lost'
                 PROVE  store'[i] # NoEntry /\ store'[i].text = latest[i]
        BY <1>2 DEF NewestIsSafe, Saved
    <2>1. CASE i \in seen
        BY <1>4, <2>1, HistoryConstants DEF Grown
    <2>2. CASE i \notin seen
        BY <1>1, <1>2, <1>3, <1>4, <2>2 DEF IInv, NewestIsSafe, Settled, Saved
    <2> QED BY <2>1, <2>2
<1>6. OnlyStoreLoses' /\ DroppedIsNeverInSync'
    BY <1>2 DEF IInv, OnlyStoreLoses, DroppedIsNeverInSync
<1>7. StoreGrows
    BY <1>4 DEF StoreGrows
<1>8. lost' \subseteq Ids /\ missing' \subseteq Ids /\ error' \in BOOLEAN /\ inSync' \in BOOLEAN
    BY <1>2 DEF IInv, TypeOK
<1> QED BY <1>3, <1>4, <1>5, <1>6, <1>7, <1>8, SettledKeeps

\* The other ends of a job that reconciles or commits a status.
LEMMA BatchEndsKeep ==
    ASSUME IInv, NEW k \in DOMAIN queue,
           StatusCommits(k) \/ BatchFails(k) \/ ReadErrorReported(k) \/ ReadErrorUnsaved(k)
    PROVE  IInv'
<1> USE DEF StatusCommits, BatchFails, ReadErrorReported, ReadErrorUnsaved
<1>1. /\ k = 1 /\ queue # <<>> /\ \A i, n : ~InJob(queue[1], i, n)
    BY OldestJob
<1>2. /\ UNCHANGED <<scene, pending, timer, store, latest, lost, missing>>
      /\ \E c \in BOOLEAN : Settle(1, c, FALSE)
    BY <1>1 DEF history
<1>3. /\ error' = error \/ error' = TRUE \/ inSync' = FALSE
      /\ inSync' = inSync \/ inSync' = FALSE
      /\ error' = error \/ error' \in BOOLEAN
    OBVIOUS
<1> HIDE DEF StatusCommits, BatchFails, ReadErrorReported, ReadErrorUnsaved
<1>4. Settled
    BY <1>1, <1>2, SettleLeaves
<1>5. NewestIsSafe' /\ OnlyStoreLoses'
    BY <1>1, <1>2, <1>4 DEF IInv, NewestIsSafe, OnlyStoreLoses, Settled, Saved
<1>6. DroppedIsNeverInSync'
    BY <1>2, <1>3 DEF IInv, DroppedIsNeverInSync
<1>7. /\ lost' \subseteq Ids /\ missing' \subseteq Ids /\ error' \in BOOLEAN
      /\ inSync' \in BOOLEAN /\ store' \in [Ids -> Entry \cup {NoEntry}]
    BY <1>2, <1>3 DEF IInv, TypeOK
<1> QED BY <1>4, <1>5, <1>6, <1>7, SettledKeeps

--------------------------------------------------------------------------------
\* The theorems

\* All of it holds at the start.
LEMMA IInvInit == Init => IInv
<1> SUFFICES ASSUME Init PROVE IInv
    OBVIOUS
<1>1. /\ pending = <<>> /\ queue = <<>> /\ DOMAIN pending = {} /\ DOMAIN queue = {}
      /\ pending \in Seq(Update) /\ queue \in Seq(Job) /\ Len(queue) = 0
    BY EmptySeq DEF Init
<1>2. InOrder(pending, queue, latest) /\ OneAtATime(queue, scene.failing)
    BY <1>1 DEF InOrder, PendingIsNewest, QueueInOrder, OncePerId, OneAtATime
<1>3. NewestIsSafe /\ OnlyStoreLoses /\ DroppedIsNeverInSync
    BY DEF Init, NewestIsSafe, OnlyStoreLoses, DroppedIsNeverInSync
<1>4. Others
    <2>1. drain \in 0..Len(queue)
        BY <1>1 DEF Init
    <2>2. latest \in [Ids -> 0..MaxWrites]
        BY HistoryConstants DEF Init
    <2>3. /\ store \in [Ids -> Entry \cup {NoEntry}]
          /\ sync \in [Syncs -> {"idle", "flushing", "looping", "queued", "done"}]
        BY DEF Init
    <2> QED BY <2>1, <2>2, <2>3 DEF Init, Others
<1>5. TypeOK
    BY <1>1, <1>4, TypesOf DEF OncePerId
<1> QED BY <1>2, <1>3, <1>5 DEF IInv

\* Every step keeps it, and what it does to the store only adds.
LEMMA IInvStep == IInv /\ [Next]_vars => IInv' /\ (StoreGrows \/ UNCHANGED store)
<1> SUFFICES ASSUME IInv, [Next]_vars PROVE IInv' /\ (StoreGrows \/ UNCHANGED store)
    OBVIOUS
<1>1. ASSUME NEW i \in Ids, NEW assets \in SUBSET Assets, NEW partial \in BOOLEAN,
             Write(i, assets, partial)
      PROVE  IInv' /\ UNCHANGED store
    BY <1>1, WriteKeeps DEF Write
<1>2. ASSUME NEW i \in Ids, NEW asset \in Assets, WriteAsset(i, asset)
      PROVE  IInv' /\ UNCHANGED store
    BY <1>2, WriteAssetKeeps DEF WriteAsset
<1>3. CASE \/ Timer \/ Report \/ Unavailable \/ Close \/ Closed
           \/ \E s \in Syncs : Synchronize(s) \/ Loop(s)
    BY <1>3, CallsKeep DEF Timer, Report, Unavailable, Close, Closed, Synchronize, Loop
<1>4. ASSUME NEW k \in DOMAIN queue, Work(k)
      PROVE  IInv' /\ (StoreGrows \/ UNCHANGED store)
    <2>1. CASE Begin(k) \/ ReadError(k)
        BY <2>1, BeginKeeps DEF Begin, ReadError
    <2>2. CASE FlushCommits(k)
        BY <2>2, FlushCommitsKeeps
    <2>3. CASE FlushFails(k)
        BY <2>3, FlushFailsKeeps
    <2>4. ASSUME NEW seen \in SUBSET {i \in Ids : latest[i] # 0}, NEW more \in BOOLEAN,
                 BatchCommits(k, seen, more)
          PROVE  IInv' /\ StoreGrows
        BY <2>4, BatchCommitsKeeps
    <2>5. CASE StatusCommits(k) \/ BatchFails(k) \/ ReadErrorReported(k) \/ ReadErrorUnsaved(k)
        BY <2>5, BatchEndsKeep
        DEF StatusCommits, BatchFails, ReadErrorReported, ReadErrorUnsaved
    <2> QED BY <1>4, <2>1, <2>2, <2>3, <2>4, <2>5 DEF Work
<1>5. CASE UNCHANGED vars
    <2>1. Others'
        BY <1>5, TypesOf DEF vars, history, IInv, Others
    <2>2. InOrder(pending', queue', latest') /\ OneAtATime(queue', scene'.failing)
        BY <1>5 DEF vars, history, IInv
    <2>3. NewestIsSafe' /\ OnlyStoreLoses' /\ DroppedIsNeverInSync'
        BY <1>5 DEF vars, history, IInv, NewestIsSafe, OnlyStoreLoses, DroppedIsNeverInSync, Saved
    <2>4. TypeOK'
        BY <2>1, <2>2 DEF TypeOK, Others, InOrder, PendingIsNewest, QueueInOrder, OncePerId
    <2> QED BY <1>5, <2>2, <2>3, <2>4 DEF IInv, vars
<1> QED BY <1>1, <1>2, <1>3, <1>4, <1>5 DEF Next

\* The pending map, the queue and the store agree on which text of a message is
\* its newest, in every reachable state.
THEOREM HistoryInvariant == Spec => []IInv
<1>1. IInv /\ [Next]_vars => IInv'
    BY IInvStep
<1> QED BY IInvInit, <1>1, PTL DEF Spec

\* Every variable stays in its range, for any messages, assets and scenes.
THEOREM TypeCorrect == Spec => []TypeOK
<1>1. IInv => TypeOK
    BY DEF IInv
<1> QED BY <1>1, HistoryInvariant, PTL

\* The store ends up with the newest text, unless a failing store lost it.
THEOREM NewestAlwaysWins == Spec => []NewestTextWins
<1>1. IInv => NewestTextWins
    BY DEF IInv, NewestTextWins, NewestIsSafe, OnlyStoreLoses, Underway, Carried, InPending, InJob
<1> QED BY <1>1, HistoryInvariant, PTL

\* A conversation that misses a dropped message is never shown as synchronized,
\* whatever fails and in whatever order: the warning stands or the saved status
\* says that it is not.
THEOREM DroppedAlwaysShows == Spec => []DroppedIsNeverInSync
<1>1. IInv => DroppedIsNeverInSync
    BY DEF IInv
<1> QED BY <1>1, HistoryInvariant, PTL

\* A saved message keeps its place, its assets and its having a text.
THEOREM EntriesAreKept == Spec => EntriesOnlyGrow
<1>1. IInv /\ [Next]_vars =>
        [\A i \in Ids : Saved(i) =>
            /\ store'[i] # NoEntry
            /\ store'[i].position = store[i].position
            /\ store[i].assets \subseteq store'[i].assets
            /\ store[i].text # 0 => store'[i].text # 0]_vars
    <2> SUFFICES ASSUME IInv, [Next]_vars, NEW i \in Ids, Saved(i)
                 PROVE  /\ store'[i] # NoEntry
                        /\ store'[i].position = store[i].position
                        /\ store[i].assets \subseteq store'[i].assets
                        /\ store[i].text # 0 => store'[i].text # 0
        OBVIOUS
    <2>1. store'[i] = store[i] \/ Grown(i, store'[i])
        BY IInvStep DEF StoreGrows
    <2> QED BY <2>1, HistoryConstants DEF Grown, Saved
<1> QED BY <1>1, HistoryInvariant, PTL DEF Spec, EntriesOnlyGrow

================================================================================
