--------------------------- MODULE HistoryCoordinator ---------------------------
(***************************************************************************)
(* The writer of one conversation's saved history                          *)
(* (apps/desktop/host/history-coordinator.ts): live messages are coalesced *)
(* in a pending map and flushed, provider history is reconciled batch by   *)
(* batch, and both go through one promise queue to the history store.      *)
(*                                                                         *)
(* A message is its id, the number of the write its text came from and the *)
(* assets attached to it; text 0 is the placeholder of an asset that       *)
(* arrived before its message.  The store and the provider's reader are    *)
(* external: the store commits a batch whole or fails, and refuses a batch *)
(* read before another commit; the reader may fail, and its batches hold   *)
(* the newest text of any messages it has seen.                            *)
(***************************************************************************)
EXTENDS Naturals, Sequences, FiniteSetsExt

CONSTANTS
    Ids,            \* message ids
    Assets,         \* assets that messages carry
    Syncs,          \* the synchronize calls of a run
    NoEntry,        \* the store has no such message
    MaxWrites,      \* bound on the calls of write
    MaxQueue,       \* bound on the queue's length when write is called
    Scenes          \* what may happen together in one run

\* A scene: the messages that are written, the synchronize calls that come, and
\* what may fail: the store's calls, the reader with a HistoryReadError, or the
\* whole provider, which the host then calls unavailable.
Scene == [ids : SUBSET Ids, syncs : SUBSET Syncs,
          failing : SUBSET {"store", "reader", "provider"}]

\* A saved message.
Entry == [text : 0..MaxWrites, assets : SUBSET Assets, position : Nat]

ASSUME HistoryConstants ==
    /\ MaxWrites \in Nat /\ MaxQueue \in Nat
    /\ IsFiniteSet(Ids) /\ Syncs \cap {"nobody", "closer"} = {}
    /\ Scenes \subseteq Scene
    /\ NoEntry \notin Entry

VARIABLES
    scene,      \* the scene of this run
    pending,    \* the pending map, in insertion order
    timer,      \* the 100 ms timer is armed
    queue,      \* the jobs on the promise queue, the oldest first
    store,      \* the saved entry of each id
    error,      \* the warning is shown
    inSync,     \* the sync status saved with the conversation is "idle"
    sync,       \* where each synchronize call stands
    closing,    \* where close() stands
    drain,      \* how many jobs close() still waits for
    latest,     \* the newest text written for each id
    lost,       \* the ids whose newest text a failed flush dropped
    missing     \* those dropped since the last reconciliation

vars == <<scene, pending, timer, queue, store, error, inSync, sync, closing, drain,
          latest, lost, missing>>
history == <<latest, lost, missing>>

Update == [id : Ids, text : 0..MaxWrites, assets : SUBSET Assets, assetOnly : BOOLEAN]

\* A job of the queue: what it does, for whom ("nobody" waits for a timer's or
\* a write's flush), the updates it took, and how far it has got: "waiting",
\* "read" (the store has been read, and nothing committed since), "stale" (read
\* before another commit) or "reporting" (a reader's failure).
Job == [kind : {"flush", "sync", "unavailable"}, waiter : Syncs \cup {"nobody", "closer"},
        updates : Seq(Update), stage : {"waiting", "read", "stale", "reporting"}]

\* Every variable stays in its range; an id is pending once.
TypeOK ==
    /\ scene \in Scenes
    /\ pending \in Seq(Update)
    /\ \A i, k \in DOMAIN pending : pending[i].id = pending[k].id => i = k
    /\ timer \in BOOLEAN
    /\ queue \in Seq(Job)
    /\ store \in [Ids -> Entry \cup {NoEntry}]
    /\ error \in BOOLEAN
    /\ inSync \in BOOLEAN
    /\ sync \in [Syncs -> {"idle", "flushing", "looping", "queued", "done"}]
    /\ closing \in {"open", "flushing", "draining", "closed"}
    /\ drain \in 0..Len(queue)
    /\ latest \in [Ids -> 0..MaxWrites]
    /\ lost \subseteq Ids /\ missing \subseteq Ids

Init ==
    /\ scene \in Scenes
    /\ pending = <<>>
    /\ timer = FALSE
    /\ queue = <<>>
    /\ store = [i \in Ids |-> NoEntry]
    /\ error = FALSE
    /\ inSync = TRUE
    /\ sync = [s \in Syncs |-> "idle"]
    /\ closing = "open"
    /\ drain = 0
    /\ latest = [i \in Ids |-> 0]
    /\ lost = {}
    /\ missing = {}

Flush(updates, waiter) ==
    [kind |-> "flush", waiter |-> waiter, updates |-> updates, stage |-> "waiting"]
Reconcile(s) == [kind |-> "sync", waiter |-> s, updates |-> <<>>, stage |-> "waiting"]
Gone == [kind |-> "unavailable", waiter |-> "nobody", updates |-> <<>>, stage |-> "waiting"]

\* An update that queues behind the one already pending for its id.
PutBehind(u) == Append(pending, u)

\* pending.set: in place if the id is pending, else at the end; its assets are
\* merged, and the update of an asset keeps a pending text.
Put(u) ==
    IF \E k \in DOMAIN pending : pending[k].id = u.id
    THEN [k \in DOMAIN pending |->
            IF pending[k].id # u.id THEN pending[k]
            ELSE IF u.assetOnly THEN [pending[k] EXCEPT !.assets = @ \cup u.assets]
            ELSE [u EXCEPT !.assets = @ \cup pending[k].assets]]
    ELSE Append(pending, u)

\* flush(): disarm the timer and queue whatever is pending, if anything.
FlushNow(updates, waiter) ==
    /\ timer' = FALSE
    /\ pending' = <<>>
    /\ queue' = IF updates = <<>> THEN queue ELSE Append(queue, Flush(updates, waiter))

\* write: a partial message waits for the timer, any other is flushed with all
\* that is pending.
Write(i, assets, partial) ==
    LET text == Max({latest[k] : k \in Ids}) + 1
        put == Put([id |-> i, text |-> text, assets |-> assets, assetOnly |-> FALSE])
    IN  /\ closing = "open" /\ i \in scene.ids /\ text <= MaxWrites /\ Len(queue) < MaxQueue
        /\ latest' = [latest EXCEPT ![i] = text]
        /\ lost' = lost \ {i}
        /\ IF partial
           THEN pending' = put /\ timer' = TRUE /\ UNCHANGED queue
           ELSE FlushNow(put, "nobody")
        /\ UNCHANGED <<scene, store, error, inSync, sync, closing, drain, missing>>

\* writeAsset: the asset joins a pending message or becomes a placeholder.
WriteAsset(i, asset) ==
    /\ closing = "open" /\ i \in scene.ids /\ Len(queue) < MaxQueue
    /\ FlushNow(Put([id |-> i, text |-> 0, assets |-> {asset}, assetOnly |-> TRUE]), "nobody")
    /\ UNCHANGED <<scene, store, error, inSync, sync, closing, drain, history>>

Timer ==
    /\ timer
    /\ FlushNow(pending, "nobody")
    /\ UNCHANGED <<scene, store, error, inSync, sync, closing, drain, history>>

\* reportStorageFailure, which the host calls for failures of its own.
Report ==
    /\ error' = TRUE
    /\ UNCHANGED <<scene, pending, timer, queue, store, inSync, sync, closing, drain, history>>

\* unavailable() queues the commit of a status; the host calls it when the
\* provider is gone.
Unavailable ==
    /\ "provider" \in scene.failing
    /\ closing = "open" /\ Len(queue) < MaxQueue
    /\ queue' = Append(queue, Gone)
    /\ UNCHANGED <<scene, pending, timer, store, error, inSync, sync, closing, drain, history>>

\* synchronize first flushes, and waits for that flush.
Synchronize(s) ==
    /\ closing = "open" /\ s \in scene.syncs /\ sync[s] = "idle"
    /\ FlushNow(pending, s)
    /\ sync' = [sync EXCEPT ![s] = IF pending = <<>> THEN "looping" ELSE "flushing"]
    /\ UNCHANGED <<scene, store, error, inSync, closing, drain, history>>

GoesOn == closing = "open"

\* Each round of the loop queues a batch of its own, unless closing.
Loop(s) ==
    /\ sync[s] = "looping"
    /\ IF GoesOn
       THEN queue' = Append(queue, Reconcile(s)) /\ sync' = [sync EXCEPT ![s] = "queued"]
       ELSE sync' = [sync EXCEPT ![s] = "done"] /\ UNCHANGED queue
    /\ UNCHANGED <<scene, pending, timer, store, error, inSync, closing, drain, history>>

\* A queue that starts a job without waiting for the one before it.
AnyTurn(k) == k \in DOMAIN queue

\* serial: a job runs when the one before it has settled.
Turn(k) == k = 1 /\ queue # <<>>

\* A job reads the store: the status, the newest entry, its own entries; a
\* reconciliation also asks the provider for a batch.
Begin(k) ==
    /\ Turn(k) /\ queue[k].stage = "waiting"
    /\ queue' = [queue EXCEPT ![k].stage = "read"]
    /\ UNCHANGED <<scene, pending, timer, store, error, inSync, sync, closing, drain, history>>

\* A batch that holds the queue until the provider has no more.
SettleWhenDone(k, committed, more) ==
    LET waiter == queue[k].waiter
    IN  IF more
        THEN queue' = [queue EXCEPT ![k].stage = "waiting"] /\ UNCHANGED <<sync, closing, drain>>
        ELSE /\ queue' = SubSeq(queue, 1, k - 1) \o SubSeq(queue, k + 1, Len(queue))
             /\ sync' = [s \in Syncs |->
                IF s # waiter THEN sync[s]
                ELSE IF queue[k].kind = "flush" THEN "looping" ELSE "done"]
             /\ closing' = IF waiter = "closer" THEN "draining" ELSE closing
             /\ drain' = IF waiter = "closer" THEN Len(queue) - 1 ELSE IF drain = 0 THEN 0 ELSE drain - 1

\* Job k leaves the queue, and other jobs' reads are stale if it committed.
\* Whoever waits for it goes on: a flush's synchronize enters its loop, and a
\* reconciliation's goes round if there is more.
Settle(k, committed, more) ==
    LET waiter == queue[k].waiter
        staled == [n \in DOMAIN queue |->
            IF committed /\ queue[n].stage = "read"
            THEN [queue[n] EXCEPT !.stage = "stale"] ELSE queue[n]]
    IN  /\ queue' = SubSeq(staled, 1, k - 1) \o SubSeq(staled, k + 1, Len(queue))
        /\ sync' = [s \in Syncs |->
            IF s # waiter THEN sync[s]
            ELSE IF queue[k].kind = "flush" \/ more THEN "looping" ELSE "done"]
        /\ closing' = IF waiter = "closer" THEN "draining" ELSE closing
        /\ drain' = IF waiter = "closer" THEN Len(queue) - 1 ELSE IF drain = 0 THEN 0 ELSE drain - 1

Saved(i) == store[i] # NoEntry
Rank == Max({0} \cup {store[i].position : i \in {i \in Ids : Saved(i)}})

\* Assets of the newer message in place of the older's.
AssetsReplaced(u) == u.assets

\* mergeAssets.
AssetsMerged(u) == u.assets \cup (IF Saved(u.id) THEN store[u.id].assets ELSE {})

\* The entry an update makes of the saved one, at position rank if it is new:
\* assets add up, and an asset alone keeps the saved text.
Merged(u, rank) ==
    [text |-> IF u.assetOnly /\ Saved(u.id) THEN store[u.id].text ELSE u.text,
     assets |-> AssetsMerged(u),
     position |-> IF Saved(u.id) THEN store[u.id].position ELSE rank]

\* ++rank: new messages are ranked in their order.
Ranked(updates, n) == Rank + Cardinality({m \in 1..n : ~Saved(updates[m].id)})

\* The store after a flush of the updates.
Flushed(updates) ==
    LET index == [i \in Ids |-> {n \in DOMAIN updates : updates[n].id = i}]
    IN  [i \in Ids |->
            IF index[i] = {} THEN store[i]
            ELSE LET n == Max(index[i]) IN Merged(updates[n], Ranked(updates, n))]

\* A success that clears the warning.
WarningCleared == FALSE

WarningKept == error

\* The flush commits.  The warning stays: "a later unrelated successful write
\* does not prove the missing message was recovered".
FlushCommits(k) ==
    /\ Turn(k) /\ queue[k].kind = "flush" /\ queue[k].stage = "read"
    /\ store' = Flushed(queue[k].updates)
    /\ error' = WarningKept
    /\ Settle(k, TRUE, FALSE)
    /\ UNCHANGED <<scene, pending, timer, inSync, history>>

\* The flush's updates whose text is the newest of its message.
Newest(updates) ==
    {i \in Ids : \E n \in DOMAIN updates :
        updates[n].id = i /\ ~updates[n].assetOnly /\ updates[n].text = latest[i]}

\* A store call fails, or refuses a stale read: the updates are gone.
FlushFails(k) ==
    /\ Turn(k) /\ queue[k].kind = "flush"
    /\ \/ queue[k].stage = "read" /\ "store" \in scene.failing
       \/ queue[k].stage = "stale"
    /\ error' = TRUE
    /\ lost' = lost \cup Newest(queue[k].updates)
    /\ missing' = missing \cup {queue[k].updates[n].id : n \in DOMAIN queue[k].updates}
    /\ Settle(k, FALSE, FALSE)
    /\ UNCHANGED <<scene, pending, timer, store, inSync, latest>>

\* A provider's batch of the messages seen: their newest text, at the position
\* they are saved at or the next free one, with the saved assets kept.
Reconciled(seen) ==
    [i \in Ids |->
        IF i \notin seen THEN store[i]
        ELSE Merged([id |-> i, text |-> latest[i], assets |-> {}, assetOnly |-> FALSE],
                    Rank + Cardinality({k \in seen : ~Saved(k) /\ latest[k] <= latest[i]}))]

\* A batch commits; the provider may have more (its checkpoint moved).
BatchCommits(k, seen, more) ==
    /\ Turn(k) /\ queue[k].kind = "sync" /\ queue[k].stage = "read"
    /\ store' = Reconciled(seen)
    /\ error' = FALSE
    /\ inSync' = TRUE
    /\ missing' = {}
    /\ lost' = lost \ seen
    /\ Settle(k, TRUE, more)
    /\ UNCHANGED <<scene, pending, timer, latest>>

\* There is no reader, or unavailable was called: only the status is committed.
StatusCommits(k) ==
    /\ Turn(k) /\ queue[k].kind \in {"sync", "unavailable"} /\ queue[k].stage = "read"
    /\ inSync' = FALSE
    /\ Settle(k, TRUE, FALSE)
    /\ UNCHANGED <<scene, pending, timer, store, error, history>>

\* The store fails, the commit conflicts, or the reader throws: only a
\* HistoryReadError is reported to the store.
BatchFails(k) ==
    /\ Turn(k) /\ queue[k].kind \in {"sync", "unavailable"}
    /\ \/ queue[k].stage = "read" /\ "store" \in scene.failing
       \/ queue[k].stage = "stale"
    /\ error' = TRUE
    /\ Settle(k, FALSE, FALSE)
    /\ UNCHANGED <<scene, pending, timer, store, inSync, history>>

ReadError(k) ==
    /\ "reader" \in scene.failing
    /\ Turn(k) /\ queue[k].kind = "sync" /\ queue[k].stage = "read"
    /\ error' = TRUE
    /\ queue' = [queue EXCEPT ![k].stage = "reporting"]
    /\ UNCHANGED <<scene, pending, timer, store, inSync, sync, closing, drain, history>>

\* The reader's failure is saved as the sync status, and the warning cleared;
\* or saving it fails.
ReadErrorReported(k) ==
    /\ Turn(k) /\ queue[k].stage = "reporting"
    /\ error' = FALSE
    /\ inSync' = FALSE
    /\ Settle(k, TRUE, FALSE)
    /\ UNCHANGED <<scene, pending, timer, store, history>>

ReadErrorUnsaved(k) ==
    /\ Turn(k) /\ queue[k].stage = "reporting" /\ "store" \in scene.failing
    /\ error' = TRUE
    /\ Settle(k, FALSE, FALSE)
    /\ UNCHANGED <<scene, pending, timer, store, inSync, history>>

\* close(): flush what is pending and wait for that flush, then for the jobs
\* queued by then.  The host writes and synchronizes nothing any more.
Close ==
    /\ closing = "open"
    /\ FlushNow(pending, "closer")
    /\ IF pending = <<>>
       THEN closing' = "draining" /\ drain' = Len(queue)
       ELSE closing' = "flushing" /\ UNCHANGED drain
    /\ UNCHANGED <<scene, store, error, inSync, sync, history>>

Closed ==
    /\ closing = "draining" /\ drain = 0
    /\ closing' = "closed"
    /\ UNCHANGED <<scene, pending, timer, queue, store, error, inSync, sync, drain, history>>

\* What happens by itself.
Work(k) ==
    \/ Begin(k) \/ FlushCommits(k) \/ FlushFails(k)
    \/ \E seen \in SUBSET {i \in Ids : latest[i] # 0}, more \in BOOLEAN :
        BatchCommits(k, seen, more)
    \/ StatusCommits(k) \/ BatchFails(k)
    \/ ReadError(k) \/ ReadErrorReported(k) \/ ReadErrorUnsaved(k)

Next ==
    \/ \E i \in Ids :
        \/ \E assets \in SUBSET Assets, partial \in BOOLEAN : Write(i, assets, partial)
        \/ \E asset \in Assets : WriteAsset(i, asset)
    \/ Timer \/ Report \/ Unavailable \/ Close \/ Closed
    \/ \E s \in Syncs : Synchronize(s) \/ Loop(s)
    \/ \E k \in DOMAIN queue : Work(k)

Spec == Init /\ [][Next]_vars

\* Timers fire, and every store call and provider read returns.  Nothing else
\* bounds a read: history-coordinator.ts gives it no deadline.
Fairness ==
    /\ WF_vars(Timer) /\ WF_vars(Closed)
    /\ WF_vars(\E k \in DOMAIN queue : Work(k))
    /\ \A s \in Syncs : WF_vars(Loop(s))
FairSpec == Spec /\ Fairness

--------------------------------------------------------------------------------

\* Write number n, of message i, is pending or in a queued flush.
Underway(i, n) ==
    \/ \E k \in DOMAIN pending : pending[k].id = i /\ pending[k].text = n
    \/ \E k \in DOMAIN queue : \E m \in DOMAIN queue[k].updates :
        queue[k].updates[m].id = i /\ queue[k].updates[m].text = n

\* Once a message's newest text is on its way no more, the store has it, unless
\* its flush failed, as only a failing store makes it: writes of one message never
\* overtake each other, and the coordinator never conflicts with itself.
NewestTextWins ==
    \A i \in Ids :
        latest[i] # 0 /\ ~Underway(i, latest[i]) /\ (i \notin lost \/ "store" \notin scene.failing) =>
            Saved(i) /\ store[i].text = latest[i]

\* "Only reconciliation can clear a failed-write warning": while a dropped
\* message has not been reconciled, the warning stands.
WarningStands == missing # {} => error

\* What does hold, whatever fails in whatever order: a conversation that misses a
\* dropped message is never shown as synchronized.  The host shows the saved
\* status when no warning stands.
DroppedIsNeverInSync == missing # {} => error \/ ~inSync

\* A saved message keeps its position and its assets, and its text never turns
\* back into a placeholder.
EntriesOnlyGrow ==
    [][\A i \in Ids : Saved(i) =>
        /\ store'[i] # NoEntry
        /\ store'[i].position = store[i].position
        /\ store[i].assets \subseteq store'[i].assets
        /\ store[i].text # 0 => store'[i].text # 0]_vars

\* close() returns, even in the middle of an endless reconciliation.
CloseReturns == (closing # "open") ~> (closing = "closed")

================================================================================
