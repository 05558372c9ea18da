--------------------------- MODULE ActionPipeline ---------------------------
(***************************************************************************)
(* A like on the asynchronous path: the request reads the video's stat,    *)
(* runs the Redis script, reads the counters back and publishes an         *)
(* ActionChangedEvent; the worker consumes the queue and writes MySQL.     *)
(* Where Redis or RabbitMQ fails the request falls back to writing MySQL   *)
(* itself.  Every call to another process is a step of its own, so         *)
(* requests, the fallback and the worker interleave as they do in the      *)
(* program.                                                                *)
(***************************************************************************)
EXTENDS ActionStore, ActionCache, Sequences, SequencesExt

CONSTANTS
    Requests,  \* the HTTP requests of a behaviour
    Author,    \* the author of the video
    Faults     \* which calls may fail: see FaultKinds

VARIABLES
    req,       \* the handler running each request
    answer,    \* the last answer each user got
    queue,     \* gcfeed.interaction.action_changed
    worker,    \* the action worker: one event at a time
    hotScore,  \* what each user added to the video's score in the hot minute
               \* buckets; the score is the sum
    notified,  \* users whose like message the author has (unique event id)
    sent,      \* history: the keys clients have sent
    newest,    \* history: the newest OccurredAt the worker wrote, by user
    disturbed, \* history: the users whose stores may have come apart
    missed,    \* history: what each user's changes failed to add to the score
    askew      \* history: the counts of base and shards are not those of MySQL

sideVars == <<hotScore, notified>>
historyVars == <<sent, newest, disturbed, missed, askew>>
pipelineVars == <<req, answer, queue, worker, sideVars, historyVars>>
vars == <<storeVars, cacheVars, pipelineVars>>

FaultKinds ==
    {"script",   \* the Redis script does not run
     "read",     \* the script ran but reading the counters fails
     "publish",  \* PublishActionChanged returns an error
     "lost",     \* it returns nil but the broker loses the message: no confirms
     "apiCrash", \* the API process dies with the request
     "syncdb",   \* the MySQL transaction of the fallback fails
     "db",       \* the MySQL transaction of the worker fails
     "lookup",   \* GetLastActionUpdateTime fails
     "workerCrash",  \* the worker dies with an unacknowledged delivery
     "unpublish",    \* the video is deleted
     "expire",       \* the shard of users who stay away reaches its 24 hours
     "evict",        \* Redis loses a base or an action hash
     "credit",       \* AddHotScore fails: nobody hears of it
     "message"}      \* GetVideoAuthorID or the message writer fails: nor of that

ASSUME PipelineAssumption == Faults \subseteq FaultKinds

hotScoreLikeWeight == 3

Event == [user : Users, active : BOOLEAN, key : Keys \cup {NoKey}, occurredAt : Nat]

Idle == [pc |-> "idle"]
Done == [pc |-> "done"]

\* The locals of setActionAsync.
Handler ==
    [pc : {"script", "base", "shards", "publish", "sync"},
     user : Users, active : BOOLEAN, key : Keys \cup {NoKey},
     initial : Nat, delta : {-1, 0, 1}, base : Counter]

Resting == [pc |-> "rest"]
Delivery == [pc : {"lookup", "apply", "ack"}, event : Event]

InFlight(r) == req[r] \notin {Idle, Done}

\* The script is behind the request, run or refused.
Past(r) == InFlight(r) /\ req[r].pc # "script"

TypeOK ==
    /\ StoreTypeOK
    /\ CacheTypeOK
    /\ req \in [Requests -> Handler \cup {Idle, Done}]
    /\ answer \in [Users -> {"none", "ok", "error"}]
    /\ queue \in Seq(Event)
    /\ worker \in Delivery \cup {Resting}
    /\ hotScore \in [Users -> Int]
    /\ notified \subseteq Users
    /\ sent \subseteq Keys
    /\ newest \in [Users -> Nat]
    /\ disturbed \subseteq Users
    /\ missed \in [Users -> Int]
    /\ askew \in BOOLEAN

Init ==
    /\ StoreInit
    /\ CacheInit
    /\ req = [r \in Requests |-> Idle]
    /\ answer = [u \in Users |-> "none"]
    /\ queue = <<>>
    /\ worker = Resting
    /\ hotScore = [u \in Users |-> 0]
    /\ notified = {}
    /\ sent = {}
    /\ newest = [u \in Users |-> 0]
    /\ disturbed = (Warm \ InitiallyLiked) \cup (InitiallyLiked \ Warm)
    /\ missed = [u \in Users |-> 0]
    /\ askew = FALSE

-----------------------------------------------------------------------------
(* The request: Service.setActionAsync and Service.setActionSync.          *)

Goto(r, pc) == req' = [req EXCEPT ![r].pc = pc]
Return(r, result) ==
    /\ req' = [req EXCEPT ![r] = Done]
    /\ answer' = [answer EXCEPT ![req[r].user] = result]

\* History: from here on the stores may differ about u.
Disturb(u) == disturbed' = disturbed \cup {u}

\* History: a request gives up what Redis has counted already.
DisturbUnfinished(r) == IF req[r].delta = 0 THEN UNCHANGED disturbed ELSE Disturb(req[r].user)

\* Mutant of Record: a cancellation adds to the score like a like.
RecordUnsigned(u, delta) ==
    /\ hotScore' = [hotScore EXCEPT ![u] = @ + (IF delta = 0 THEN 0 ELSE hotScoreLikeWeight)]
    /\ UNCHANGED missed

\* recordActionHotScore: an error of AddHotScore is thrown away.
Record(u, delta) ==
    \/ /\ hotScore' = [hotScore EXCEPT ![u] = @ + delta * hotScoreLikeWeight]
       /\ UNCHANGED missed
    \/ /\ "credit" \in Faults
       /\ missed' = [missed EXCEPT ![u] = @ + delta]
       /\ UNCHANGED hotScore

\* notifyLike: the author of a published video is told of a like, not of their
\* own, and the message's event id is unique per (video, user).  The errors of
\* GetVideoAuthorID and of the message writer are thrown away as well.
Notify(u, active, delta) ==
    \/ notified' = IF active /\ delta > 0 /\ published /\ u # Author
                     THEN notified \cup {u} ELSE notified
    \/ "message" \in Faults /\ UNCHANGED notified

\* Nothing of user u is under way, and the clock has moved since the user's row
\* was written (a millisecond, the column's precision).  Nobody makes a client
\* wait for this.
Settled(u) ==
    /\ rows[u].updatedAt < clock
    /\ \A r \in Requests : InFlight(r) => req[r].user # u
    /\ \A i \in DOMAIN queue : queue[i].user # u
    /\ worker # Resting => worker.event.user # u

\* GetVideoStat: a request on a deleted video ends here.
Start(r, u, active, key) ==
    /\ req[r] = Idle
    /\ req' = [req EXCEPT ![r] =
                 IF published
                   THEN [pc |-> "script", user |-> u, active |-> active, key |-> key,
                         initial |-> likeCount, delta |-> 0, base |-> Gone]
                   ELSE Done]
    /\ answer' = IF published THEN answer ELSE [answer EXCEPT ![u] = "error"]
    /\ sent' = sent \cup ({key} \ {NoKey})
    /\ IF Settled(u) THEN UNCHANGED disturbed ELSE Disturb(u)
    /\ UNCHANGED <<storeVars, cacheVars, queue, worker, sideVars, newest, missed, askew>>

\* The count that r read is the one in MySQL, and MySQL has caught up with Redis.
SnapshotExact(r) ==
    /\ req[r].initial = likeCount
    /\ \A s \in Requests \ {r} : ~Past(s)
    /\ queue = <<>> /\ worker = Resting

RunScript(r) ==
    /\ req[r].pc = "script"
    /\ LET q == req[r] IN
       /\ Script(q.user, q.active, q.key, q.initial)
       /\ req' = [req EXCEPT ![r].pc = "base",
                             ![r].delta = ScriptDelta(hash[q.user], q.active, q.key)]
    /\ askew' = IF base.live THEN askew ELSE ~SnapshotExact(r)
    /\ UNCHANGED <<answer, storeVars, queue, worker, sideVars, sent, newest, disturbed, missed>>

\* HGETALL of the base.
ReadBase(r) ==
    /\ req[r].pc = "base"
    /\ req' = [req EXCEPT ![r].pc = "shards", ![r].base = base]
    /\ UNCHANGED <<answer, storeVars, cacheVars, queue, worker, sideVars, historyVars>>

\* The shards on top of the base; without a base the JSON or the stat read at
\* the start.  The count is written to the JSON, and a change is published.
ReadShards(r) ==
    /\ req[r].pc = "shards"
    /\ LET q == req[r] IN
       /\ WriteJSON(IF q.base.live THEN CountOver(q.base, shards)
                    ELSE IF json.live THEN json.count ELSE q.initial)
       /\ IF q.delta = 0 THEN Return(r, "ok") ELSE Goto(r, "publish") /\ UNCHANGED answer
    /\ UNCHANGED <<storeVars, hash, base, shards, nextEpoch, lastShard,
                   queue, worker, sideVars, historyVars>>

\* The event's OccurredAt is the time of publishing, not of the script.
EventOf(q) == [user |-> q.user, active |-> q.active, key |-> q.key, occurredAt |-> clock]

Publish(r) ==
    /\ req[r].pc = "publish"
    /\ \/ queue' = Append(queue, EventOf(req[r])) /\ UNCHANGED disturbed
       \/ "lost" \in Faults /\ UNCHANGED queue /\ Disturb(req[r].user)
    /\ Record(req[r].user, req[r].delta)
    /\ Notify(req[r].user, req[r].active, req[r].delta)
    /\ Return(r, "ok")
    /\ UNCHANGED <<storeVars, cacheVars, worker, sent, newest, askew>>

\* A failed call to Redis or RabbitMQ sends the request to setActionSync.  If it
\* is the script, Redis will not know of the change.
FallBack(r) ==
    /\ \/ req[r].pc = "script" /\ "script" \in Faults /\ Disturb(req[r].user)
       \/ req[r].pc \in {"base", "shards"} /\ "read" \in Faults /\ UNCHANGED disturbed
       \/ req[r].pc = "publish" /\ "publish" \in Faults /\ UNCHANGED disturbed
    /\ Goto(r, "sync")
    /\ UNCHANGED <<answer, storeVars, cacheVars, queue, worker, sideVars,
                   sent, newest, missed, askew>>

\* setActionSync.
WriteSync(r) ==
    /\ req[r].pc = "sync"
    /\ LET q == req[r]
           delta == RowDelta(rows[q.user], q.active, q.key) IN
       /\ SetAction(q.user, q.active, q.key)
       /\ Record(q.user, delta)
       /\ Notify(q.user, q.active, delta)
    /\ Return(r, "ok")
    /\ UNCHANGED <<cacheVars, queue, worker, sent, newest, disturbed, askew>>

\* The transaction fails, or the video is deleted: an error to the client.
WriteSyncFails(r) ==
    /\ req[r].pc = "sync"
    /\ "syncdb" \in Faults \/ ~published
    /\ Return(r, "error")
    /\ DisturbUnfinished(r)
    /\ UNCHANGED <<storeVars, cacheVars, queue, worker, sideVars, sent, newest, missed, askew>>

\* The API process dies between two calls.
Abandon(r) ==
    /\ "apiCrash" \in Faults
    /\ InFlight(r)
    /\ Return(r, "error")
    /\ DisturbUnfinished(r)
    /\ UNCHANGED <<storeVars, cacheVars, queue, worker, sideVars, sent, newest, missed, askew>>

-----------------------------------------------------------------------------
(* The worker: ConsumeActionChanged around ActionWorker.HandleActionChanged *)

Deliver ==
    /\ worker = Resting
    /\ queue # <<>>
    /\ worker' = [pc |-> "lookup", event |-> Head(queue)]
    /\ queue' = Tail(queue)
    /\ UNCHANGED <<storeVars, cacheVars, req, answer, sideVars, historyVars>>

\* Mutant of Stale: no event is dropped.
StaleNever(event) == FALSE

\* Mutant of Stale: an event of the very time of the row passes.
StaleBefore(event) ==
    /\ rows[event.user] # NoRow
    /\ event.occurredAt < rows[event.user].updatedAt

\* lastUpdated is set and OccurredAt is not after it.
Stale(event) ==
    /\ rows[event.user] # NoRow
    /\ event.occurredAt <= rows[event.user].updatedAt

\* A stale event is acknowledged without a write.
Lookup ==
    /\ worker.pc = "lookup"
    /\ worker' = IF Stale(worker.event) THEN Resting ELSE [worker EXCEPT !.pc = "apply"]
    /\ UNCHANGED <<storeVars, cacheVars, req, answer, queue, sideVars, historyVars>>

\* When the lookup fails the event goes through unchecked.
LookupFails ==
    /\ worker.pc = "lookup"
    /\ "lookup" \in Faults
    /\ worker' = [worker EXCEPT !.pc = "apply"]
    /\ UNCHANGED <<storeVars, cacheVars, req, answer, queue, sideVars, historyVars>>

Apply ==
    /\ worker.pc = "apply"
    /\ LET e == worker.event IN
       /\ SetAction(e.user, e.active, e.key)
       /\ newest' = [newest EXCEPT ![e.user] = IF e.occurredAt > @ THEN e.occurredAt ELSE @]
    /\ worker' = [worker EXCEPT !.pc = "ack"]
    /\ UNCHANGED <<cacheVars, req, answer, queue, sideVars, sent, disturbed, missed, askew>>

Ack ==
    /\ worker.pc = "ack"
    /\ worker' = Resting
    /\ UNCHANGED <<storeVars, cacheVars, req, answer, queue, sideVars, historyVars>>

\* Mutant of Requeued: the failed event is rejected for good.
RequeuedNowhere(event) == {queue}

\* Deliveries already pushed to the consumer come first, so an event returns
\* at any place of the queue.
Requeued(event) == {InsertAt(queue, i, event) : i \in 1..(Len(queue) + 1)}

\* Nack(requeue) on an error, or the broker taking back the delivery of a dead
\* worker.
Requeue ==
    /\ \/ worker.pc = "apply" /\ ("db" \in Faults \/ ~published)
       \/ worker # Resting /\ "workerCrash" \in Faults
    /\ queue' \in Requeued(worker.event)
    /\ worker' = Resting
    /\ UNCHANGED <<storeVars, cacheVars, req, answer, sideVars, historyVars>>

-----------------------------------------------------------------------------
(* The environment.                                                        *)

Delete == "unpublish" \in Faults /\ Unpublish /\ UNCHANGED <<cacheVars, pipelineVars>>

TimePasses == Tick /\ UNCHANGED <<cacheVars, pipelineVars>>

KeyLost ==
    /\ \/ ExpireJSON /\ UNCHANGED <<disturbed, askew>>
       \/ /\ "expire" \in Faults /\ \E s \in Shards : ExpireShard(s)
          /\ askew' = (askew \/ base.live)
          /\ UNCHANGED disturbed
       \/ "evict" \in Faults /\ (EvictBase \/ ExpireCounters) /\ UNCHANGED <<disturbed, askew>>
       \/ /\ "evict" \in Faults
          /\ \E u \in Users :
                 /\ ExpireHash(u)
                 /\ IF hash[u].status = Active THEN Disturb(u) ELSE UNCHANGED disturbed
          /\ UNCHANGED askew
    /\ UNCHANGED <<storeVars, req, answer, queue, worker, sideVars, sent, newest, missed>>

Request(r) ==
    \/ RunScript(r) \/ ReadBase(r) \/ ReadShards(r) \/ Publish(r)
    \/ FallBack(r) \/ WriteSync(r) \/ WriteSyncFails(r)

Worker == Deliver \/ Lookup \/ LookupFails \/ Apply \/ Ack \/ Requeue

Next ==
    \/ \E r \in Requests, u \in Users, active \in BOOLEAN :
           \E key \in KeysFor(active, sent) : Start(r, u, active, key)
    \/ \E r \in Requests : Request(r) \/ Abandon(r)
    \/ Worker
    \/ Delete \/ TimePasses \/ KeyLost

Spec == Init /\ [][Next]_vars

\* Requests run on and the worker keeps consuming; the calls a fault may fail
\* are retried by redelivery and succeed some time.
FairSpec ==
    /\ Spec
    /\ \A r \in Requests : WF_vars(Request(r))
    /\ WF_vars(Deliver)
    /\ SF_vars(Lookup) /\ SF_vars(Apply) /\ SF_vars(Ack)

-----------------------------------------------------------------------------
(* Properties.                                                             *)

\* No request, event or delivery is under way.
Quiet ==
    /\ \A r \in Requests : ~InFlight(r)
    /\ queue = <<>>
    /\ worker = Resting

\* Once everything has been consumed, MySQL holds the state Redis answered
\* with, through redeliveries, failing lookups, transactions and fallbacks
\* (setActionAsync, HandleActionChanged).  A user is left out only who acted
\* again before an action of theirs was through, or of whose actions one reached
\* Redis or MySQL but not both (see Disturb).
QuiescentAgreement ==
    Quiet => \A u \in Users \ disturbed : hash[u].status = Active <=> rows[u].status = Active

\* Then base and shards also add up to the counter of video_stat, if no user is
\* left out, the base was made when MySQL had caught up with Redis, and no
\* shard has expired under it.
QuiescentCounts ==
    Quiet /\ base.live /\ ~askew /\ disturbed = {} => CountOver(base, shards) = likeCount

Bit(b) == IF b THEN 1 ELSE 0

\* Then the score has each like and cancellation that took effect exactly once,
\* but for those that AddHotScore failed for: no retry, fallback or redelivery
\* is credited twice, and nothing else is lost.
QuiescentHotScore ==
    Quiet => \A u \in Users \ disturbed :
        hotScore[u] + hotScoreLikeWeight * missed[u] =
            hotScoreLikeWeight * (Bit(hash[u].status = Active) - Bit(u \in Warm))

\* The worker applies the event it holds in this step.
Applies == worker.pc = "apply" /\ worker'.pc = "ack"

\* The worker never writes an event of a user after one that occurred later,
\* though Nack and redelivery reorder the queue.
AppliedInOrder ==
    [][Applies => worker.event.occurredAt >= newest[worker.event.user]]_vars

\* The worker is about to write an event that its row has overtaken.
Overtaken == worker.pc = "apply" /\ Stale(worker.event)

\* It comes to that in two ways only: the lookup failed, or between the lookup
\* and the write a request of the same user fell back to MySQL.
OvertakenOnlyBy ==
    [][~Overtaken /\ Overtaken' =>
          \/ LookupFails
          \/ \E r \in Requests : WriteSync(r) /\ req[r].user = worker.event.user]_vars

\* What Redis has accepted reaches MySQL, a cancellation as well as a like, unless
\* the user changes it again or is disturbed.
ActionsLand ==
    \A u \in Users :
        /\ hash[u].status = Active ~>
               (rows[u].status = Active \/ hash[u].status # Active \/ u \in disturbed)
        /\ hash[u].status = Canceled ~>
               (rows[u].status # Active \/ hash[u].status # Canceled \/ u \in disturbed)
=============================================================================
