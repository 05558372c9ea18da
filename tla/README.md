# GCFeed in TLA+

TLA+ models, TLC runs and TLAPS proofs for the API and the worker of GCFeed
(`apps/api`, Go): a short-video feed with likes, comments, follows, login
sessions, feeds and recommendation over MySQL, Redis, RabbitMQ and Milvus.
Everything below is about the code under `apps/api`; paths like
`application/interaction/service.go` are relative to `apps/api/internal`.

## 1. The system

Two kinds of process share MySQL, Redis, RabbitMQ and Milvus: the API
(`cmd/feed`, one goroutine per HTTP request, any number of instances) and the
worker (`cmd/worker`, one goroutine per queue).  `interfaces/http/router` wires
the parts: Redis and RabbitMQ are optional, and the asynchronous path of likes
exists only when both are configured.

| component | state | operations | talks to |
|---|---|---|---|
| likes, favourites: fact table (`infra/persistence/interaction`) | `interaction_action` rows with status, last idempotency key and `updated_at`; counters of `video_stat` | `SetAction` (one transaction, locks the video row), `GetLastActionUpdateTime`, `GetVideoStat` | called by the request and by the worker |
| likes, favourites: pipeline (`application/interaction`, `infra/mq`) | the queue `action_changed`, the locals of handlers and of the worker | `setActionAsync`, `setActionSync`, `HandleActionChanged` | Redis script, RabbitMQ, fact table, hot score, messages |
| likes, favourites: Redis counters (`infra/cache/feed_cache.go`) | action hash per user, base hash, 16 shard hashes, stat JSON, with TTLs of 30 d, 24 h, 24 h, 15 s | `SetActionState` (Lua), `actionStatWithPresence`, `getStats`, `SetStats` | requests and feed readers |
| comments | `comment` rows, `comment_count`, the stat JSON, the counter hash | `CreateComment`, `DeleteComment`, `ListComments` | hot score, messages, feed |
| login sessions (`application/account`, `infra/persistence/session`) | `refresh_token` rows in families | `Login`, `Refresh`, `Rotate`, `RevokeByFamily`, `Logout` | the web client's tabs |
| accounts | account row | `Register`, `UpdateProfile` | sessions |
| relations | `user_follow` rows, `user_relation_stat` | `SetFollow`, lists, inbox backfill | messages, feed inbox |
| video publication | `video` rows with idempotency key and status | `CreatePublished`, `Delete` | publication event, delete marker |
| fan-out worker | inbox and outbox sorted sets | `HandleVideoPublished`, `PreheatFeedVideo` | followers in pages |
| feeds | page cache, cards, delete markers, hot minute buckets and windows | timeline, hot, following, recommended; `assembleFeedItems` | MySQL, Redis, recommendation |
| messages | `message` rows with a unique event id | `CreateFromActorEvent`, `List`, `MarkRead` | written by likes, comments, follows |
| playback | configuration, quality reports | reads, one INSERT | video table |
| exposure | view events, one exposure row per user and video | `RecordViewEvent`, `SaveExposures` | recommendation |
| recommendation | none of its own; view events and exposures | recall in parallel with timeouts, merge, rank, page | Milvus, MySQL |
| embeddings | rows in MySQL, vectors in Milvus | lazy connection, backfill, embedding worker | publication event |
| upload | files under `./uploads` | check, save, probe, faststart | ffprobe, ffmpeg |

### What is hard here

* **Two stores and a queue.**  A like is answered from Redis and written to
  MySQL later.  Requests, a synchronous fallback and the worker write the same
  row; failed deliveries return to the queue out of order; the only protection
  is a comparison of `OccurredAt` with `updated_at`.
* **Retries.**  The idempotency key is stored in Redis and in MySQL, one key per
  row, and a retry may be served by the other store than the first attempt.
* **Sharded counters with epochs.**  A counter is a snapshot of MySQL plus
  increments in 16 hashes.  The parts expire and are evicted separately and are
  read by separate commands.
* **Steps after a commit.**  Hot score, message, counter JSON, inbox backfill
  and publication events follow the transaction, unprotected.
* **Rotation under concurrency.**  Two tabs refresh with one token; the loser
  revokes the family the winner has just extended.
* **Caches against deletion, index against threshold.**  Cards, pages, inboxes
  and delete markers have different lifetimes.
* **Cursors over lists that change.**  Five lists are paged by the last item's
  columns while rows come, go and move; recommendation pages by a score that
  changes with the time.
* **Timeouts and shared work.**  Recall routes answer late or never; one
  request's load of a page serves others, and fails for them as well.
* **Two processes set up one store.**  API and worker both create, index and load
  the Milvus collection, and embeddings are saved while neither is ready.

`PROJECT.json` lists each of these at its line under `hazards`, with the
properties that would catch it.

### What makes each part correct

* fact table: the counter is the number of active rows; it only moves by one
  like or one cancellation of one user.
* pipeline: once all is consumed MySQL and Redis agree on who likes; no event is
  written after a newer one; no accepted like or cancellation is lost; no like
  is credited or told twice.
* Redis counters: every credited change counts once across rebuilds; a wrong
  display is temporary.
* comments: the counter is the number of live comments; one comment per key;
  credit and messages once per comment; the display converges.
* sessions: one live token per family; one successor per token; reuse closes
  the family for good, and only reuse does.
* relations: follower statistics equal the rows; every request ends in spite of
  crosswise locks; a new follower finds the author's videos.
* publication and fan-out: a key makes one video; a deleted video is not shown
  once its marker is set; a follower finds what was published.
* feeds: a reader who pages sees each item once; a window is the sum of its
  minutes and expires; nobody waits for ever on another's load.
* recommendation: an answer within the time limit, no candidates lost that came
  in time, nothing shown again while its score stays, but for near ties.
* embeddings: every saved embedding reaches Milvus; both processes get ready.
* upload: the directory holds what the answers say.

## 2. Plan

Done, in this order; each step with its runs and, where listed in section 6, its
proofs:

1. `Interaction`, `ActionFacts`, `ActionStore`, `ActionCache`, `ActionPipeline`,
   `StatCounter`: likes on every path, and the counter below the granularity of 1.
2. `SessionFamilies`, `RefreshSession`; `Comments`.
3. `FollowTable`, `Publication`, `Following`: locks, statistics, upload keys, the
   paged fan-out, the index and its merge.
4. `FeedCards`, `HotWindow`, `Pages`: the caches of the feeds and all lists.
5. `Recommend`, `VectorSync`, `Uploads`.

Each invariant and action property of a passing run is now a theorem as well; the
temporal properties stay with TLC.  Left: an abstract specification of the
following feed that `Following` implements; read marks of messages; a following
feed with deleted videos (`Following` composed with `FeedCards`).

`ActionPipeline` composes `ActionStore` and `ActionCache` (EXTENDS: they share
users and keys, and the pipeline decides when each acts); `StatCounter` composes
`ActionCache` with readers; `Following` composes `FollowTable` with `Publication`
and adds the worker, the indexes and the feed that reads them.  `MCFeedCaches`
and `MCRefreshSession` join two modules that share no state in one run: a
behaviour is one of either.

## 3. Modules and the code

| module | models |
|---|---|
| `Interaction` | statuses, keys, `clampCount`: vocabulary of one (video, type) |
| `ActionFacts` | abstract: a set of likers and its size, changed one user at a time |
| `ActionStore` | `SetAction` of `infra/persistence/interaction/gorm.go`, the synchronous deployment; refines `ActionFacts` |
| `ActionCache` | `actionStateScript`, base, shards, epochs, JSON, expiry |
| `ActionPipeline` | `setActionAsync`, `setActionSync`, publisher, consumer, `HandleActionChanged` |
| `StatCounter` | counter reads shard by shard, feed readers, rebuilt bases |
| `SessionFamilies` | abstract: the current token of each family |
| `RefreshSession` | `Login`, `Refresh`, `Logout` and the `refresh_token` table; refines `SessionFamilies` |
| `Comments` | `CreateComment`, `DeleteComment`, what follows the commit, and the way of `comment_count` to the feed |
| `FollowTable` | the transaction of `SetFollow` on `user_follow` and `user_relation_stat`, with its row locks |
| `Publication` | `CreatePublished` with its unique key, and the publication event |
| `Following` | `setFollow` after its commit, `HandleVideoPublished`, the sorted sets of `feed_cache.go`, `listFollowingItems` |
| `FeedCards` | `assembleFeedItems` and its cards, `Delete` and its marker, the preheating of the fan-out worker, `UpdateProfile` |
| `HotWindow` | `AddHotScore`, `ListHotWindowPage`: the sorted sets of the minutes and their windows |
| `Pages` | the lists of timeline, hot page, comments, messages and follows; page cache, singleflight |
| `Recommend` | `Recommend` with its routes, `Merge`, `rankCandidates`; view events and exposures |
| `VectorSync` | `MilvusStore`, `LazyStore`, the embedding worker and `BackfillVectorStore` |
| `Uploads` | the upload handler |
| `ActionPipelineProofs` | theorems about `StatCounter`, `ActionStore`, `ActionPipeline` |
| `RefreshSessionProofs` | theorems about `RefreshSession`, `Uploads` |
| `FeedCachesProofs` | theorems about `FeedCards`, `HotWindow` |
| `CommentsProofs`, `FollowingProofs`, `PagesProofs`, `RecommendProofs`, `VectorSyncProofs` | theorems about the module of the name |
| `MC*` | instances for TLC |

### ActionStore

`rows[u]` is the row of user `u`: status, the last `idempotency_key`,
`updated_at`.  `SetAction` is one step because its transaction first takes the
video row FOR UPDATE (`lockPublishedVideo`), so transactions on one video are
serial.  `RowDelta` and `Saved` are the branches of the transaction: first
action, repeated key, repeated status, change.  gorm touches `updated_at` only
when the row is saved, which several findings turn on.  Another video, or
favourites instead of likes, is an independent copy.

### ActionCache

`Script` is `actionStateScript`.  A counter carries the epoch of its base:
`Missing` for data from before the field existed, `Blank` for the empty string
the script binds such shards to, other numbers for random epochs.  The script
renews the base and the touched shard for the same 24 hours, which
`ExpireShard` and `ExpireCounters` follow: only a shard that was not the last
one touched can expire under a live base.  Evictions are separate.

### ActionPipeline

| action | code |
|---|---|
| `Start` | `GetVideoStat` at the head of `setActionAsync` |
| `RunScript`, `ReadBase`, `ReadShards` | `SetActionState`: the script, the read of base and shards, the JSON |
| `Publish` | `PublishActionChanged` with hot score and `notifyLike` |
| `FallBack`, `WriteSync`, `WriteSyncFails` | a failed call, then `setActionSync` |
| `Abandon` | the API process dies |
| `Deliver`, `Lookup`, `LookupFails`, `Apply`, `Ack` | `ConsumeActionChanged` around `HandleActionChanged` |
| `Requeue` | Nack with requeue, or the broker's redelivery after a dead worker; the event returns anywhere in the queue |
| `Delete`, `TimePasses`, `KeyLost` | the author, the clock, Redis |

`Faults` names the calls that may fail in a run.  Two of them fail unnoticed:
`recordActionHotScore` and `notifyLike` throw the errors of the hot score and of
the messages away (`"credit"`, `"message"`), and so does the write of the stat
JSON in every run.  `KeyUse` says how clients use
`Idempotency-Key`: `"fresh"` (one key per operation, as the web client does
before a retry), `"retried"`, or `"optional"` (the API accepts requests without
one).

Clients act whenever they like.  Three history variables say of what there is a
promise all the same.  `disturbed` are the users whose stores may have come
apart: one who acted while an action of theirs was under way, or in the very millisecond
its row was written (`Settled`), one of
whose changes Redis has what MySQL will never get, or the other way round (a
failed script, a lost publish, a failed fallback, a dead process, an evicted
hash), and one whose hash did not match the row to begin with.  All others are
in the properties, whatever happens to these.  `missed` counts per user what
`AddHotScore` failed to add.  `askew` says that the counter hash was made from a
count MySQL and Redis did not agree on, or that a shard expired under it.

Simplifications: the shards are read in one step here (`StatCounter` reads them
one by one); hot score and message share the step of the publish or of the
write they follow; there is one worker with one event at a time, as the
consumer loop has; the API's and the database's clocks are one clock with the
column's millisecond as its tick.

### StatCounter

Writers run the script and read back; feed readers miss the JSON, read base and
shards one by one, or fall back to the JSON and to MySQL, and store the JSON.
The worker is reduced to applying the published deltas in order.  `owed` is a
history variable: the snapshot the base was made from plus every delta credited
since.

### RefreshSession

One step per database call of `Refresh`: find the token, rotate by
compare-and-swap, load the user and sign, or revoke the family.  A call may end
between any two steps.  `wiped`, `presented`, `reshown` and `parent` are history
variables.  Only tokens a client was given are shown, by anyone who holds them.

### Comments

One step per database call of `CreateComment` and `DeleteComment`, then hot
score, counter JSON and message, in the code's order.  The first ignores a failed
`AddHotScore`, the second a failed write to Redis, the third a failing
`GetVideoAuthorID` or message write: each step succeeds or not, and the request
goes on to its end.  A request may also fail or die between any two steps
(`Abort`).  Two histories keep the account: `missed` has the credits that failed
or were never tried, `untold` the comments whose message was not written; so
`QuietHotScore` and `QuietTold` speak of all runs.  A like is reduced to what it does to
`comment_count`: it may set up the counter hash.  Replies do not exist in this
code; the comment's text is abstracted away.

### FollowTable

`SetFollow` locks the account of the follower and then that of the target, and
`LockUser` and `LockTarget` are these two steps.  With both locks held no other
transaction is at the rows of these two users, so the rest is one step, `Write`.
Two users who follow each other lock crosswise; `Victim` is InnoDB's rollback of
one of them.  `RollBack` is any other end of the transaction: a failing
statement, a dying process, a deadlock on the gap of a row that does not exist
yet.  `Repeated` is the key test of `gorm.go:87`: the row keeps one key, and a
request that repeats it changes nothing, whichever of follow and unfollow it is.

### Publication

A request is named by the number of the video it would make, and the numbers
order the videos by `published_at`.  API instances have clocks of their own, so
requests may take their steps in any order of these numbers.  `PublishEvent` may
not happen (`UploadEnds`): the code ignores its error.

### Following

| action | code |
|---|---|
| `Begin`, `LockUser`, `LockTarget`, `Victim`, `RollBack` | `NewFollow`, the locks of `SetFollow` |
| `Commit` | the rest of the transaction, and `active && follow.Active()` |
| `CountForBackfill`, `ListVideos`, `PushBackfill` | `backfillFollowFeed`, a step per call |
| `Notify`, `BackfillFails` | `notifyFollow`; an error after the commit |
| `Create`, `Find`, `Save`, `Load`, `PublishEvent`, `UploadEnds` | `CreatePublished` |
| `Deliver`, `CountForFanout`, `PushOutbox`, `ListFollowers`, `PushInboxes` | the consumer loop around `HandleVideoPublished`, a step per call |
| `Requeue` | a call fails, the pipeline after any part of its page; Nack with requeue |
| `Expire` | the 30 days of a sorted set |

The feed is the operators `Streams`, `HasIndex`, `Merged` and `Shown` over the
state.  A member of a sorted set is a video with the text of its `published_at`:
an event holds the nanoseconds of the API's clock, a row the milliseconds of the
column, so one video may be two members.  Simplifications: each video has a
second of its own (scores count seconds and the id; rounding to milliseconds
may also move a video into the next second, which is not modelled); a feed
request reads at one moment; a message that fails is ignored, as in the code,
and shares the step of the answer.  The cards the worker preheats are in
`FeedCards`; their failure is a `Requeue` here.  Videos are not deleted in this
module.

### FeedCards

A request of `req` goes through `assembleFeedItems` call by call: `Filter` (take
out the ids with a delete marker; an error leaves all in), `GetCards`,
`BatchGetFeedCards` (what MySQL has of the missing ones), `SetCards` or `Fails`,
`Answer`.  A job of the fan-out worker is `Preheat`, `PreheatRead`,
`PreheatStore`.  `Delete` is `Find`, `UpdateStatus`, `MarkVideoDeleted`, or
`MarkPartly` when only SADD got through, or its end without a marker; a second
deletion finds the video deleted and writes no marker either.  All times are
relative and count ticks.  A copy of a card is known by how long ago MySQL
ceased to hold what it says, which is all the properties ask of it.

### HotWindow

`Increase` and `ExpireBucket` are ZINCRBY and EXPIRE, each in a step of its own
and each of which may fail; the window is `Ask` (is there one), `Union`
(ZUNIONSTORE), `Trim` (drop what is not positive, set the expiry), `ReadPage`.
`now` counts minutes; `ever` is a history of what was credited to each minute.

### Pages

`kind` is the list that is read.  Each list has its own WHERE clause as in its
repository, the rest is shared as the services share it: read one row more than
the page holds, cut, name the last item as the cursor.  Rows `Appear` at any
place of the order (clocks differ, transactions commit in any order), `Vanish`
and `Move`.  Timeline pages go through cache and singleflight: `Hit`, `Join`,
`Recheck`, `Query`, `Store`, `Deliver`.  A process may `Crash`, the leader's
client may leave (`LoadFails`).

### Recommend

The routes run as goroutines: `Send`, `RouteFails`, with `Tick` of 500 ms for all
timers and the channel as the set of those that have sent.  `EndWait` is the
select on the done channel and the timer, `Receive` and `GiveUp` the loop that
takes one result for each route.  `Merges` are the pools `Merge` may return: it
walks a Go map of sources, so the order of the other sources is open.  Scores
are integers in the proportions of `rankScore`.  `Page` sorts them as they are,
`Behind` takes those that differ by less than `Tolerance` for the same
(`sameScore`, 1e-9 in the code), and the two disagree about near ties: a video
below another by less than the tolerance, but newer, comes after it on a page
and has it `Behind`, so the next page may show the other one again.  Such a page
`Climbs`; the history in `reading` says below which score a shown video may come
back.  The windows of 7 days of exposures, 30 days of events
and 72 hours of hot videos are left out, and so is the interleaving by author,
which reorders a page and adds nothing to it.

### VectorSync

`store[p]` says where the LazyStore of a process is in connecting and in
`EnsureReady`, one call of Milvus a step; `collection` is what Milvus has.
`LoadCollection` also sets the store and runs the callbacks, one step as nothing
else of the process can come between that matters: `OnReady` runs its callback
at once when the store is there.  `lost` is a history of the videos that Milvus
failed to take since the worker started.

### Uploads

One step per call of the handler.  `disk` and `temp` are what is under the name
of an upload and in its temporary file.  Names are unique (nanoseconds and 48
random bits); removing a file one has just written does not fail.

## 4. Runs

`tlc -config X.cfg M` with the module `PROJECT.json` names.  Passing runs:

| run | instance | shows |
|---|---|---|
| `pipeline_settled` | 2 users (one has liked), 2 requests, 1 key or none, a shard each, clock to 2; failing publishes, lookups, transactions, fallbacks and hot-score writes, expiring shards, dying workers; fair | after all is consumed MySQL, Redis, both counters and the hot score agree about every user who is not `disturbed`, save for credits that failed; every like and cancellation of theirs that Redis accepted reaches MySQL |
| `pipeline_faults` | 1 user, 2 interchangeable requests, 4 keys to choose from, interchangeable where they serve the same, each used once, every fault but `lookup` and `credit` | rows and counter implement `ActionFacts`; no older event is written after a newer one |
| `counter_rebuild` | 2 writers on 2 shards, 1 feed reader, 1 eviction of the base; fair | every credited change is counted once, whatever was read across the rebuild; a wrong JSON does not stay |
| `session_reuse` | 2 families, 4 tokens, 3 calls, any of which may stop anywhere; or 2 uploads of 22 files at and over each limit, any call failing, crashes | one live token per family, one successor per token, reuse closes the family and only reuse does, implements `SessionFamilies`; the upload directory holds what the answers say |
| `comments` | author, commenter and admin, 1 key, 3 comments; 3 requests (two of anybody, the third the commenter's with the key or the admin's), any call of which may fail, or 2 of the author with 1 liker and 1 feed reader; fair | counter = live comments, one comment per key, credit and messages once or counted as failed; without a counter hash a wrong count in the JSON is corrected |
| `following_served` | an author with one follower, a second user with 2 requests, 1 key or none; 2 videos, pages of 1, inboxes of 2, one inbox may expire | every follower finds every video whose event is consumed; statistics, one video per key, only follows that took effect fill inboxes and send messages |
| `following_live` | the same users, who may follow each other, threshold 2, 2 videos, the outbox may expire; fair | requests end in spite of crosswise locks; a video reaches its followers, by inbox or by outbox; a page that ends the feed has come to its end |
| `feed_caches` | 2 videos, 2 requests or jobs of the worker, 1 deletion, cards live 1 tick, markers 2, a request takes up to 1; or 2 hot videos, 2 credits of -1 or 2, 2 clients, pages of 1, windows of 2 minutes that live 1, buckets that live 3, clock to 3 | a video is hidden from every request that begins after its marker was set; nothing is shown that MySQL gave up longer ago than a card and two requests last; windows are exact sums and expire |
| `list_pages` | each of the 5 lists, 3 rows, 2 instants, 2 scores, pages of 1, 2 clients of one process, 1 change; fair | what keeps its place is listed exactly once; a load's waiters are released |
| `recommend` | 3 videos, of which each route finds another first, pool of 2 with 1 place for the followed, pages of 1, 1 change, 1 minute, scores of 940 and 950 with a tolerance of 15, 1 page that climbs | the wait is bounded, no candidates in time are lost, no page repeats but in a near tie |
| `vector_sync` | 2 videos, pages of 1, 2 failures, 2 crashes, any state of the collection; fair | every saved embedding is in Milvus or on its way; both processes get ready |

Why the bounds are enough.  An order of events needs two of them, an older one
and a newer one, and redelivery takes either to any place in the queue; the clock
bounds how many distinct times there are, and three ticks separate "before",
"between" and "after".  Two do for `pipeline_settled`: rows are older than the
first, and the actions of a user who is not disturbed do not overlap.  Videos and
types are independent copies, and users meet only in the counter: two users show
sums, one shows orders.  Shards meet only in the base: two shards are one that
was rebuilt, or expired, and one that was not.  A race of two refreshes takes two calls and a third that presents the successor;
a family of four tokens has a token that is current, one just replaced and one
replaced long ago.  Uploads meet only in the death of their process.  The comment
runs have as many requests as the longest race has parties: create, retry,
delete.  In the following runs one follower is there
from the start and one comes or goes at any moment of a publication, on either
side of the cursor of a fan-out whose pages hold one user; two videos give an
order of members, and inboxes of two the trimming of them.  A threshold of 3
keeps the author small in `following_served`, one of 2 lets it be crossed at any
moment in `following_live`; `FollowersServed` holds with 1 and 2 as well.

In `feed_caches` one request stores a card while another reads it; the second
video shares its page.  What matters is the order of the three times, and
`CardTTL + MaxRun = MarkerTTL` is the worst that `FeedCardsAssumption` allows (15
minutes and 15 minutes against 30).  Two clients build and read one window, or
two that overlap in a minute; a bucket of 3 minutes expires one minute after the
windows of 2 it is in.  Three rows read one by one are one behind, one at and one
ahead of a cursor, with a tie among any two; the two clients are the leader of a
load and one that waits.  A recommendation has a result that comes, one that
comes late and one that never comes.  Two failures and two crashes interrupt
either process, or one of them twice.  The tolerance of 15 makes a near tie of
one pair of videos and is less than a score loses in a minute (20); one page that
climbs repeats a video, and a second would do it again.  The proofs of section 6 drop the bounds
for the properties they cover.

Types are checked by the runs of the two modules with the richest states
(`ActionPipeline`, `Following`) and proved for all that have theorems.

Violation run:

| run | what happens |
|---|---|
| `similarity` | a user with an interest vector: candidates of the hot and the following route are ranked with similarity 0 although they have an embedding, as cosines are computed only if recall found no user vector; comment and documentation say they are computed |

`PROJECT.json` quotes the lines under `findings`.

More of what the models show and no run keeps, with the change of a constant
that shows it:

* A user likes and cancels before the worker catches up; the first event stamps
  `updated_at` with the time it was processed, the second is older than that and
  is dropped: MySQL keeps the like (`pipeline_settled` without faults,
  `QuiescentAgreement` of all `Users`; worker.go:51).  The same happens to events published in
  the order opposite to that of their scripts.
* The action hash has expired (30 days), was evicted or never written, and the
  user cancels an old like: the script computes delta 0, nothing is published,
  the row stays active (feed_cache.go:63).
* Shards from before epochs existed are meant to match the empty epoch of an old
  base, and are zeroed instead (`counter_rebuild` with `Legacy = TRUE`;
  feed_cache.go:97).
* A video was fanned out to a follower, who follows the author once more: the
  backfill adds it under a second member; merging drops the double after the
  page was cut, the page is one short, and `hasMore` is false although the feed
  goes on (`following_live` with `Asks` of a follow again; feed_cache.go:777).
* A hot window that is rebuilt while a client pages through it, because it
  expired or another request rebuilt it, has other offsets: pages overlap or skip.
* A route that uses fewer places than its quota leaves them to others, and the
  quota of the following route is a cap as well: with 60 followed candidates and
  no others the pool has the quota's number (recaller.go:91).
* Marking all messages read marks those that arrived since the client's list was
  read.
* The queue of view events has no consumer: `RecordViewEvent` writes event and
  exposure in the request (docs/interview-qa-deep.md:115 describes a worker).
* A request with a reused key, or with none, may leave `updated_at` as it was,
  and a redelivered older event then passes the check (`pipeline_faults` with
  `KeyUse = "optional"` and three requests, `AppliedInOrder`).
* A failed lookup lets its event through unchecked (`"lookup"` added to `Faults`
  there).
* A shard that expires under a base other shards keep renewing takes its
  increments with it (`pipeline_settled`, `QuiescentCounts` without `~askew`).
* A base rebuilt from `video_stat` while events are queued misses them until the
  next rebuild.
* A synchronous fallback may commit between the worker's lookup and its write,
  and the older event overwrites it (`Faults = {"publish"}`, `~Overtaken` as an
  invariant).
* When publish and fallback both fail after the script ran, Redis is ahead, and
  the retry with the same key is answered from Redis and never reaches MySQL
  (`Faults = {"publish", "syncdb"}`, `KeyUse = "retried"`, `QuiescentAgreement` of
  all `Users`).
* The counter hash keeps the `comment_count` it was set up with; when the JSON of
  15 seconds expires the feed shows the old number, as long as likes renew the
  hash (`JSONConverges` of `Comments` without its condition on the base).
* A lost publish is an error nobody sees when the process dies before it can
  fall back: MySQL never learns of the like (`Faults = {"apiCrash"}`,
  `QuiescentAgreement` of all `Users`).
* An event of a deleted video fails each time and is requeued for ever; the
  worker spins on it (`Apply` with `"unpublish"`).
* A hot score or message that fails to be written is lost, and the request is a
  success; one that dies after the commit of a comment leaves both undone, and a
  retry with the key does not make up for them.
* Two recommended videos whose scores differ by less than 1e-9, the older one
  above: with the newer one last on a page, the next page shows the older one
  again, and pages of one alternate between the two (`recommend` with the right
  side of `OnlyNew` `Score(v) < reading.shown[v]`; service.go:448, 505).
* The following index hides MySQL: once an inbox has one member, videos that are
  in no sorted set are not shown.  These are the videos from before their author
  crossed the threshold, for a later follower, those of an expired set, and
  those whose publication event was lost, which a retry with the key does not
  send again.  `Due` excludes just these.
* An author who is no longer followed stays in the inbox; doubled members push
  others out of a full one (`Found` counts them).
* A late retry of a follow, with another key used in between, follows again:
  the row knows its last key only.

## 5. Fairness

Safety runs assume none.  The `FairSpec` of a module assumes:

* weak fairness of each step of a request that has begun: a goroutine runs on,
  and each call it makes returns or times out.  No request need begin.
* `ActionPipeline`: weak fairness of `Deliver`.  The consumer loop takes the
  next event while its channel is open; the loop ends when the channel closes,
  so this assumes that the broker stays connected or the process is restarted.
* `ActionPipeline`: strong fairness of `Lookup`, `Apply` and `Ack`.  A failed
  attempt is requeued and tried again; an outage of MySQL or a dying worker may
  interrupt it any number of times but not for ever.
* `Following`: weak fairness of the worker, and that its failures cease some time.
  A failed fan-out starts over at the first page, so it would not be enough that
  each call succeeds now and then: TLC finds a fan-out that always fails at its
  second page.  Requests are weakly fair; each waits for a lock once or twice,
  the lock of a finished transaction is free, and InnoDB breaks a cycle.
* `StatCounter`, `Comments`: the stat JSON expires, as its 15 seconds are set
  anew only by a writer.  In `Comments` two feed readers can hand a stale count
  to each other by reading the JSON as a fallback and storing it again, so
  `Lapse` is strongly fair in moments when no reader is about to store.  A
  request takes milliseconds, the JSON lives for 15 seconds.
* `Pages`: a load that leads goes on to its end; clients need not ask.
* `VectorSync`: the goroutine of each store runs on.  Failures and crashes are
  bounded by the instance, which says that they cease.

Not assumed: expiry of the counter hash (each like renews it), the success of a
publish, the end of a client's retries.

## 6. Proofs

All checked by `tlapm`, for every value of the constants that meets the
assumptions in the modules: finitely many users (`UsersAssumption`, needed
because a counter is a cardinality), shards and hot videos; keys of which `NoKey`
is none; times, sizes and limits that are numbers, in the order the code's
constants have.  Nothing else is assumed, but where a theorem says so.

### Likes (`ActionPipelineProofs`)

* **Sums of shards.**  `MapThenSumSet` is a recursive function on the subsets of
  a set, and the library's induction over finite sets cannot be instantiated
  here.  A subset that is a least counterexample can: `SmallestSet` finds one by
  the well-foundedness of `<` on the naturals.  From it: there is such a
  function, the sum of no shards is 0, and one more shard adds its count
  (`SumExists`, `SumStep`).  `ScriptTotal` is then the lemma about the Lua script: it adds its
  delta to what base and shards add up to, or to the snapshot when it makes a new
  base.  `CacheEpochs`, that epochs in use are those handed out so far, is why no
  old shard counts on a new base.
* **`ChangesCountedOnce`**, for `~Legacy`: shards from before epochs existed are
  zeroed (section 4), so without the condition it is false.
* **The table.**  `StoreInv`: types and `CountIsActiveRows`.  The step lemma is
  that a row which changes moves the cardinality of the active rows by its
  `RowDelta`; hence the clamp at 0 never acts (`CountExact`).
  `StoreRefinement` maps rows to the set of likers.
* **The table through the queue**, under all faults.  `PipelineInv` adds the types
  of queue, worker and requests, since the worker writes what it was handed
  (`PipelineCountExact`, `PipelineRefinement`).  `PipelineTyped` has the rest of
  the types.
* **`EventsInOrder`**: with keys used once and lookups that answer, the worker
  never writes an older event after a newer one.  The property compares two
  writes with any number of steps between them, and `updated_at` is all the code
  remembers.  `OrderInv` therefore says that nothing is dated in the future
  (`Dated`), that `updated_at` is not before the newest event written
  (`Followed`) and that what passed the check is not older than that (`Checked`).
  A repeated key does not touch `updated_at`, so it must be known that an event
  whose key the row holds has been followed by an update (`KeyKnown`), which in
  turn takes that a key in flight is nowhere else (`KeysSent`, `KeyApart`).  This
  is where one key per operation is used, and the property fails without it.
* **`OvertakenTwoWays`**, under all faults: the event the worker is about to
  write comes to be older than its row only by a lookup that failed or by a
  fallback of the same user between lookup and write.  Both happen (section 4);
  nothing else does, above all no redelivery and no step for another user.
* **`StoresAgree`, `HotScoreExact`, `CountersAgree`**, for clients that act at any
  time, under all faults, with fresh, repeated or absent keys.  They speak of the
  users who are not `disturbed`, each of whom is marked by the very step that may
  separate the stores; section 4 shows for these steps that they do.  `AgreeInv`,
  of such users: one thing at a time is under way (`Apart`), where nothing is,
  both stores have the same state (`Untouched`), a request in between knows the
  difference it made (`RequestsRight`), and an event that is pending is newer
  than its row or has been written already (`EventsRight`), which is why a
  redelivered or unchecked one does no harm.  `KeyMeaning`, that a key stands for
  one target state wherever it is stored, is needed because either store may
  answer a repetition.  The hot score, with what `AddHotScore` failed to add,
  lacks just the change on its way (`HotInv`, `Recorded`).  The counter in Redis
  counts the likes in Redis unless it is `askew` (`CountsInv`: the step that makes
  a base is where `SnapshotExact` is used) and the table counts its rows, so they
  agree when the stores do.

### Sessions and uploads (`RefreshSessionProofs`)

* `Inv` joins the properties with what a call in flight knows: it works on a
  token that was shown and a successor that was issued (`CallRows`), two calls
  that hold one token had it shown twice (`CallsApart`), a call about to revoke
  has a cause (`CallCause`), and so has each revoked token (`RevokedCause`); a
  token not issued is nobody's successor yet (`Unborn`).  From it
  `AtMostOneActive`, `TokenRotatedOnce`, `ReuseKillsFamily`, `SuspicionHasCause`
  and the refinement of `SessionFamilies`.
* `DirectoryMatchesAnswers`: where a request is tells which of its checks have
  passed (`Checked`) and what it has put under its two names (`Written`).

### Comments (`CommentsProofs`)

* `Inv`: types, the counter, one comment per key, and that a request names a
  comment that exists (`CallRows`), without which a deletion could take the
  counter down for nothing.
* `CreditExact`, `AuthorTold`: hot score and messages lack just what has failed
  and what the requests under way are still to try (`Owed`, `ToldSoFar`).  A step
  that fails or a request that dies moves its share from the one to the other
  (`CreditSettled`, `MessageSettled`).  A comment is told of by the one
  request that made it (`OneTeller`); a request that finds the comment of its key
  has a difference of 0.

### Following (`FollowingProofs`)

* `DegreesExact`: only `Commit` touches the tables, and `DegreesWrite` shows that
  it moves both degrees of the pair by `Change`, so the clamp never acts.
  `KeyMakesOneVideo`: a saved video's request is past the insertion and keeps its
  key (`UploadKept`).  `OnlyFollowersServed`: an active row was activated some
  time (`ActiveEver`), a request past its commit works for such a pair
  (`CallEver`), and a page of the fan-out holds only users who have followed
  (`PageEver`), although rows change while backfill and fan-out go on.
* **First ones.**  Lists, pages and trimmed sets are the first n of a finite set
  in some order.  `FirstOnes` says what such a prefix is: all of the set or n of
  it, none left out before one that is in.  It ranks each element by the number
  of those before it, and shows by a least counterexample that the ranks have no
  gaps.  Every statement about a trimmed set rests on it, among them that a video
  which has been in keeps its place unless newer ones fill the set
  (`NewestKeeps`, `AddedKeeps`).
* `FollowingTyped`: the types, with the sizes of inboxes and outboxes
  (`SetsBounded`).
* `ShortPageIsLast`: the merge takes as many from each set as the page holds, so
  a short page took all of each set; `NoneTwice` counts the videos of a set that
  holds none twice.
* `EveryFollowerServed`: `ServedInv` says where each video is that is due.  It is
  in the inbox, or the inbox is full of newer ones, or the fan-out is still to
  reach this follower (`ComingTo`: its event is not consumed, or the worker's
  cursor has not passed), or a backfill has it in its list (`InboxesRight`).  The
  race is decided by what each side reads last: a video saved before the backfill
  lists is in the list, one saved later finds the follow committed.  A follow
  taken back and made again starts a new generation (`gen`, `served`), whose
  backfill counts alone.  For authors above the threshold the same holds of the
  outbox (`OutboxesRight`); `WorkerRight` ties the branch the worker took to the
  author's size when it was read, and videos for which that changed since are not
  due (section 4).

### Feeds (`FeedCachesProofs`, `PagesProofs`)

* **Cards.**  `Inv` says why the marker is enough.  Of a marked video every
  cached card has a marker that lives at least as long (`CardOK`); a card that a
  request has read and may still store has one that lives as long as that card
  will (`RequestOK`, `loaded`); and a request that left the video out holds no
  copy, as there is none any more (`Gone`).  The second is where
  `CardTTL + MaxRun <= MarkerTTL` is used, the assumption the code's 15 and 30
  minutes make on the time of a request.  `Horizon` is the sum of three bounds
  the same invariant keeps: the age of what is stored, of what is cached and of
  what is held.  `MarkedIsHidden` and `CardsAreRecent` follow.
* **Hot windows.**  `WindowsHaveExpiry` needs only the types.  `WindowsComplete`:
  a bucket has all that was credited to its minute until `BucketTTL` minutes
  later (`BucketsKept`), because no EXPIRE is set before that minute.
* **Lists.**  `StaysAreListedOnce`, for all five lists at once.  `LaterMeans` and
  `LaterOrder`: the WHERE of each query says what its ORDER BY does, and that is
  a strict order, as it ends with the id.  `PageRight` is what a page is worth
  when it was read some time ago: of the rows that have not changed since
  (`kept`), it holds those after its cursor and up to its own last item.
  `Between` is what a reader knows in the middle of the list: everything seen is
  up to the cursor, and what is steady and not seen is after it.  A page that is
  right for the reader's cursor takes the reader on (`WithRight`), wherever it
  comes from: MySQL, the cache, or the load of another request, whose cursor is
  the same (`WaitersRight`).  A change takes its row out of `kept` and `steady`,
  and all that is said of the others stays (`RowMoves`).

### Recommendation and embeddings

* **`RecommendProofs`.**  `Timing` gives for each stage of the wait how old the
  request can be; without an overrun of a route nothing can arrive any more once
  it waits for a missing result.  `Channel`: what was in time is in the channel
  or received, and is received before the request waits.  This uses
  `CollectTime > 0`, which the code's constant is: with 0 the select might
  prefer the timer.  `Cursor` and `Fresh` give `PagesAreNew`: the cursor is at or
  behind the limits of all that was shown, which a page that climbs raises by the
  tolerance, as it takes the cursor up by less than that (`PageBehind`), and the
  pool has nothing exposed before.
* **`VectorSyncProofs`.** `EmbeddingsSynced`: `PageFacts` is the lemma about the
  backfill's pages (the next page holds the least rows after the cursor, so what
  is behind its greatest is done), and `Inv` is inductive with it: a row saved
  during the backfill is ahead of it, or has its event still to copy, or the
  store was ready when it was copied.

### Only model-checked

Everything temporal: `ActionsLand`, both `JSONConverges`, `CallsEnd`,
`FollowersSee`, `WaitersReleased`, `VectorsReady`.  Liveness under fairness and
ENABLED are out of the prover's reach.  The theorems of the library that prove by
induction take a predicate as a parameter, which no prover here can instantiate;
where sums and lists needed induction, it is by a least counterexample.  The
modules have no recursive operators, and sums use the folds of the community
modules.

## 7. Not modelled

* Registration: one row under a unique name.  The lost update of two
  `UpdateProfile` at once: nothing in the code promises otherwise.
* Read marks and the count of unread messages, playback configuration and quality
  reports: single statements.
* The following feed with deleted videos: `Following` has no deletions; that its
  members are filtered by marker is in `FeedCards`.
* `ListFollowingPage` of MySQL, which serves a viewer without any index: its
  cursor is that of the timeline (`Pages`).
* Signing and parsing of tokens, middleware, wiring, configuration, migration and
  metrics have no state that interacts.  The web client appears as the way it
  uses keys.
* The numbers behind embeddings and scores, and texts: abstracted to small
  integers and names.
* RabbitMQ, MySQL, Redis and Milvus themselves: a transaction is a step where a
  row lock makes it serial, a Lua script is a step, a queue redelivers what was
  not acknowledged.  Replication and failover of these services are left out.
