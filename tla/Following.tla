----------------------------- MODULE Following -----------------------------
(***************************************************************************)
(* The following feed.  A follow copies the author's recent videos to the  *)
(* follower's inbox after its commit (application/relation/service.go).    *)
(* The fan-out worker (application/video/fanout_worker.go) puts each new   *)
(* video into the inboxes of the followers, page by page, or into the      *)
(* author's outbox once the author has many.  The feed reads inbox and     *)
(* outboxes, and MySQL only when all of them are empty                     *)
(* (application/feed/service.go, infra/cache/feed_cache.go).               *)
(***************************************************************************)
EXTENDS FollowTable, Publication, FiniteSetsExt, SequencesExt

CONSTANTS
    Threshold,      \* BigCreatorFollowerThreshold
    BatchSize,      \* followers per page of the fan-out
    BackfillLimit,  \* videos a follow copies
    InboxMax,       \* members an inbox keeps
    OutboxMax,      \* members an outbox keeps
    PageSize,       \* videos of a feed page
    Lapsing         \* bound: the users whose sets may expire

VARIABLES
    inbox,      \* the sorted set of a viewer
    outbox,     \* the sorted set of an author
    worker,     \* the locals of HandleVideoPublished
    told,       \* the pairs whose target has the message of the follow
    served,     \* history: the last `gen` of a pair whose backfill is complete
    crossed,    \* history: videos saved before the number of their author's
                \* followers crossed Threshold
    lapsed      \* history: users whose inbox or outbox has expired

indexVars == <<inbox, outbox>>
historyVars == <<served, crossed, lapsed>>
vars == <<followVars, publicationVars, indexVars, worker, told, historyVars>>

ASSUME FollowingAssumption ==
    /\ AuthorOf \in [Videos -> Users] /\ 0 \notin Users
    /\ {Threshold, BatchSize, BackfillLimit, InboxMax, OutboxMax, PageSize} \subseteq Nat \ {0}
    /\ Lapsing \subseteq Users

\* A member of a sorted set: video, author and published_at as text.  The event
\* has the nanoseconds of the API's clock, the row the milliseconds of the
\* column; the score of both is the second and the id.
Member == [video : Videos, stamp : {"event", "row"}]

\* Members of one score are in the order of their text, and Z is after a digit.
Newer(m, n) == m.video > n.video \/ (m.video = n.video /\ m.stamp = "row" /\ n.stamp = "event")

Newest(members, n) == {m \in members : Cardinality({x \in members : Newer(x, m)}) < n}

\* Mutant of Added: one member too many is kept.
AddedOneMore(members, m, max) == Newest(members \cup {m}, max + 1)

\* ZADD and ZREMRANGEBYRANK.
Added(members, m, max) == Newest(members \cup {m}, max)

Work == [pc : {"count", "outbox"}, video : Videos]
            \cup [pc : {"list"}, video : Videos, cursor : Users \cup {0}]
            \cup [pc : {"push"}, video : Videos, page : SUBSET Users]
Resting == [pc |-> "rest"]

Backfill == [pc : {"count", "videos", "push", "notify"}, pair : Pairs, gen : Nat,
             videos : SUBSET Videos]

TypeOK ==
    /\ follow \in [Pairs -> Row]
    /\ stat \in [Users -> [following : Nat, followers : Nat]]
    /\ owner \in [Users -> Calls \cup {Nobody}]
    /\ call \in [Calls -> Asked \cup Backfill \cup {Ready, Over}]
    /\ gen \in [Pairs -> Nat] /\ served \in [Pairs -> Nat]
    /\ upload \in [Videos -> Upload]
    /\ unsent \subseteq saved /\ saved \subseteq Videos
    /\ events \in Seq(saved)
    /\ inbox \in [Users -> SUBSET Member] /\ outbox \in [Users -> SUBSET Member]
    /\ \A u \in Users : Cardinality(inbox[u]) <= InboxMax /\ Cardinality(outbox[u]) <= OutboxMax
    /\ worker \in Work \cup {Resting}
    /\ told \subseteq Pairs
    /\ crossed \subseteq Videos /\ lapsed \subseteq Users

Init ==
    /\ FollowInit
    /\ PublicationInit
    /\ inbox = [u \in Users |-> {}]
    /\ outbox = [u \in Users |-> {}]
    /\ worker = Resting
    /\ told = {}
    /\ served = [p \in Pairs |-> 0]
    /\ crossed = {}
    /\ lapsed = {}

Big(a) == stat[a].followers >= Threshold

-----------------------------------------------------------------------------
(* Service.setFollow: the transaction, backfillFollowFeed, notifyFollow.   *)

\* Mutant of TakesEffect: the status of the row is not looked at.
TakesEffectAsked(active, row) == active

TakesEffect(active, row) == active /\ row.status = "active"

\* The transaction commits.  Only a follow that left the row active goes on.
Commit(c) ==
    /\ call[c].pc = "write"
    /\ LET p == call[c].pair IN
       /\ Write(p, call[c].active, call[c].key)
       /\ call' = [call EXCEPT ![c] =
                     IF TakesEffect(@.active, follow'[p])
                       THEN [pc |-> "count", pair |-> p, gen |-> gen'[p], videos |-> {}]
                       ELSE Over]
       /\ crossed' = {v \in saved : v \in crossed \/ Big(AuthorOf[v]) # Big(AuthorOf[v])'}
    /\ owner' = Released(c)
    /\ UNCHANGED <<publicationVars, indexVars, worker, told, served, lapsed>>

\* CountFollowers: a big author's videos are not copied.
CountForBackfill(c) ==
    /\ call[c].pc = "count"
    /\ Goto(c, IF Big(call[c].pair[2]) THEN "notify" ELSE "videos")
    /\ UNCHANGED <<tableVars, owner, publicationVars, indexVars, worker, told, historyVars>>

SavedOf(a) == {v \in saved : AuthorOf[v] = a}

\* The n newest videos of the set.
Recent(videos, n) == {v \in videos : Cardinality({w \in videos : w > v}) < n}

\* ListAuthorRecentVideos.
ListVideos(c) ==
    /\ call[c].pc = "videos"
    /\ LET videos == Recent(SavedOf(call[c].pair[2]), BackfillLimit) IN
       call' = [call EXCEPT ![c].videos = videos,
                            ![c].pc = IF videos = {} THEN "notify" ELSE "push"]
    /\ UNCHANGED <<tableVars, owner, publicationVars, indexVars, worker, told, historyVars>>

\* AddInboxItems for one video after the other, the newest first.
PushBackfill(c) ==
    /\ call[c].pc = "push"
    /\ \E v \in Recent(call[c].videos, 1) :
           LET u == call[c].pair[1]
               rest == call[c].videos \ {v} IN
           /\ inbox' = [inbox EXCEPT ![u] = Added(@, [video |-> v, stamp |-> "row"], InboxMax)]
           /\ call' = [call EXCEPT ![c].videos = rest,
                                   ![c].pc = IF rest = {} THEN "notify" ELSE "push"]
    /\ UNCHANGED <<tableVars, owner, publicationVars, outbox, worker, told, historyVars>>

\* CreateFromActorEvent under the event id of the pair, then the answer.
Notify(c) ==
    /\ call[c].pc = "notify"
    /\ LET p == call[c].pair IN
       /\ told' = told \cup {p}
       /\ served' = [served EXCEPT ![p] = IF call[c].gen > @ THEN call[c].gen ELSE @]
    /\ call' = [call EXCEPT ![c] = Over]
    /\ UNCHANGED <<tableVars, owner, publicationVars, indexVars, worker, crossed, lapsed>>

\* A call of the backfill fails, which is an error to the client though the
\* follow is committed; or the process dies.
BackfillFails(c) ==
    /\ call[c].pc \in {"count", "videos", "push", "notify"}
    /\ call' = [call EXCEPT ![c] = Over]
    /\ UNCHANGED <<tableVars, owner, publicationVars, indexVars, worker, told, historyVars>>

-----------------------------------------------------------------------------
(* FanoutWorker.HandleVideoPublished in the loop of the consumer.          *)

Idle == UNCHANGED <<followVars, upload, saved, unsent, told, historyVars>>

Deliver ==
    /\ worker = Resting
    /\ events # <<>>
    /\ worker' = [pc |-> "count", video |-> Head(events)]
    /\ events' = Tail(events)
    /\ UNCHANGED indexVars /\ Idle

\* CountFollowers of the author decides between outbox and inboxes.
CountForFanout ==
    /\ worker.pc = "count"
    /\ worker' = IF Big(AuthorOf[worker.video])
                   THEN [worker EXCEPT !.pc = "outbox"]
                   ELSE [pc |-> "list", video |-> worker.video, cursor |-> 0]
    /\ UNCHANGED <<events, indexVars>> /\ Idle

\* AddAuthorOutboxItem, and the acknowledgement.
PushOutbox ==
    /\ worker.pc = "outbox"
    /\ outbox' = [outbox EXCEPT ![AuthorOf[worker.video]] =
                    Added(@, [video |-> worker.video, stamp |-> "event"], OutboxMax)]
    /\ worker' = Resting
    /\ UNCHANGED <<events, inbox>> /\ Idle

\* ListFollowerIDs.
Page(a, cursor) ==
    LET after == {u \in Followers(a) : u > cursor} IN
    {u \in after : Cardinality({w \in after : w < u}) < BatchSize}

ListFollowers ==
    /\ worker.pc = "list"
    /\ LET page == Page(AuthorOf[worker.video], worker.cursor) IN
       worker' = IF page = {} THEN Resting
                 ELSE [pc |-> "push", video |-> worker.video, page |-> page]
    /\ UNCHANGED <<events, indexVars>> /\ Idle

PushedTo(users) ==
    [u \in Users |-> IF u \in users
                       THEN Added(inbox[u], [video |-> worker.video, stamp |-> "event"], InboxMax)
                       ELSE inbox[u]]

\* Mutant of PushInboxes: a full page is taken for the last.
PushInboxesLast ==
    /\ worker.pc = "push"
    /\ inbox' = PushedTo(worker.page)
    /\ worker' = Resting
    /\ UNCHANGED <<events, outbox>> /\ Idle

\* AddInboxItems for the page; a page that is not full is the last.
PushInboxes ==
    /\ worker.pc = "push"
    /\ inbox' = PushedTo(worker.page)
    /\ \E last \in worker.page :
           /\ \A u \in worker.page : u <= last
           /\ worker' = IF Cardinality(worker.page) < BatchSize THEN Resting
                        ELSE [pc |-> "list", video |-> worker.video, cursor |-> last]
    /\ UNCHANGED <<events, outbox>> /\ Idle

\* Mutant of Requeued: the failed event is rejected for good.
RequeuedNowhere(v) == {events}

Requeued(v) == {InsertAt(events, i, v) : i \in 1..(Len(events) + 1)}

\* A call fails, the pipeline after some of its inboxes, or the worker dies; the
\* event returns to the queue and the fan-out starts anew.
Requeue ==
    /\ worker # Resting
    /\ events' \in Requeued(worker.video)
    /\ \E some \in (IF worker.pc = "push" THEN SUBSET worker.page ELSE {{}}) :
           inbox' = PushedTo(some)
    /\ worker' = Resting
    /\ UNCHANGED outbox /\ Idle

Fanout == CountForFanout \/ PushOutbox \/ ListFollowers \/ PushInboxes

\* A sorted set lives for 30 days after the last addition.
Expire(u) ==
    /\ u \in Lapsing
    /\ \/ inbox[u] # {} /\ inbox' = [inbox EXCEPT ![u] = {}] /\ UNCHANGED outbox
       \/ outbox[u] # {} /\ outbox' = [outbox EXCEPT ![u] = {}] /\ UNCHANGED inbox
    /\ lapsed' = lapsed \cup {u}
    /\ UNCHANGED <<followVars, publicationVars, worker, told, served, crossed>>

-----------------------------------------------------------------------------
(* The feed: listFollowingItems, ListFollowingIndexPage.                   *)

\* ListFollowingPullAuthorIDs.
PullAuthors(u) == {a \in Followed(u) : Big(a)}

Streams(u) == {inbox[u]} \cup {outbox[a] : a \in PullAuthors(u)}
HasIndex(u) == UNION Streams(u) # {}

VideosIn(members) == {m.video : m \in members}

\* Mutant of Merged: each source is asked for one member less.
MergedShort(u, cursor, n) ==
    Recent(UNION {VideosIn(Newest({m \in s : m.video < cursor}, n - 1)) : s \in Streams(u)}, n)

\* mergeFollowingIndexes: `n` members below the cursor of each source, a video
\* once.
Merged(u, cursor, n) ==
    Recent(UNION {VideosIn(Newest({m \in s : m.video < cursor}, n)) : s \in Streams(u)}, n)

\* ListFollowingPage is asked only when there is no index at all.
Shown(u) ==
    IF HasIndex(u) THEN VideosIn(UNION Streams(u))
    ELSE {v \in saved : AuthorOf[v] \in Followed(u)}

-----------------------------------------------------------------------------
Outside == UNCHANGED <<indexVars, worker, told, historyVars>>

Request(c) ==
    \/ (LockUser(c) \/ LockTarget(c) \/ Victim(c)) /\ UNCHANGED publicationVars /\ Outside
    \/ Commit(c)
    \/ CountForBackfill(c) \/ ListVideos(c) \/ PushBackfill(c) \/ Notify(c)

Next ==
    \/ /\ \E c \in Calls, active \in BOOLEAN, key \in Keys \cup {NoKey} : \E p \in Asks[c] :
             Begin(c, p, active, key)
       /\ UNCHANGED publicationVars /\ Outside
    \/ \E c \in Calls : Request(c) \/ BackfillFails(c)
    \/ (\E c \in Calls : RollBack(c)) /\ UNCHANGED publicationVars /\ Outside
    \/ /\ \/ \E v \in Videos, key \in UploadKeys \cup {NoUploadKey} : Create(v, key)
          \/ \E v \in Videos : UploadStep(v) \/ UploadEnds(v)
       /\ UNCHANGED followVars /\ Outside
    \/ Deliver \/ Fanout \/ Requeue
    \/ \E u \in Users : Expire(u)

Spec == Init /\ [][Next]_vars

\* Requests and the worker run on; failures, each of which sends the fan-out back
\* to its first page, cease some time.
FairSpec ==
    /\ Spec
    /\ \A c \in Calls : WF_vars(Request(c))
    /\ WF_vars(Deliver \/ Fanout)
    /\ <>[][~Requeue]_vars

-----------------------------------------------------------------------------
\* Viewer u is to find video v: u follows the author and the backfill of the
\* follow is complete, the event of v was sent, and v is among the videos a
\* backfill copies.  Not where the author has since crossed the threshold or a
\* sorted set has expired: then the index hides what only MySQL has.
Due(u, v) ==
    LET a == AuthorOf[v] IN
    /\ v \in Recent(SavedOf(a), BackfillLimit) \ unsent
    /\ a \in Followed(u) /\ served[<<u, a>>] = gen[<<u, a>>]
    /\ v \notin crossed /\ {u, a} \cap lapsed = {}

\* v is there, or newer videos have taken its place.
Found(u, v) ==
    \/ v \in Shown(u)
    \/ Cardinality({m \in inbox[u] : m.video > v}) >= InboxMax
    \/ Cardinality({m \in outbox[AuthorOf[v]] : m.video > v}) >= OutboxMax

Consumed(v) == v \notin Range(events) /\ (worker = Resting \/ worker.video # v)

\* However follow, publication and fan-out interleave, a video whose event is
\* consumed is in the feed of every follower, old or new: the follow commits
\* before it lists the videos, the video is saved before the followers are listed
\* (application/relation/service.go:146, application/video/service.go:94).
FollowersServed ==
    \A u \in Users, v \in Videos : AuthorOf[v] # u /\ Due(u, v) /\ Consumed(v) => Found(u, v)

\* Only a follow that took effect fills an inbox or is told of, not one whose
\* Idempotency-Key had served a cancellation (application/relation/service.go:153).
FollowersOnly ==
    \A p \in Pairs : ~Ever(p) =>
        p \notin told /\ \A m \in inbox[p[1]] : AuthorOf[m.video] # p[2]

\* Fewer videos than asked for mean that the feed ends here (hasMore of
\* application/feed/service.go:451), however the videos are spread over the inbox
\* and the outboxes and whatever was cut off them.  Not where a set holds a video
\* twice, under the stamps of the event and of the row: the page may then be short.
PagesComplete ==
    \A u \in Users, cursor \in Videos \cup {Max(Videos) + 1} :
        LET below == {v \in Shown(u) : v < cursor}
            page == Merged(u, cursor, PageSize + 1)
            once == \A s \in Streams(u) : Cardinality(s) = Cardinality(VideosIn(s)) IN
        HasIndex(u) /\ once /\ Cardinality(page) <= PageSize => below \subseteq page

\* Every request to follow or unfollow ends, though two users may lock each
\* other crosswise (infra/persistence/relation/gorm.go:48).
CallsEnd == \A c \in Calls : call[c] # Ready ~> call[c] = Over

\* A video reaches the followers some time, whatever fails on the way.
FollowersSee ==
    \A u \in Users, v \in Videos : AuthorOf[v] # u => (Due(u, v) ~> (Found(u, v) \/ ~Due(u, v)))
=============================================================================
