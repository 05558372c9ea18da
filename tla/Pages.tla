------------------------------- MODULE Pages -------------------------------
(***************************************************************************)
(* The lists of the API that are read page by page while they change:      *)
(* timeline, hot list without Redis, comments, messages, follows.  Each is *)
(* ordered by columns and the id, the cursor is the last item of the page  *)
(* before, and one row more than the page holds is read to tell whether    *)
(* more follows.  Pages of the timeline are cached under their cursor, and *)
(* the requests of one API process for one page share one load.            *)
(***************************************************************************)
EXTENDS Integers, FiniteSets

CONSTANTS
    Kinds,      \* the lists of this instance, of which one is read
    Rows,       \* ids of rows
    Times,      \* instants of published_at, created_at or updated_at
    Scores,     \* hot scores
    Limit,      \* the page size
    Readers,    \* clients that read the list from its start to its end
    Processes,  \* API processes
    MaxChanges  \* bound on the changes of rows

VARIABLES
    kind,     \* the list that is read
    row,      \* the rows of the list
    cache,    \* cached pages: feed:page:v1:timeline:...
    reader,   \* clients and the locals of their requests
    changes   \* how often rows have changed

vars == <<kind, row, cache, reader, changes>>

AllKinds == {"timeline", "hot", "comments", "messages", "follows"}
ASSUME PagesAssumption ==
    /\ Kinds \subseteq AllKinds
    /\ Rows \subseteq Nat \ {0} /\ Times \subseteq Nat \ {0} /\ Scores \subseteq Nat
    /\ Limit \in Nat \ {0}
    /\ MaxChanges \in Nat

-----------------------------------------------------------------------------
(* The queries.  Each orders its rows by columns that end with the id, and  *)
(* takes the rows after the cursor c by a condition of its own.            *)

\* ORDER BY: hot_score, published_at, id descending, or the instant and the id.
OrderBy(i) == IF kind = "hot" THEN <<i.score, i.at, i.id>> ELSE <<i.at, i.id>>
Later(j, i) ==
    \E n \in DOMAIN OrderBy(i) :
        /\ OrderBy(j)[n] < OrderBy(i)[n]
        /\ \A m \in 1 .. n - 1 : OrderBy(j)[m] = OrderBy(i)[m]

\* Mutant of TimelineWhere: the videos of the cursor's instant are lost.
TimelineWhereStrict(x, c) == x.at < c.at

\* ListTimelinePage: v.published_at, v.id.
TimelineWhere(x, c) ==
    \/ x.at < c.at
    \/ x.at = c.at /\ x.id < c.id

\* ListHotPage: hot_score, v.published_at, v.id.
HotWhere(x, c) ==
    \/ x.score < c.score
    \/ x.score = c.score /\ x.at < c.at
    \/ x.score = c.score /\ x.at = c.at /\ x.id < c.id

\* ListComments: c.created_at, c.id.
CommentWhere(x, c) ==
    \/ x.at < c.at
    \/ x.at = c.at /\ x.id < c.id

\* ListByUser: created_at, id.
MessageWhere(x, c) ==
    \/ x.at < c.at
    \/ x.at = c.at /\ x.id < c.id

\* ListFollowing and ListFollowers: f.updated_at and the other user's id.
FollowWhere(x, c) ==
    \/ x.at < c.at
    \/ x.at = c.at /\ x.id < c.id

Where(x, c) ==
    CASE kind = "timeline" -> TimelineWhere(x, c)
      [] kind = "hot"      -> HotWhere(x, c)
      [] kind = "comments" -> CommentWhere(x, c)
      [] kind = "messages" -> MessageWhere(x, c)
      [] kind = "follows"  -> FollowWhere(x, c)

-----------------------------------------------------------------------------
(* Pages.                                                                  *)

\* The cursor of a first request; no row has id 0.
First == [id |-> 0, at |-> 0, score |-> 0]
After(x, c) == c = First \/ Where(x, c)

\* A page holds items, the cursor of the next one and hasMore.  kept is
\* history: the rows that were in the list when the page was read and have not
\* changed since.
NoPage == [items |-> {}, next |-> First, more |-> FALSE, kept |-> {}]

ItemOf(x) == [id |-> x, at |-> row[x].at, score |-> row[x].score]
Live == {x \in Rows : row[x].live}
Candidates(c) == {i \in {ItemOf(x) : x \in Live} : After(i, c)}

\* The first Limit of all items in the order of the list.
Cut(items, all) ==
    /\ items = all \/ Cardinality(items) = Limit
    /\ Cardinality(items) <= Limit
    /\ \A i \in items, j \in all \ items : Later(j, i)

\* The cursor is the last item; an empty page has none.
NextCursor(items, next) ==
    IF items = {} THEN next = First
                  ELSE next \in items /\ \A i \in items : i = next \/ Later(next, i)

\* Reading limit + 1 rows and cutting: the page after the cursor c (there is one).
PageAt(c) ==
    LET all == Candidates(c)
        Ends(items) == {n \in items \cup {First} : NextCursor(items, n)}
    IN  UNION {{[items |-> items, next |-> n, more |-> items # all, kept |-> Live] :
                    n \in Ends(items)} : items \in {i \in SUBSET all : Cut(i, all)}}

-----------------------------------------------------------------------------
\* A reader: seen are the items received, again whether one came twice, steady
\* the rows that were in the list and did not change since its first page was
\* read from MySQL (all rows, before that).
Idle == [pc |-> "idle", at |-> CHOOSE p \in Processes : TRUE, cursor |-> First, page |-> NoPage,
         on |-> CHOOSE r \in Readers : TRUE, seen |-> {}, again |-> FALSE, steady |-> Rows]

Leading(r) == reader[r].pc \in {"recheck", "query", "store"}

\* A row that is not in the list.
Absent == [live |-> FALSE, at |-> CHOOSE t \in Times : TRUE, score |-> CHOOSE s \in Scores : TRUE]
\* One that is; only hot lists have scores.
Present == [live : {TRUE}, at : Times, score : IF kind = "hot" THEN Scores ELSE {Absent.score}]

Init ==
    /\ kind \in Kinds
    /\ row \in [Rows -> Present \cup {Absent}]
    /\ cache = {}
    /\ reader = [r \in Readers |-> Idle]
    /\ changes = 0

-----------------------------------------------------------------------------
(* The list changes.                                                       *)

\* What was read before knows nothing of the change.
Shaken(x) ==
    /\ cache' = {[e EXCEPT !.page.kept = @ \ {x}] : e \in cache}
    /\ reader' = [r \in Readers |-> [reader[r] EXCEPT !.page.kept = @ \ {x},
                                                      !.steady = @ \ {x}]]
    /\ changes' = changes + 1

\* A video, comment, message or follow appears, at any place of the order: the
\* clocks of the processes differ, and transactions commit in any order.
Appear(x) ==
    /\ changes < MaxChanges
    /\ ~row[x].live
    /\ \E p \in Present : row' = [row EXCEPT ![x] = p]
    /\ Shaken(x)
    /\ UNCHANGED kind

\* It is deleted or canceled; messages never are.
Vanish(x) ==
    /\ changes < MaxChanges
    /\ kind # "messages"
    /\ row[x].live
    /\ row' = [row EXCEPT ![x] = Absent]
    /\ Shaken(x)
    /\ UNCHANGED kind

\* A like or comment changes the score; a repeated follow with another key saves
\* the row and with it updated_at.
Move(x) ==
    /\ changes < MaxChanges
    /\ row[x].live
    /\ \/ kind = "hot" /\ \E s \in Scores \ {row[x].score} : row' = [row EXCEPT ![x].score = s]
       \/ kind = "follows" /\ \E t \in Times \ {row[x].at} : row' = [row EXCEPT ![x].at = t]
    /\ Shaken(x)
    /\ UNCHANGED kind

-----------------------------------------------------------------------------
(* A client and its requests.                                              *)

\* What a client has after a page: it goes on while hasMore says so.
With(q, p) ==
    [q EXCEPT !.pc = IF p.more THEN "ask" ELSE "ended",
              !.cursor = p.next,
              !.page = NoPage,
              !.seen = @ \cup p.items,
              !.again = @ \/ (p.items \cap q.seen # {}),
              !.steady = @ \cap p.kept]

Failed(q) == [q EXCEPT !.pc = "ask", !.page = NoPage]

Open(r) ==
    /\ reader[r].pc \in {"idle", "ended"}
    /\ reader' = [reader EXCEPT ![r] = [Idle EXCEPT !.pc = "ask"]]
    /\ UNCHANGED <<kind, row, cache, changes>>

\* A list without a page cache: the request reads MySQL, or fails and changes
\* nothing.
ReadList(r, k) ==
    /\ kind = k
    /\ reader[r].pc = "ask"
    /\ \E p \in PageAt(reader[r].cursor) : reader' = [reader EXCEPT ![r] = With(@, p)]
    /\ UNCHANGED <<kind, row, cache, changes>>

ListHot(r) == ReadList(r, "hot")
ListComments(r) == ReadList(r, "comments")
ListMessages(r) == ReadList(r, "messages")
ListFollowing(r) == ReadList(r, "follows")

Cached(c) == {e.page : e \in {f \in cache : f.key = c}}

\* GetPage hits.
Hit(r) ==
    /\ kind = "timeline"
    /\ reader[r].pc = "ask"
    /\ \E p \in Cached(reader[r].cursor) : reader' = [reader EXCEPT ![r] = With(@, p)]
    /\ UNCHANGED <<kind, row, cache, changes>>

\* GetPage misses or fails: the first request of a process for the page leads,
\* the others wait for it (group.Do).
Join(r, a) ==
    /\ kind = "timeline"
    /\ reader[r].pc = "ask"
    /\ LET leaders == {q \in Readers : Leading(q) /\ reader[q].at = a
                                         /\ reader[q].cursor = reader[r].cursor}
       IN  IF leaders = {}
             THEN reader' = [reader EXCEPT ![r].pc = "recheck", ![r].at = a]
             ELSE \E q \in leaders :
                    reader' = [reader EXCEPT ![r].pc = "wait", ![r].at = a, ![r].on = q]
    /\ UNCHANGED <<kind, row, cache, changes>>

\* Mutant of Sharers: those who wait are not told of an error.
SharersNone(r) == {r}

\* Those who share the outcome of a load.
Sharers(r) == {r} \cup {q \in Readers : reader[q].pc = "wait" /\ reader[q].on = r}

\* The load ends with page p, for the leader and all that wait.
Deliver(r, p) ==
    reader' = [q \in Readers |->
                IF q \in Sharers(r)
                  THEN With(reader[q], p) ELSE reader[q]]

\* GetPage once more, now as the leader.
Recheck(r) ==
    /\ reader[r].pc = "recheck"
    /\ IF Cached(reader[r].cursor) # {}
         THEN \E p \in Cached(reader[r].cursor) : Deliver(r, p)
         ELSE reader' = [reader EXCEPT ![r].pc = "query"]
    /\ UNCHANGED <<kind, row, cache, changes>>

\* listPageFromRepo.
Query(r) ==
    /\ reader[r].pc = "query"
    /\ \E p \in PageAt(reader[r].cursor) :
         reader' = [reader EXCEPT ![r].pc = "store", ![r].page = p]
    /\ UNCHANGED <<kind, row, cache, changes>>

\* feedPageCacheKey; scene and limit are the same for all.
Key(q) == q.cursor

\* SetPage.
Store(r) ==
    /\ reader[r].pc = "store"
    /\ LET k == Key(reader[r])
       IN  cache' = {e \in cache : e.key # k} \cup {[key |-> k, page |-> reader[r].page]}
    /\ Deliver(r, reader[r].page)
    /\ UNCHANGED <<kind, row, changes>>

\* SetPage fails, and its error is ignored.
StoreFails(r) ==
    /\ reader[r].pc = "store"
    /\ Deliver(r, reader[r].page)
    /\ UNCHANGED <<kind, row, cache, changes>>

\* MySQL fails, or the client of the leader leaves and cancels its context: the
\* error goes to all that wait, who may ask again.
LoadFails(r) ==
    /\ reader[r].pc = "query"
    /\ reader' = [q \in Readers |-> IF q \in Sharers(r) THEN Failed(reader[q]) ELSE reader[q]]
    /\ UNCHANGED <<kind, row, cache, changes>>

\* A process dies with all its requests.
Crash(a) ==
    /\ \E r \in Readers : (Leading(r) \/ reader[r].pc = "wait") /\ reader[r].at = a
    /\ reader' = [r \in Readers |->
                   IF (Leading(r) \/ reader[r].pc = "wait") /\ reader[r].at = a
                     THEN Failed(reader[r]) ELSE reader[r]]
    /\ UNCHANGED <<kind, row, cache, changes>>

\* 5 seconds for the first page, 45 for the others.
Expire(e) ==
    /\ cache' = cache \ {e}
    /\ UNCHANGED <<kind, row, reader, changes>>

-----------------------------------------------------------------------------
Next ==
    \/ \E x \in Rows : Appear(x) \/ Vanish(x) \/ Move(x)
    \/ \E r \in Readers :
        \/ Open(r)
        \/ ListHot(r) \/ ListComments(r) \/ ListMessages(r) \/ ListFollowing(r)
        \/ Hit(r)
        \/ \E a \in Processes : Join(r, a)
        \/ Recheck(r)
        \/ Query(r)
        \/ Store(r)
        \/ StoreFails(r)
        \/ LoadFails(r)
    \/ \E a \in Processes : Crash(a)
    \/ \E e \in cache : Expire(e)

Spec == Init /\ [][Next]_vars

\* A request that has begun goes on.
Fairness ==
    \A r \in Readers : WF_vars(Recheck(r)) /\ WF_vars(Query(r)) /\ WF_vars(Store(r) \/ StoreFails(r))

FairSpec == Spec /\ Fairness

-----------------------------------------------------------------------------
(* Properties.                                                             *)

\* No item comes twice in one reading of a list, whatever is inserted or
\* deleted meanwhile, whichever pages are old ones from the cache and however
\* many rows share an instant.
NoneTwice == \A r \in Readers : ~reader[r].again

\* A reading that has come to its end has shown every row that was there, in one
\* place of the order, since the oldest page it got was read.
NoneSkipped ==
    \A r \in Readers :
        reader[r].pc = "ended" => reader[r].steady \subseteq {i.id : i \in reader[r].seen}

\* Both: what stays in its place is listed exactly once.
ListedOnce == NoneTwice /\ NoneSkipped

\* Nobody waits for ever for a page that another request loads.
WaitersReleased ==
    \A r \in Readers : (reader[r].pc = "wait") ~> (reader[r].pc # "wait")
=============================================================================
