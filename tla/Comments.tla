------------------------------ MODULE Comments ------------------------------
(***************************************************************************)
(* Comments on one video: the interaction_comment rows, the counter of     *)
(* video_stat, and the comment count the feed shows, which lives twice in  *)
(* Redis: in the stat JSON (15 seconds) and in the counter hash (base)     *)
(* that likes create and renew.  A comment is written in one MySQL         *)
(* transaction that locks the video (or comment) row, so transactions are  *)
(* steps; what the service does before and after them interleaves with     *)
(* other requests, feed readers and likes.                                 *)
(***************************************************************************)
EXTENDS Integers, Sequences, FiniteSets

CONSTANTS
    Users,        \* the users who comment
    Author,       \* the author of the video
    Admins,       \* users with the admin role
    Keys, NoKey,  \* Idempotency-Key values, and none
    Calls,        \* requests to create or delete a comment
    Asks,         \* the users and keys each request may be of
    Likers,       \* like requests, which make and read the counter hash
    Readers,      \* feed requests, any number each
    Workloads,    \* the sets of requests of which one takes place
    MaxComments   \* bound on the comments created

VARIABLES
    comments,      \* interaction_comment: an id is an index
    commentCount,  \* video_stat.comment_count
    published,     \* video.status = Published
    base,          \* comment_count in video:stat:counter:v1:{video}
    json,          \* comment_count in video:stat:v1:{video}
    call,          \* the locals of each comment request
    proc,          \* the locals of each like and feed request
    hotScore,      \* the video's score in the hot minute buckets
    told,          \* comments the author has a message about
    missed,        \* history: the comments the hot ranking was not credited with,
                   \* less the deletions it was not: AddHotScore failed, or the
                   \* request stopped before
    untold         \* history: comments of others whose message was not written

tableVars == <<comments, commentCount, published>>
cacheVars == <<base, json>>
creditVars == <<hotScore, told, missed, untold>>
vars == <<tableVars, cacheVars, call, proc, creditVars>>

ASSUME CommentsAssumption ==
    /\ Admins \subseteq Users
    /\ NoKey \notin Keys
    /\ Asks \in [Calls -> SUBSET (Users \X (Keys \cup {NoKey}))]
    /\ Workloads \subseteq SUBSET (Calls \cup Likers \cup Readers)
    /\ MaxComments \in Nat

hotScoreCommentWeight == 5

Normal  == "normal"
Deleted == "deleted"
Comment == [user : Users, key : Keys \cup {NoKey}, status : {Normal, Deleted}]

\* A cached count: a key that may be gone.
Cached == [live : BOOLEAN, count : Nat]
Gone == [live |-> FALSE, count |-> 0]
Shows(n) == [live |-> TRUE, count |-> n]

Ready == [pc |-> "ready"]
Over  == [pc |-> "over"]    \* answered, well or not, or gone with its process
Locals ==
    [pc : {"find", "insert", "existing"}, user : Users, key : Keys \cup {NoKey}]
        \cup [pc : {"remove"}, user : Users, id : 1..MaxComments]
        \cup [pc : {"load", "sync", "notify"}, id : 1..MaxComments, count : Nat,
              delta : {-1, 0, 1}]

Procs == Likers \cup Readers
Proc == [pc : {"idle", "script", "base", "fallback", "query", "store", "done"}, count : Nat]
Free == [pc |-> "idle", count |-> 0]
Finished == [Free EXCEPT !.pc = "done"]

LiveComments == {i \in DOMAIN comments : comments[i].status = Normal}

TypeOK ==
    /\ comments \in Seq(Comment) /\ Len(comments) <= MaxComments
    /\ commentCount \in Nat
    /\ published \in BOOLEAN
    /\ base \in Cached /\ json \in Cached
    /\ call \in [Calls -> Locals \cup {Ready, Over}]
    /\ proc \in [Procs -> Proc]
    /\ hotScore \in Int /\ missed \in Int
    /\ told \subseteq DOMAIN comments /\ untold \subseteq DOMAIN comments

Init ==
    /\ comments = <<>>
    /\ commentCount = 0
    /\ published = TRUE
    /\ base = Gone /\ json = Gone
    /\ \E requests \in Workloads :
        /\ call = [c \in Calls |-> IF c \in requests THEN Ready ELSE Over]
        /\ proc = [p \in Procs |-> IF p \in requests THEN Free ELSE Finished]
    /\ hotScore = 0 /\ missed = 0
    /\ told = {} /\ untold = {}

-----------------------------------------------------------------------------
(* Service.CreateComment and Repository.CreateComment.                     *)

\* A request, its content valid, arrives; without a key nothing is looked up.
Create(c, u, key) ==
    /\ call[c] = Ready /\ <<u, key>> \in Asks[c]
    /\ call' = [call EXCEPT ![c] =
                  [pc |-> IF key = NoKey THEN "insert" ELSE "find", user |-> u, key |-> key]]
    /\ UNCHANGED <<tableVars, cacheVars, proc, creditVars>>

Matches(i, q) == comments[i].user = q.user /\ comments[i].key = q.key

\* FindCommentByUserAndIdempotencyKey: a hit is the answer, whatever became of
\* the comment.
Find(c) ==
    /\ call[c].pc = "find"
    /\ call' = [call EXCEPT ![c] =
                  IF \E i \in DOMAIN comments : Matches(i, call[c])
                    THEN Over ELSE [@ EXCEPT !.pc = "insert"]]
    /\ UNCHANGED <<tableVars, cacheVars, proc, creditVars>>

\* Mutant of Duplicate: the unique index is missing.
DuplicateNever(q) == FALSE

\* uk_user_idempotency; NULL keys never collide.
Duplicate(q) == q.key # NoKey /\ \E i \in DOMAIN comments : Matches(i, q)

\* The transaction: only on a published video, and a duplicate key rolls back.
Insert(c) ==
    /\ call[c].pc = "insert"
    /\ LET q == call[c]
           id == Len(comments) + 1 IN
       IF ~published
         THEN call' = [call EXCEPT ![c] = Over] /\ UNCHANGED tableVars
       ELSE IF Duplicate(q)
         THEN call' = [call EXCEPT ![c].pc = "existing"] /\ UNCHANGED tableVars
       ELSE
         /\ Len(comments) < MaxComments
         /\ comments' = Append(comments, [user |-> q.user, key |-> q.key, status |-> Normal])
         /\ commentCount' = commentCount + 1
         /\ call' = [call EXCEPT ![c] = [pc |-> "load", id |-> id,
                                         count |-> commentCount + 1, delta |-> 1]]
         /\ UNCHANGED published
    /\ UNCHANGED <<cacheVars, proc, creditVars>>

\* Mutant of DuplicateDelta: the answer of a duplicate is credited as new.
DuplicateDeltaNew == 1

\* A duplicate changed nothing.
DuplicateDelta == 0

\* The comment of the request that won, and the count as it is now.
Existing(c) ==
    /\ call[c].pc = "existing"
    /\ \E i \in DOMAIN comments :
           /\ Matches(i, call[c])
           /\ call' = [call EXCEPT ![c] = [pc |-> "load", id |-> i, count |-> commentCount,
                                           delta |-> DuplicateDelta]]
    /\ UNCHANGED <<tableVars, cacheVars, proc, creditVars>>

-----------------------------------------------------------------------------
(* Service.DeleteComment and Repository.DeleteComment.                     *)

Delete(c, u, i) ==
    /\ call[c] = Ready /\ (\E key \in Keys \cup {NoKey} : <<u, key>> \in Asks[c])
    /\ i \in DOMAIN comments
    /\ call' = [call EXCEPT ![c] = [pc |-> "remove", user |-> u, id |-> i]]
    /\ UNCHANGED <<tableVars, cacheVars, proc, creditVars>>

Permitted(u, i) == u \in {comments[i].user, Author} \cup Admins

\* Mutant of CountAfterRemoval: a comment deleted before is subtracted again.
CountAfterRemovalAgain(i) == commentCount - 1

\* Mutant of CountAfterRemoval: the count is left to the next read.
CountAfterRemovalKept(i) == commentCount

\* A comment deleted before keeps the count.
CountAfterRemoval(i) ==
    IF i \notin LiveComments THEN commentCount
    ELSE IF commentCount = 0 THEN 0 ELSE commentCount - 1

\* The transaction locks the comment, so two deletions are one after the other.
Remove(c) ==
    /\ call[c].pc = "remove"
    /\ LET u == call[c].user
           i == call[c].id IN
       IF Permitted(u, i)
         THEN /\ comments' = [comments EXCEPT ![i].status = Deleted]
              /\ commentCount' = CountAfterRemoval(i)
              /\ call' = [call EXCEPT ![c] =
                            [pc |-> "load", id |-> i, count |-> CountAfterRemoval(i),
                             delta |-> IF i \in LiveComments THEN -1 ELSE 0]]
              /\ UNCHANGED published
         ELSE call' = [call EXCEPT ![c] = Over] /\ UNCHANGED tableVars
    /\ UNCHANGED <<cacheVars, proc, creditVars>>

-----------------------------------------------------------------------------
(* After the transaction.                                                  *)

\* FindCommentByID, then recordHotScore, which throws the error of AddHotScore
\* away: the request goes on either way.
Load(c) ==
    /\ call[c].pc = "load"
    /\ \/ /\ hotScore' = hotScore + hotScoreCommentWeight * call[c].delta
          /\ UNCHANGED missed
       \/ /\ missed' = missed + call[c].delta
          /\ UNCHANGED hotScore
    /\ call' = [call EXCEPT ![c].pc = "sync"]
    /\ UNCHANGED <<tableVars, cacheVars, proc, told, untold>>

\* syncCommentCount: the count of this request's transaction goes to the JSON,
\* whatever has been committed since, or the write fails and nobody minds; the
\* counter hash is left alone.
Sync(c) ==
    /\ call[c].pc = "sync"
    /\ json' \in {json, Shows(call[c].count)}
    /\ call' = [call EXCEPT ![c] = IF call[c].delta > 0 THEN [@ EXCEPT !.pc = "notify"] ELSE Over]
    /\ UNCHANGED <<tableVars, base, proc, creditVars>>

\* Mutant of Tells: authors get messages about their own comments.
TellsAnyone(i) == TRUE

\* The author is told of the comments of others.
Tells(i) == comments[i].user # Author

\* Create of a message: an event id has one, and a second returns the first.
WithMessage(i) == told \cup {i}

\* notifyComment: the event id is that of the comment.  GetVideoAuthorID, which
\* finds published videos only, may fail and the write of the message too; the
\* request succeeds all the same.
Notify(c) ==
    /\ call[c].pc = "notify"
    /\ LET i == call[c].id IN
       \/ Tells(i) /\ published /\ told' = WithMessage(i) /\ UNCHANGED untold
       \/ Tells(i) /\ untold' = untold \cup {i} /\ UNCHANGED told
       \/ ~Tells(i) /\ UNCHANGED <<told, untold>>
    /\ call' = [call EXCEPT ![c] = Over]
    /\ UNCHANGED <<tableVars, cacheVars, proc, hotScore, missed>>

\* A request that has made a comment of which the author is still to be told.
ToTell(c) ==
    /\ call[c].pc \in {"load", "sync", "notify"}
    /\ call[c].delta = 1
    /\ Tells(call[c].id)

\* A database error, or the process dies, between two calls: what was still to
\* be credited or told is lost.
Abort(c) ==
    /\ call[c] \notin {Ready, Over}
    /\ missed' = IF call[c].pc = "load" THEN missed + call[c].delta ELSE missed
    /\ untold' = IF ToTell(c) THEN untold \cup {call[c].id} ELSE untold
    /\ call' = [call EXCEPT ![c] = Over]
    /\ UNCHANGED <<tableVars, cacheVars, proc, hotScore, told>>

-----------------------------------------------------------------------------
(* The count on its way to the feed: getStats, and a like's actionStat.    *)

\* A like reads MySQL: GetVideoStat.
Like(l) ==
    /\ proc[l].pc = "idle"
    /\ published
    /\ proc' = [proc EXCEPT ![l] = [pc |-> "script", count |-> commentCount]]
    /\ UNCHANGED <<tableVars, cacheVars, call, creditVars>>

\* The script sets comment_count when the hash has none, and never again.
Script(l) ==
    /\ proc[l].pc = "script"
    /\ base' = IF base.live THEN base ELSE Shows(proc[l].count)
    /\ proc' = [proc EXCEPT ![l].pc = "base"]
    /\ UNCHANGED <<tableVars, json, call, creditVars>>

\* A feed request finds no JSON.
Miss(r) ==
    /\ proc[r].pc = "idle"
    /\ ~json.live
    /\ proc' = [proc EXCEPT ![r].pc = "base"]
    /\ UNCHANGED <<tableVars, cacheVars, call, creditVars>>

ReadBase(p) ==
    /\ proc[p].pc = "base"
    /\ proc' = [proc EXCEPT ![p] = IF base.live THEN [pc |-> "store", count |-> base.count]
                                   ELSE [@ EXCEPT !.pc = "fallback"]]
    /\ UNCHANGED <<tableVars, cacheVars, call, creditVars>>

\* actionStatFallback.
FallBack(p) ==
    /\ proc[p].pc = "fallback"
    /\ proc' = [proc EXCEPT ![p] =
                  IF json.live THEN [pc |-> "store", count |-> json.count]
                  ELSE [@ EXCEPT !.pc = IF p \in Likers THEN "store" ELSE "query"]]
    /\ UNCHANGED <<tableVars, cacheVars, call, creditVars>>

\* BatchGetFeedStats.
Query(r) ==
    /\ proc[r].pc = "query"
    /\ proc' = [proc EXCEPT ![r] = [pc |-> "store", count |-> commentCount]]
    /\ UNCHANGED <<tableVars, cacheVars, call, creditVars>>

\* setActionStatJSON; its error is ignored.
Store(p) ==
    /\ proc[p].pc = "store"
    /\ json' \in {json, Shows(proc[p].count)}
    /\ proc' = [proc EXCEPT ![p] = IF p \in Likers THEN Finished ELSE Free]
    /\ UNCHANGED <<tableVars, base, call, creditVars>>

\* Mutant of ExpireJSON: the JSON is written without a TTL.
ExpireJSONNever == FALSE

\* 15 seconds.
ExpireJSON ==
    /\ json.live
    /\ json' = Gone
    /\ UNCHANGED <<tableVars, base, call, proc, creditVars>>

\* 24 hours without a like, or an eviction.
ExpireBase ==
    /\ base.live
    /\ base' = Gone
    /\ UNCHANGED <<tableVars, json, call, proc, creditVars>>

\* The author deletes the video.
Unpublish ==
    /\ published
    /\ published' = FALSE
    /\ UNCHANGED <<comments, commentCount, cacheVars, call, proc, creditVars>>

-----------------------------------------------------------------------------
Request(c) ==
    \/ Find(c) \/ Insert(c) \/ Existing(c) \/ Remove(c)
    \/ Load(c) \/ Sync(c) \/ Notify(c)

Display(p) == ReadBase(p) \/ FallBack(p) \/ Query(p) \/ Store(p)

Next ==
    \/ \E c \in Calls, u \in Users : \E key \in Keys \cup {NoKey} : Create(c, u, key)
    \/ \E c \in Calls, u \in Users, i \in 1..MaxComments : Delete(c, u, i)
    \/ \E c \in Calls : Request(c) \/ Abort(c)
    \/ \E l \in Likers : Like(l) \/ Script(l)
    \/ \E r \in Readers : Miss(r)
    \/ \E p \in Procs : Display(p)
    \/ ExpireJSON \/ ExpireBase \/ Unpublish

Spec == Init /\ [][Next]_vars

\* The JSON expires while nobody is about to write back what it said.
Lapse == ExpireJSON /\ \A p \in Procs : proc[p].pc # "store"

\* Requests run on, and the JSON expires after 15 seconds; not every time just
\* when a feed request that has read it is about to write it back (requests
\* take milliseconds).  Nothing is assumed of the counter hash: each like gives
\* it another 24 hours.
FairSpec ==
    /\ Spec
    /\ WF_vars(\E c \in Calls : Request(c))
    /\ \A l \in Likers : WF_vars(Script(l))
    /\ \A p \in Procs : WF_vars(Display(p))
    /\ SF_vars(Lapse)

-----------------------------------------------------------------------------
(* Properties.                                                             *)

\* The counter of video_stat is the number of comments that are not deleted,
\* however creations, their retries and concurrent deletions interleave.
CountIsLiveComments == commentCount = Cardinality(LiveComments)

\* A retried creation makes no second comment, even when the retry and the
\* first attempt are both past the lookup (CreateComment looks before it
\* inserts; the unique index decides).
OneCommentPerKey ==
    \A i, j \in DOMAIN comments :
        comments[i].key # NoKey /\ comments[i].key = comments[j].key
            /\ comments[i].user = comments[j].user => i = j

\* No request is under way.
Quiet == \A c \in Calls : call[c] \in {Ready, Over}

\* Then the hot ranking has been credited with the comments that are left, but
\* for the credits that failed or were never tried: neither a duplicate creation
\* nor a second deletion counts, and a failure costs no more than its own
\* request's credit.
QuietHotScore ==
    Quiet => hotScore = hotScoreCommentWeight * (Cardinality(LiveComments) - missed)

\* Then each comment of another user has its message or its one failed attempt,
\* and not both; no comment of the author has either.
QuietTold ==
    Quiet => /\ told \cup untold = {i \in DOMAIN comments : comments[i].user # Author}
             /\ told \cap untold = {}

\* Counts written to the JSON out of order are corrected: without a counter hash
\* it shows the counter of MySQL in the end, whenever it shows anything.
JSONConverges == <>[](json.live /\ ~base.live => json.count = commentCount)
=============================================================================
