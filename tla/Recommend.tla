----------------------------- MODULE Recommend -----------------------------
(***************************************************************************)
(* The recommendation of one user: three recall routes run side by side,   *)
(* each with a timeout, and send their candidates to a channel; what came  *)
(* in time is merged into a pool without the videos the user was recently  *)
(* shown, ranked, and paged through with a cursor.  Meanwhile videos are   *)
(* published and deleted, and the user's views are recorded.               *)
(***************************************************************************)
EXTENDS Integers, FiniteSets, FiniteSetsExt

CONSTANTS
    Videos,         \* ids, in the order of publication
    Hot,            \* the hot score of each video
    Sim,            \* the similarity of each video to the user's vector
    Embedded,       \* the videos that have an embedding
    Followed,       \* the videos of authors the user follows
    Limit,          \* the page size
    PoolLimit,      \* candidatePoolLimit
    Quota,          \* the pool's places for the following route
    RouteTime,      \* recallPerRouteTimeout, in ticks of 500 ms: 1
    WaitTime,       \* the wait for all routes: 2
    CollectTime,    \* the wait for each missing result: 1
    Tolerance,      \* of the cursor: scores that differ by less are the same to it
    LastMinute,     \* bound on the minutes that pass
    MaxClimbs,      \* bound on the pages that take a near tie from above the cursor
    MaxChanges      \* bound on the changes of videos and views

Routes == {"vector", "following", "hot"}

ASSUME RecommendAssumption ==
    /\ Videos \subseteq Nat \ {0} /\ IsFiniteSet(Videos)
    /\ Hot \in [Videos -> Nat] /\ Sim \in [Videos -> Nat]
    /\ Embedded \subseteq Videos /\ Followed \subseteq Videos
    /\ Limit \in Nat \ {0} /\ Quota \in 1..PoolLimit
    /\ {RouteTime, WaitTime, LastMinute, MaxClimbs, MaxChanges} \subseteq Nat
    /\ Tolerance \in Nat \ {0}
    /\ RouteTime <= WaitTime
    /\ CollectTime \in Nat \ {0}  \* 0: a result that is there may lose against time.After

VARIABLES
    published,  \* MySQL: the videos that may be recommended
    exposed,    \* MySQL exposures: what the user was shown in the last 7 days
    watched,    \* MySQL video_view_events: the user watched an embedded video
    minute,     \* the clock of scores, truncated to the minute
    changes,
    ask,        \* the locals of Recommend
    route,      \* the goroutine of each route
    reading     \* the client: its cursor, and (history) the pages that climbed and the
                \* score below which each video it was shown may come back

vars == <<published, exposed, watched, minute, changes, ask, route, reading>>

NoCursor == [score |-> 0, id |-> 0]

NoAsk == [pc |-> "idle", age |-> 0, waited |-> 0, vector |-> FALSE, got |-> {},
          onTime |-> {}, late |-> FALSE, before |-> {}, pool |-> {}]
Off == [pc |-> "off", found |-> {}]
Nothing == [v \in {} |-> 0]

Init ==
    /\ published \in SUBSET Videos
    /\ exposed = {} /\ watched \in BOOLEAN /\ minute = 0 /\ changes = 0
    /\ ask = NoAsk /\ route = [r \in Routes |-> Off]
    /\ reading = [cursor |-> NoCursor, climbs |-> 0, shown |-> Nothing]

-----------------------------------------------------------------------------
(* The rest of the system.                                                 *)

Changes ==
    /\ changes < MaxChanges
    /\ changes' = changes + 1
    /\ UNCHANGED <<minute, ask, route, reading>>

Publish(v) == published' = published \cup {v} /\ Changes /\ UNCHANGED <<exposed, watched>>

Delete(v) == published' = published \ {v} /\ Changes /\ UNCHANGED <<exposed, watched>>

\* RecordViewEvent of type exposed: the event and the exposure, in a transaction.
RecordExposed(v) ==
    /\ v \in published
    /\ exposed' = exposed \cup {v}
    /\ Changes
    /\ UNCHANGED <<published, watched>>

\* SaveExposures: one transaction for all, which a video not published rolls back.
SaveExposures(S) ==
    /\ S # {} /\ S \subseteq published
    /\ exposed' = exposed \cup S
    /\ Changes
    /\ UNCHANGED <<published, watched>>

\* RecordViewEvent of type play or complete: only embedded videos make a vector.
RecordPlay(v) ==
    /\ v \in published
    /\ watched' = (watched \/ v \in Embedded)
    /\ Changes
    /\ UNCHANGED <<published, exposed>>

NextMinute ==
    /\ minute < LastMinute
    /\ minute' = minute + 1
    /\ UNCHANGED <<published, exposed, watched, changes, ask, route, reading>>

-----------------------------------------------------------------------------
(* Recall.                                                                 *)

Rest == UNCHANGED <<published, exposed, watched, minute, changes>>

\* LoadUserInterestVector: there is one once an embedded video was played.
UserVector == watched

\* Recommend: the user's vector is read, and a goroutine started for each route.
Ask ==
    /\ ask.pc = "idle"
    /\ ask' = [NoAsk EXCEPT !.pc = "wait", !.vector = UserVector, !.before = exposed]
    /\ route' = [r \in Routes |-> [Off EXCEPT !.pc = "running"]]
    /\ UNCHANGED reading
    /\ Rest

\* The first n of S, in the order of the function f and then newest first.
FirstBy(S, f, n) ==
    {v \in S : Cardinality({u \in S : f[u] > f[v] \/ (f[u] = f[v] /\ u > v)}) < n}

Newest == [v \in Videos |-> v]

\* What a route finds; the vector route searches Milvus, and drops what MySQL
\* does not show as published.
Recall(r) ==
    CASE r = "hot"       -> FirstBy(published, Hot, PoolLimit)
      [] r = "following" -> FirstBy(published \cap Followed, Newest, PoolLimit)
      [] r = "vector"    -> IF ask.vector THEN FirstBy(Embedded, Sim, 3 * PoolLimit) \cap published
                                          ELSE {}

Waiting == {r \in Routes : route[r].pc = "sent"}

\* Mutant of Capacity: the channel holds one result.
CapacityOne == 1

Capacity == Cardinality(Routes)

\* A route has its candidates, and sends them unless the channel is full.
Send(r) ==
    /\ route[r].pc = "running"
    /\ LET room == Cardinality(Waiting) < Capacity
       IN  route' = [route EXCEPT ![r] = IF room THEN [pc |-> "sent", found |-> Recall(r)]
                                                 ELSE [Off EXCEPT !.pc = "failed"]]
    /\ ask' = IF ask.pc = "wait" THEN [ask EXCEPT !.onTime = @ \cup {r}] ELSE ask
    /\ UNCHANGED reading
    /\ Rest

\* Its queries fail, or its timeout ends them.
RouteFails(r) ==
    /\ route[r].pc = "running"
    /\ route' = [route EXCEPT ![r] = [Off EXCEPT !.pc = "failed"]]
    /\ UNCHANGED <<ask, reading>>
    /\ Rest

AllReturned == \A r \in Routes : route[r].pc # "running"

\* Mutant of WaitOver: there is no time.After beside the done channel.
WaitOverDone(a) == AllReturned

WaitOver(a) == AllReturned \/ a.waited = WaitTime

\* 500 ms pass; a select that can proceed does so without a delay.
Tick ==
    /\ \/ ask.pc = "wait" /\ ~WaitOver(ask)
       \/ ask.pc = "collect" /\ Waiting = {} /\ ask.waited < CollectTime
    /\ ask' = [ask EXCEPT !.age = @ + 1, !.waited = @ + 1,
                          !.late = @ \/ (ask.age >= RouteTime /\ ~AllReturned)]
    /\ UNCHANGED <<route, reading>>
    /\ Rest

EndWait ==
    /\ ask.pc = "wait" /\ WaitOver(ask)
    /\ ask' = [ask EXCEPT !.pc = "collect", !.waited = 0]
    /\ UNCHANGED <<route, reading>>
    /\ Rest

\* What the rest of the request needs of the collected results G; a route that
\* still runs sends to a channel that nobody reads.
Collected(G) ==
    /\ ask' = [ask EXCEPT !.pc = "exclude", !.got = G, !.age = 0, !.waited = 0, !.late = FALSE]
    /\ route' = [r \in Routes |-> IF r \in G THEN [route[r] EXCEPT !.pc = "received"] ELSE Off]

\* The loop takes one result for each route there is, however many will come.
Receive(r) ==
    /\ ask.pc = "collect" /\ route[r].pc = "sent"
    /\ LET G == ask.got \cup {r}
       IN  IF G = Routes THEN Collected(G)
           ELSE /\ ask' = [ask EXCEPT !.got = G, !.waited = 0]
                /\ route' = [route EXCEPT ![r].pc = "received"]
    /\ UNCHANGED reading
    /\ Rest

GiveUp ==
    /\ ask.pc = "collect" /\ ask.waited = CollectTime
    /\ Collected(ask.got)
    /\ UNCHANGED reading
    /\ Rest

-----------------------------------------------------------------------------
(* Merge, rank and page.                                                   *)

FoundBy(r) == IF r \in ask.got THEN route[r].found ELSE {}

\* A video that several routes found is of the first of them in this order.
Source(v) ==
    IF v \in FoundBy("vector") THEN "vector"
    ELSE IF v \in FoundBy("following") THEN "following" ELSE "hot"

\* ListRecentExposures: the videos of S that the user was shown.
RecentlyExposed(S) == S \cap exposed

\* The pools that Merge may return.  It takes what there is room for, of each
\* source in turn, in the order of a Go map, which is any; and of following no
\* more than its quota, though the pool may not be full in the end.
Merges(pool) ==
    LET found == UNION {FoundBy(r) : r \in Routes}
        all == found \ RecentlyExposed(found)
        Has(s) == Cardinality({v \in all : Source(v) = s})
        In(s) == Cardinality({v \in pool : Source(v) = s})
        room == PoolLimit - In("following")
    IN  /\ pool \subseteq all
        /\ In("following") = Min({Has("following"), Quota})
        /\ In("vector") = Min({Has("vector"), room})
        /\ In("hot") = Min({Has("hot"), room - In("vector")})

\* The exposures are read, and the routes merged.
Exclude(pool) ==
    /\ ask.pc = "exclude" /\ Merges(pool)
    /\ ask' = [ask EXCEPT !.pc = "rank", !.pool = pool, !.onTime = {}]
    /\ UNCHANGED <<route, reading>>
    /\ Rest

\* LoadVideoVectors: the videos of S that have a vector.
Vectors(S) == S \cap Embedded

\* rankCandidates reads the user's vector again when recall had none.
HasVector == ask.vector \/ (UserVector /\ ask.pool # {})

Similarity(v) ==
    IF ask.vector THEN IF Source(v) = "vector" THEN Sim[v] ELSE 0
    ELSE IF HasVector /\ v \in Vectors(ask.pool) THEN Sim[v] ELSE 0

\* rankScore and freshnessScore; a video loses freshness with every minute, and
\* one of the following route has a boost.
Score(v) ==
    LET freshness == 8 * v - 2 * minute + IF Source(v) = "following" THEN 1 ELSE 0
    IN  IF HasVector THEN 70 * Similarity(v) + 20 * Hot[v] + 10 * freshness
                     ELSE 65 * Hot[v] + 35 * freshness

\* sameScore: of floats that differ by less than 1e-9.
SameScore(left, right) == left - right < Tolerance /\ right - left < Tolerance

\* Mutant of Behind: the video of the cursor comes again.
BehindOrAt(v, c) ==
    \/ c = NoCursor
    \/ Score(v) < c.score
    \/ SameScore(Score(v), c.score) /\ v <= c.id

\* filterByCursor: of the same score, what is older than the cursor's video; the
\* score of such a one may be the higher of the two.
Behind(v, c) ==
    \/ c = NoCursor
    \/ Score(v) < c.score
    \/ SameScore(Score(v), c.score) /\ v < c.id

\* The candidates are sorted by the scores as they are.
Page ==
    LET left == {v \in ask.pool : Behind(v, reading.cursor)}
    IN  FirstBy(left, [v \in left |-> Score(v)], Limit)

\* The page takes a video from above the cursor, for which the two scores are the
\* same.
Climbs == reading.cursor # NoCursor /\ \E v \in Page : Score(v) > reading.cursor.score

\* The score below which a video that was shown may come back, once the page is
\* taken: where the cursor climbs, that is by less than its tolerance.
Limited(v) == reading.shown[v] + IF Climbs THEN Tolerance ELSE 0

Answer ==
    /\ ask.pc = "rank"
    /\ LET last == CHOOSE v \in Page : \A u \in Page : Score(v) < Score(u) \/ (Score(v) = Score(u) /\ v <= u)
       IN  reading' = IF Page = {} THEN reading
                      ELSE [cursor |-> [score |-> Score(last), id |-> last],
                            climbs |-> reading.climbs + (IF Climbs THEN 1 ELSE 0),
                            shown |-> [v \in DOMAIN reading.shown \cup Page |->
                                         IF v \in Page THEN Score(v) ELSE Limited(v)]]
    /\ reading'.climbs <= MaxClimbs
    /\ ask' = NoAsk
    /\ route' = [r \in Routes |-> Off]
    /\ Rest

\* A read of MySQL fails, and the request with it.
AskFails ==
    /\ ask.pc \in {"exclude", "rank"}
    /\ ask' = NoAsk
    /\ route' = [r \in Routes |-> Off]
    /\ UNCHANGED reading
    /\ Rest

-----------------------------------------------------------------------------
Next ==
    \/ \E v \in Videos : Publish(v) \/ Delete(v) \/ RecordExposed(v) \/ RecordPlay(v)
    \/ \E S \in SUBSET Videos : SaveExposures(S)
    \/ NextMinute
    \/ Ask
    \/ \E r \in Routes : Send(r) \/ RouteFails(r) \/ Receive(r)
    \/ Tick
    \/ EndWait
    \/ GiveUp
    \/ \E pool \in SUBSET Videos : Exclude(pool)
    \/ Answer
    \/ AskFails

Spec == Init /\ [][Next]_vars

-----------------------------------------------------------------------------
(* Properties.                                                             *)

\* A route that fails, also at its timeout, delays the answer by no more than
\* the wait for one missing result; routes that overrun their timeout, by the
\* wait for all of them and one such wait for each.
AnswerBounded ==
    ask.pc \in {"wait", "collect"} =>
        ask.age <= IF ask.late THEN WaitTime + Cardinality(Routes) * CollectTime
                               ELSE RouteTime + CollectTime

\* The candidates of every route that had them before the wait was over are in
\* the merge, in whatever order and however late the others came.
OnTimeCounted == ask.pc = "exclude" => ask.onTime \subseteq ask.got

\* No page has a video whose exposure was saved before the request, and one
\* that this reading was shown already comes back only if its score has since
\* fallen (a minute passed, or the user's vector or a route came or went), or if
\* pages climbed since, this one or others, and then by less than the tolerance
\* for each of them.
OnlyNew ==
    [][Answer => \A v \in Page :
        /\ v \notin ask.before
        /\ v \in DOMAIN reading.shown => Score(v) < Limited(v)]_vars

\* The comment of rankCandidates: candidates of the vector route keep their
\* similarity, and those of other routes get theirs when the user has a vector.
SimilarityCounts ==
    [][Answer => \A v \in ask.pool :
        (HasVector /\ v \in Embedded) => Similarity(v) = Sim[v]]_vars
=============================================================================
