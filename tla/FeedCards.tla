----------------------------- MODULE FeedCards -----------------------------
(***************************************************************************)
(* Deleting a video while its card is cached.  A feed page may name videos *)
(* that are deleted by now (page cache, inboxes and hot windows keep their *)
(* ids), so assembleFeedItems takes out the ids in the set of delete       *)
(* markers, takes cards from Redis, reads the missing ones from MySQL and  *)
(* stores them.  A card read before the deletion may be stored after it;   *)
(* the marker has to outlive every such card.  Cards also hold the         *)
(* author's profile, and a change of it leaves the cached cards alone.     *)
(*                                                                         *)
(* Time is counted in ticks, and all times are relative: how many ticks a  *)
(* key has left, how many a request has run, how many ago MySQL ceased to  *)
(* hold what a copy of a card says.  Counters of likes and comments, which *)
(* the same requests read, are in StatCounter and Comments.                *)
(***************************************************************************)
EXTENDS Integers, FiniteSets

CONSTANTS
    Videos,     \* videos, published at first
    Requests,   \* feed requests and jobs of the fan-out worker, any number each
    Deletes,    \* requests to delete a video
    VideoOf,    \* the video each of them names
    CardTTL,    \* feedCardCacheTTL: 15 minutes
    MarkerTTL,  \* deletedVideoMarkerTTL: 30 minutes
    MaxRun      \* bound on the time a request takes

VARIABLES
    deleted,  \* video.status = deleted
    card,     \* feed:card:v1:{video}: ticks left, 0 when there is none
    marker,   \* video:deleted:v1: one set for all videos, with one expiry
    req,      \* the locals of each request
    del,      \* the locals of each deletion
    marked    \* videos whose marker was written with its expiry (history)

vars == <<deleted, card, marker, req, del, marked>>

\* Card and marker live 15 and 30 minutes, so that a request may take 15.
ASSUME FeedCardsAssumption ==
    /\ CardTTL \in Nat \ {0} /\ MarkerTTL \in Nat /\ MaxRun \in Nat \ {0}
    /\ CardTTL + MaxRun <= MarkerTTL
    /\ VideoOf \in [Deletes -> Videos]

\* A copy of a card is known by how wrong it is: 0 while MySQL holds the same,
\* n + 1 when it ceased to n ticks ago, counted up to one past Horizon.
Horizon == CardTTL + 2 * MaxRun
Wrong == 0 .. Horizon + 1
NoCopy == -1
Spoiled(w) == IF w = 0 THEN 1 ELSE w
Older(w) == IF w \in 1..Horizon THEN w + 1 ELSE w

NoCard == [left |-> 0, wrong |-> 0]
\* A set to which SADD was applied but not EXPIRE may stay for ever.
Forever == MarkerTTL + 1

NoCopies == [v \in Videos |-> NoCopy]
Idle == [pc |-> "idle", age |-> 0, ids |-> {}, due |-> {}, held |-> NoCopies, loaded |-> {}]
Running(r) == req[r].pc # "idle"

TypeOK ==
    /\ deleted \in SUBSET Videos
    /\ card \in [Videos -> [left : 0..CardTTL, wrong : Wrong]]
    /\ marker \in [members : SUBSET Videos, left : 0..Forever]
    /\ req \in [Requests -> [pc : {"idle", "filter", "cached", "load", "store", "answer", "preheat",
                                   "keep"},
                             age : 0..MaxRun, ids : SUBSET Videos, due : SUBSET Videos,
                             held : [Videos -> Wrong \cup {NoCopy}], loaded : SUBSET Videos]]
    /\ del \in [Deletes -> {"ready", "update", "mark", "over"}]
    /\ marked \in SUBSET Videos

Init ==
    /\ deleted = {}
    /\ card = [v \in Videos |-> NoCard]
    /\ marker = [members |-> {}, left |-> 0]
    /\ req = [r \in Requests |-> Idle]
    /\ del = [d \in Deletes |-> "ready"]
    /\ marked = {}

-----------------------------------------------------------------------------
(* Time.                                                                   *)

\* Mutant of Aged: a card is stored without an expiry.
AgedNever(c) == IF c.left = 0 THEN NoCard ELSE [c EXCEPT !.wrong = Older(@)]

\* A key comes closer to its expiry, and is gone then.
Aged(c) == IF c.left <= 1 THEN NoCard ELSE [left |-> c.left - 1, wrong |-> Older(c.wrong)]

\* A tick passes everywhere: keys come closer to their expiry, and no request
\* runs longer than MaxRun.
Tick ==
    /\ \A r \in Requests : Running(r) => req[r].age < MaxRun
    /\ card' = [v \in Videos |-> Aged(card[v])]
    /\ marker' = CASE marker.left \in {0, Forever} -> marker
                   [] marker.left = 1 -> [members |-> {}, left |-> 0]
                   [] OTHER -> [marker EXCEPT !.left = @ - 1]
    /\ req' = [r \in Requests |->
                IF Running(r)
                  THEN [req[r] EXCEPT !.age = @ + 1,
                                      !.held = [v \in Videos |-> Older(@[v])]]
                  ELSE req[r]]
    /\ UNCHANGED <<deleted, del, marked>>

\* MySQL changes: what the copies of these videos' cards say is no longer so.
Spoil(S) ==
    /\ card' = [v \in Videos |->
                 IF v \in S /\ card[v].left > 0 THEN [card[v] EXCEPT !.wrong = Spoiled(@)]
                                                ELSE card[v]]
    /\ req' = [r \in Requests |->
                IF Running(r)
                  THEN [req[r] EXCEPT !.held = [v \in Videos |-> IF v \in S THEN Spoiled(@[v])
                                                                            ELSE @[v]]]
                  ELSE req[r]]

-----------------------------------------------------------------------------
(* Changes of the account and of the video.                                *)

\* The author's nickname or picture changes; no card is touched.
UpdateProfile ==
    /\ Spoil(Videos)
    /\ UNCHANGED <<deleted, marker, del, marked>>

\* Delete reads the row.  Of a video deleted already it answers at once and
\* writes no marker, also when the first deletion could not.
Find(d) ==
    /\ del[d] = "ready"
    /\ del' = [del EXCEPT ![d] = IF VideoOf[d] \in deleted THEN "over" ELSE "update"]
    /\ UNCHANGED <<deleted, card, marker, req, marked>>

UpdateStatus(d) ==
    /\ del[d] = "update"
    /\ deleted' = deleted \cup {VideoOf[d]}
    /\ Spoil({VideoOf[d]} \ deleted)
    /\ del' = [del EXCEPT ![d] = "mark"]
    /\ UNCHANGED <<marker, marked>>

\* Mutant of MarkerFrom: the marker lives no longer than a card.
MarkerFromShort(members) == [members |-> members, left |-> CardTTL]

\* SADD and EXPIRE: the markers of all videos get a new expiry together.
MarkerFrom(members) == [members |-> members, left |-> MarkerTTL]

MarkVideoDeleted(d) ==
    /\ del[d] = "mark"
    /\ marker' = MarkerFrom(marker.members \cup {VideoOf[d]})
    /\ marked' = marked \cup {VideoOf[d]}
    /\ del' = [del EXCEPT ![d] = "over"]
    /\ UNCHANGED <<deleted, card, req>>

\* Redis stops between the two commands of the pipeline.
MarkPartly(d) ==
    /\ del[d] = "mark"
    /\ marker' = [members |-> marker.members \cup {VideoOf[d]},
                  left |-> IF marker.left = 0 THEN Forever ELSE marker.left]
    /\ del' = [del EXCEPT ![d] = "over"]
    /\ UNCHANGED <<deleted, card, req, marked>>

\* A statement fails or the process dies; a failing marker is ignored.
DeleteEnds(d) ==
    /\ del[d] \in {"update", "mark"}
    /\ del' = [del EXCEPT ![d] = "over"]
    /\ UNCHANGED <<deleted, card, marker, req, marked>>

-----------------------------------------------------------------------------
(* assembleFeedItems, over a page that may name any videos.                *)

Begin(r, ids) ==
    /\ ~Running(r)
    /\ ids # {}
    /\ req' = [req EXCEPT ![r] = [Idle EXCEPT !.pc = "filter", !.ids = ids, !.due = marked \cap ids]]
    /\ UNCHANGED <<deleted, card, marker, del, marked>>

\* FilterDeletedVideos and excludePageItems.
Kept(ids) == ids \ marker.members

Filter(r) ==
    /\ req[r].pc = "filter"
    /\ req' = [req EXCEPT ![r].ids = Kept(@),
                          ![r].pc = IF Kept(req[r].ids) = {} THEN "answer" ELSE "cached"]
    /\ UNCHANGED <<deleted, card, marker, del, marked>>

\* The markers cannot be read: the page is not filtered.
FilterFails(r) ==
    /\ req[r].pc = "filter"
    /\ req' = [req EXCEPT ![r].pc = "cached", ![r].due = {}]
    /\ UNCHANGED <<deleted, card, marker, del, marked>>

Missing(r) == {v \in req[r].ids : req[r].held[v] = NoCopy}

\* GetCards; with missing cards, or when Redis cannot be read, MySQL is next.
GetCards(r) ==
    /\ req[r].pc = "cached"
    /\ LET hits == {v \in req[r].ids : card[v].left > 0}
       IN  req' = [req EXCEPT
                    ![r].held = [v \in Videos |-> IF v \in hits THEN card[v].wrong ELSE NoCopy],
                    ![r].pc = IF hits = req[r].ids THEN "answer" ELSE "load"]
    /\ UNCHANGED <<deleted, card, marker, del, marked>>

GetCardsFails(r) ==
    /\ req[r].pc = "cached"
    /\ req' = [req EXCEPT ![r].pc = "load"]
    /\ UNCHANGED <<deleted, card, marker, del, marked>>

\* BatchGetFeedCards reads published videos only.
Read(ids) == ids \ deleted

Loaded(r, next) ==
    LET found == Read(Missing(r))
    IN  req' = [req EXCEPT ![r].held = [v \in Videos |-> IF v \in found THEN 0 ELSE @[v]],
                           ![r].loaded = found,
                           ![r].pc = next]

\* The cards that were not in Redis.
BatchGetFeedCards(r) ==
    /\ req[r].pc = "load"
    /\ Loaded(r, "store")
    /\ UNCHANGED <<deleted, card, marker, del, marked>>

\* Only what was read from MySQL.
Storable(r) == req[r].loaded

Store(r, S) ==
    card' = [v \in Videos |-> IF v \in S THEN [left |-> CardTTL, wrong |-> req[r].held[v]]
                                         ELSE card[v]]

\* SetCards; errors are ignored, and a pipeline may have set some of the keys.
SetCards(r) ==
    /\ req[r].pc = "store"
    /\ \E S \in SUBSET Storable(r) : Store(r, S)
    /\ req' = [req EXCEPT ![r].pc = "answer", ![r].loaded = {}]
    /\ UNCHANGED <<deleted, marker, del, marked>>

\* What is shown: the items of the page that have a card.
Items(r) == {v \in req[r].ids : req[r].held[v] # NoCopy}

Answer(r) ==
    /\ req[r].pc = "answer"
    /\ req' = [req EXCEPT ![r] = Idle]
    /\ UNCHANGED <<deleted, card, marker, del, marked>>

\* The fan-out worker puts the card of a video whose publication event it has.
\* A redelivered event may be old, and the video deleted.
Preheat(r, v) ==
    /\ ~Running(r)
    /\ req' = [req EXCEPT ![r] = [Idle EXCEPT !.pc = "preheat", !.ids = {v}]]
    /\ UNCHANGED <<deleted, card, marker, del, marked>>

PreheatRead(r) ==
    /\ req[r].pc = "preheat"
    /\ Loaded(r, "keep")
    /\ UNCHANGED <<deleted, card, marker, del, marked>>

PreheatStore(r) ==
    /\ req[r].pc = "keep"
    /\ Store(r, req[r].loaded)
    /\ req' = [req EXCEPT ![r] = Idle]
    /\ UNCHANGED <<deleted, marker, del, marked>>

\* A statement fails, the client leaves or the process dies.
Fails(r) ==
    /\ Running(r)
    /\ req' = [req EXCEPT ![r] = Idle]
    /\ UNCHANGED <<deleted, card, marker, del, marked>>

-----------------------------------------------------------------------------
Next ==
    \/ Tick
    \/ UpdateProfile
    \/ \E d \in Deletes :
        \/ Find(d)
        \/ UpdateStatus(d)
        \/ MarkVideoDeleted(d)
        \/ MarkPartly(d)
        \/ DeleteEnds(d)
    \/ \E r \in Requests :
        \/ \E ids \in SUBSET Videos : Begin(r, ids)
        \/ Filter(r)
        \/ FilterFails(r)
        \/ GetCards(r)
        \/ GetCardsFails(r)
        \/ BatchGetFeedCards(r)
        \/ SetCards(r)
        \/ Answer(r)
        \/ \E v \in Videos : Preheat(r, v)
        \/ PreheatRead(r)
        \/ PreheatStore(r)
        \/ Fails(r)

Spec == Init /\ [][Next]_vars

-----------------------------------------------------------------------------
(* Properties.                                                             *)

\* A feed request that begins after a video was deleted and marked never shows
\* it, not even when a card of it, read before the deletion, is stored after
\* the marker or the marker has expired meanwhile; unless it could not read the
\* markers.
DeletedHidden ==
    \A r \in Requests : req[r].pc = "answer" => req[r].due \cap Items(r) = {}

\* With or without a marker, what a feed shows was true in MySQL at most the
\* life of a card and two requests ago: a card is not handed on from answer to
\* cache to answer.
NotStale ==
    \A r \in Requests : req[r].pc = "answer" =>
        \A v \in Items(r) : req[r].held[v] <= Horizon
=============================================================================
