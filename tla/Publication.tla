---------------------------- MODULE Publication ----------------------------
(***************************************************************************)
(* CreatePublished of application/video/service.go: the lookup of the key, *)
(* the insertion under a unique index, and the publication event, whose    *)
(* loss nobody hears of.  A request is named by the number of the video it *)
(* would make; the numbers order the videos by published_at.  API          *)
(* instances have clocks of their own, so the requests may come in any     *)
(* order.                                                                  *)
(***************************************************************************)
EXTENDS Naturals, Sequences

CONSTANTS
    Videos,     \* numbers of videos
    AuthorOf,   \* the author of each
    UploadKeys, \* Idempotency-Key values of publications
    NoUploadKey \* the request has none

VARIABLES
    upload,     \* the locals of the request that makes a video
    saved,      \* the rows of table video
    events,     \* the queue gcfeed.video.published
    unsent      \* history: saved videos whose event was never sent

publicationVars == <<upload, saved, events, unsent>>

ASSUME PublicationAssumption == Videos \subseteq Nat /\ NoUploadKey \notin UploadKeys

Upload == [pc : {"ready", "find", "save", "load", "publish", "over"},
           key : UploadKeys \cup {NoUploadKey}]

PublicationInit ==
    /\ upload = [v \in Videos |-> [pc |-> "ready", key |-> NoUploadKey]]
    /\ saved = {}
    /\ events = <<>>
    /\ unsent = {}

UploadAt(v, pc) == upload' = [upload EXCEPT ![v].pc = pc]

\* The answer; the key stays with the row, if the request has made one.
UploadOver(v) ==
    upload' = [upload EXCEPT ![v] = [pc |-> "over",
                                     key |-> IF v \in saved THEN @.key ELSE NoUploadKey]]

\* The unique index (author_id, idempotency_key); NULL keys do not clash.
Clashes(v) ==
    /\ upload[v].key # NoUploadKey
    /\ \E w \in saved : AuthorOf[w] = AuthorOf[v] /\ upload[w].key = upload[v].key

-----------------------------------------------------------------------------
Create(v, key) ==
    /\ upload[v].pc = "ready"
    /\ upload' = [upload EXCEPT ![v] =
                    [pc |-> IF key = NoUploadKey THEN "save" ELSE "find", key |-> key]]
    /\ UNCHANGED <<saved, events, unsent>>

\* FindByAuthorAndIdempotencyKey: a hit is the answer, and nothing is published.
Find(v) ==
    /\ upload[v].pc = "find"
    /\ IF Clashes(v) THEN UploadOver(v) ELSE UploadAt(v, "save")
    /\ UNCHANGED <<saved, events, unsent>>

\* Mutant of Save: without the unique index.
SaveAgain(v) ==
    /\ upload[v].pc = "save"
    /\ saved' = saved \cup {v} /\ unsent' = unsent \cup {v} /\ UploadAt(v, "publish")
    /\ UNCHANGED events

\* Save: the row and its video_stat, or a duplicate key.
Save(v) ==
    /\ upload[v].pc = "save"
    /\ IF Clashes(v)
         THEN UploadAt(v, "load") /\ UNCHANGED <<saved, unsent>>
         ELSE saved' = saved \cup {v} /\ unsent' = unsent \cup {v} /\ UploadAt(v, "publish")
    /\ UNCHANGED events

\* The second lookup answers with the row of the other request.
Load(v) ==
    /\ upload[v].pc = "load"
    /\ UploadOver(v)
    /\ UNCHANGED <<saved, events, unsent>>

PublishEvent(v) ==
    /\ upload[v].pc = "publish"
    /\ events' = Append(events, v)
    /\ unsent' = unsent \ {v}
    /\ UploadOver(v)
    /\ UNCHANGED saved

\* The error of PublishVideoPublished is ignored; or the database fails, or the
\* process dies.
UploadEnds(v) ==
    /\ upload[v].pc \notin {"ready", "over"}
    /\ UploadOver(v)
    /\ UNCHANGED <<saved, events, unsent>>

UploadStep(v) == Find(v) \/ Save(v) \/ Load(v) \/ PublishEvent(v)

-----------------------------------------------------------------------------
\* A key makes one video of an author, however its requests race
\* (application/video/service.go:66, :82).
OneVideoPerKey ==
    \A v, w \in saved :
        AuthorOf[v] = AuthorOf[w] /\ upload[v].key = upload[w].key
            /\ upload[v].key # NoUploadKey => v = w
=============================================================================
