---------------------------- MODULE ActionStore ----------------------------
(***************************************************************************)
(* The MySQL side of likes and favourites: the interaction_action rows of  *)
(* one (video, type) and the counter of video_stat.  SetAction runs in one *)
(* transaction that first locks the video row FOR UPDATE, so transactions  *)
(* on a video are serial and each is one step.  Used alone, this is the    *)
(* deployment without Redis or RabbitMQ, where every request is written    *)
(* synchronously (setActionSync).                                          *)
(***************************************************************************)
EXTENDS Interaction

CONSTANTS
    InitiallyLiked,  \* users whose active row is older than this behaviour
    MaxClock         \* bound on the clock

VARIABLES
    rows,       \* interaction_action, by user
    likeCount,  \* video_stat.like_count
    published,  \* video.status = Published
    clock       \* time.Now(), as OccurredAt and gorm's autoUpdateTime see it

storeVars == <<rows, likeCount, published, clock>>

ASSUME StoreAssumption == InitiallyLiked \subseteq Users /\ MaxClock \in Nat

Row == [status : Statuses, key : Keys \cup {NoKey}, updatedAt : Nat]

\* No row: GetLastActionUpdateTime returns the zero time.
NoRow == [status |-> Absent, key |-> NoKey, updatedAt |-> 0]

ActiveUsers == {u \in Users : rows[u].status = Active}

StoreTypeOK ==
    /\ rows \in [Users -> Row]
    /\ likeCount \in Nat
    /\ published \in BOOLEAN
    /\ clock \in Nat

StoreInit ==
    /\ rows = [u \in Users |->
                 IF u \in InitiallyLiked THEN [NoRow EXCEPT !.status = Active]
                                         ELSE NoRow]
    /\ likeCount = Cardinality(InitiallyLiked)
    /\ published = TRUE
    /\ clock = 1

-----------------------------------------------------------------------------
(* One SetAction transaction, from the row it locks.                       *)

\* The key of the row's last saved write came again.
Replayed(row, key) == key # NoKey /\ row.key = key

\* Mutant of RowDelta: a like of a row that is active counts again.
RowDeltaRepeats(row, active, key) ==
    IF row.status = Absent THEN (IF active THEN 1 ELSE 0)
    ELSE IF Replayed(row, key) THEN 0
    ELSE IF active THEN 1 ELSE IF row.status = Active THEN -1 ELSE 0

\* Mutant of RowDelta: the row a first cancellation creates counts as well.
RowDeltaAnyCreation(row, active, key) ==
    IF row.status = Absent THEN 1
    ELSE IF Replayed(row, key) \/ row.status = StatusOf(active) THEN 0
    ELSE IF active THEN 1 ELSE -1

\* What the transaction adds to the counter.
RowDelta(row, active, key) ==
    IF row.status = Absent THEN (IF active THEN 1 ELSE 0)
    ELSE IF Replayed(row, key) \/ row.status = StatusOf(active) THEN 0
    ELSE IF active THEN 1 ELSE -1

\* The row is created, or saved when its status or its key changes; only then
\* does gorm move updated_at.
Saved(row, active, key) ==
    \/ row.status = Absent
    \/ ~Replayed(row, key) /\ (row.status # StatusOf(active) \/ row.key # key)

RowAfter(row, active, key, now) ==
    IF Saved(row, active, key)
      THEN [status |-> StatusOf(active), key |-> key, updatedAt |-> now]
      ELSE row

SetAction(u, active, key) ==
    /\ published
    /\ rows' = [rows EXCEPT ![u] = RowAfter(@, active, key, clock)]
    /\ likeCount' = Clamp(likeCount + RowDelta(rows[u], active, key))
    /\ UNCHANGED <<published, clock>>

\* The author deletes the video: lockPublishedVideo no longer finds it.
Unpublish ==
    /\ published
    /\ published' = FALSE
    /\ UNCHANGED <<rows, likeCount, clock>>

Tick ==
    /\ clock < MaxClock
    /\ clock' = clock + 1
    /\ UNCHANGED <<rows, likeCount, published>>

StoreNext ==
    \/ \E u \in Users, active \in BOOLEAN : \E key \in KeysFor(active, {}) :
           SetAction(u, active, key)
    \/ Unpublish
    \/ Tick

StoreSpec == StoreInit /\ [][StoreNext]_storeVars

-----------------------------------------------------------------------------
(* The counter of video_stat is the number of users whose row is active,   *)
(* whatever the order of likes, cancellations and retries: the clamp at    *)
(* zero never hides a lost or a doubled delta.                             *)
CountIsActiveRows == likeCount = Cardinality(ActiveUsers)

\* What the fact table promises to everything that reads it.
Facts == INSTANCE ActionFacts WITH liked <- ActiveUsers, count <- likeCount
ImplementsFacts == Facts!Spec
=============================================================================
