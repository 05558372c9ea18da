--------------------------- MODULE FollowingProofs ---------------------------
(***************************************************************************)
(* Proofs about Following, for any users, videos, requests and sizes: the  *)
(* statistics of user_relation_stat are exact, a key makes one video, and  *)
(* only a follow that took effect fills an inbox or is told of.  Then the  *)
(* types with the sizes of the sorted sets, that a page of the feed which  *)
(* is not full is the last one, and that in the end every follower has     *)
(* what is due.                                                            *)
(***************************************************************************)
EXTENDS Following, FiniteSetTheorems, NaturalsInduction, WellFoundedInduction, TLAPS

\* What the three arguments have in common.
Types ==
    /\ follow \in [Pairs -> Row]
    /\ stat \in [Users -> [following : Nat, followers : Nat]]
    /\ gen \in [Pairs -> Nat]
    /\ call \in [Calls -> Asked \cup Backfill \cup {Ready, Over}]
    /\ upload \in [Videos -> Upload]
    /\ saved \subseteq Videos
    /\ events \in Seq(Videos)
    /\ inbox \in [Users -> SUBSET Member]
    /\ worker \in Work \cup {Resting}
    /\ told \subseteq Pairs

-----------------------------------------------------------------------------
\* The pc of a request or of the worker tells the fields it has.
LEMMA CallShape ==
    ASSUME NEW x \in Asked \cup Backfill \cup {Ready, Over}
    PROVE  /\ x.pc \in {"user", "target", "write"} => x \in Asked
           /\ x.pc \in {"count", "videos", "push", "notify"} => x \in Backfill
BY DEF Asked, Backfill, Ready, Over

LEMMA WorkShape ==
    ASSUME NEW x \in Work \cup {Resting}
    PROVE  /\ x.pc \in {"count", "outbox"} => x \in [pc : {"count", "outbox"}, video : Videos]
           /\ x.pc = "list" => x \in [pc : {"list"}, video : Videos, cursor : Users \cup {0}]
           /\ x.pc = "push" => x \in [pc : {"push"}, video : Videos, page : SUBSET Users]
           /\ x # Resting => x.video \in Videos
BY DEF Work, Resting

\* An event put back into the queue leaves a queue.
LEMMA RequeuedLemma ==
    ASSUME NEW S, NEW q \in Seq(S), NEW v \in S, NEW i \in 1..(Len(q) + 1)
    PROVE  InsertAt(q, i, v) \in Seq(S)
<1>1. SubSeq(q, 1, i - 1) \in Seq(S)
  OBVIOUS
<1>2. SubSeq(q, i, Len(q)) \in Seq(S)
  OBVIOUS
<1> QED
  BY <1>1, <1>2 DEF InsertAt

\* Members of a trimmed sorted set were in it or are the one added.
LEMMA AddedLemma ==
    ASSUME NEW members, NEW m, NEW max
    PROVE  Added(members, m, max) \subseteq members \cup {m}
BY DEF Added, Newest

\* What a request does to its row: delta is the change of its activity, and
\* only a row that is active afterwards was activated or active before.
LEMMA WriteLemma ==
    ASSUME NEW row \in Row, NEW active \in BOOLEAN, NEW key \in Keys \cup {NoKey}
    PROVE  LET delta == Change(row, active, key)
               after == RowAfter(row, active, key)
           IN  /\ after \in Row
               /\ \/ delta = 1 /\ row.status # "active" /\ after.status = "active"
                  \/ delta = -1 /\ row.status = "active" /\ after.status # "active"
                  \/ delta = 0 /\ (row.status = "active" <=> after.status = "active")
<1>1. row = NoRow \/ row.status \in {"active", "canceled"}
  BY DEF Row
<1>2. CASE active = TRUE
  BY <1>1, <1>2 DEF Row, NoRow, Repeated, RowAfter, StatusOf, Change
<1>3. CASE active = FALSE
  BY <1>1, <1>3 DEF Row, NoRow, Repeated, RowAfter, StatusOf, Change
<1> QED
  BY <1>2, <1>3

-----------------------------------------------------------------------------
(* Types.                                                                  *)

LEMMA TypesInit == Init => Types
<1> SUFFICES ASSUME Init PROVE Types
  OBVIOUS
<1> USE DEF Init, FollowInit, PublicationInit
<1>1. follow \in [Pairs -> Row] /\ gen \in [Pairs -> Nat]
  BY DEF Row, NoRow
<1>2. stat \in [Users -> [following : Nat, followers : Nat]]
  <2> SUFFICES ASSUME NEW u \in Users
               PROVE  Cardinality(Followed(u)) \in Nat /\ Cardinality(Followers(u)) \in Nat
    OBVIOUS
  <2>1. Followed(u) \subseteq Users /\ Followers(u) \subseteq Users
    BY DEF Followed, Followers
  <2> QED
    BY <2>1, FollowAssumption, FS_Subset, FS_CardinalityType
<1>3. call \in [Calls -> Asked \cup Backfill \cup {Ready, Over}]
  OBVIOUS
<1>4. upload \in [Videos -> Upload] /\ saved \subseteq Videos /\ events \in Seq(Videos)
  BY DEF Upload
<1> QED
  BY <1>1, <1>2, <1>3, <1>4 DEF Types

\* A commit changes rows and statistics to rows and statistics.
LEMMA WriteTypes ==
    ASSUME Types, NEW p \in Pairs, NEW active \in BOOLEAN, NEW key \in Keys \cup {NoKey},
           Write(p, active, key)
    PROVE  /\ follow' \in [Pairs -> Row]
           /\ stat' \in [Users -> [following : Nat, followers : Nat]]
           /\ gen' \in [Pairs -> Nat]
<1> DEFINE delta == Change(follow[p], active, key)
           after == RowAfter(follow[p], active, key)
<1>1. after \in Row /\ delta \in {-1, 0, 1}
  BY WriteLemma DEF Types
<1>2. follow' = [follow EXCEPT ![p] = after]
  BY DEF Write
<1>3. p[1] \in Users /\ p[2] \in Users /\ p[1] # p[2]
  BY DEF Pairs
<1>4. \A n \in Nat : Clamp(n + delta) \in Nat
  BY <1>1 DEF Clamp
<1>5. stat' = [stat EXCEPT ![p[1]].following = Clamp(@ + delta), ![p[2]].followers = Clamp(@ + delta)]
  BY DEF Write
<1>6. stat' \in [Users -> [following : Nat, followers : Nat]]
  <2>1. stat \in [Users -> [following : Nat, followers : Nat]]
    BY DEF Types
  <2>2. PICK i \in Nat, j \in Nat :
          i = Clamp(stat[p[1]].following + delta) /\ j = Clamp(stat[p[2]].followers + delta)
    BY <1>3, <1>4, <2>1
  <2>3. stat' = [stat EXCEPT ![p[1]].following = i, ![p[2]].followers = j]
    BY <1>3, <1>5, <2>1, <2>2
  <2> QED
    BY <1>3, <2>1, <2>3
<1>7. gen' \in [Pairs -> Nat]
  BY DEF Write, Types
<1> QED
  BY <1>1, <1>2, <1>6, <1>7 DEF Types

\* A step of the publication keeps the types of its variables.
LEMMA UploadTypes ==
    ASSUME Types, NEW v \in Videos,
           (\E key \in UploadKeys \cup {NoUploadKey} : Create(v, key)) \/ UploadStep(v) \/ UploadEnds(v)
    PROVE  upload' \in [Videos -> Upload] /\ saved' \subseteq Videos /\ events' \in Seq(Videos)
<1>1. upload[v] \in Upload
  BY DEF Types
<1>2. saved' = saved \/ saved' = saved \cup {v}
  BY DEF Create, UploadStep, UploadEnds, Find, Save, Load, PublishEvent
<1>3. events' = events \/ events' = Append(events, v)
  BY DEF Create, UploadStep, UploadEnds, Find, Save, Load, PublishEvent
<1>4. \/ \E pc \in {"save", "load", "publish"} : upload' = [upload EXCEPT ![v].pc = pc]
      \/ UploadOver(v)
      \/ \E pc \in {"find", "save"}, key \in UploadKeys \cup {NoUploadKey} :
             upload' = [upload EXCEPT ![v] = [pc |-> pc, key |-> key]]
  BY DEF Create, UploadStep, UploadEnds, Find, Save, Load, PublishEvent, UploadAt
<1>5. \A pc \in {"save", "load", "publish"} : [upload[v] EXCEPT !.pc = pc] \in Upload
  BY <1>1 DEF Upload
<1>6. ASSUME UploadOver(v)
      PROVE  upload' \in [Videos -> Upload]
  <2>1. PICK key \in UploadKeys \cup {NoUploadKey} :
            upload' = [upload EXCEPT ![v] = [pc |-> "over", key |-> key]]
    BY <1>1, <1>6 DEF Upload, UploadOver
  <2>2. [pc |-> "over", key |-> key] \in Upload
    BY DEF Upload
  <2> QED
    BY <2>1, <2>2 DEF Types
<1>7. ASSUME NEW pc \in {"save", "load", "publish"}, upload' = [upload EXCEPT ![v].pc = pc]
      PROVE  upload' \in [Videos -> Upload]
  BY <1>5, <1>7 DEF Types
<1>8. ASSUME NEW pc \in {"find", "save"}, NEW key \in UploadKeys \cup {NoUploadKey},
             upload' = [upload EXCEPT ![v] = [pc |-> pc, key |-> key]]
      PROVE  upload' \in [Videos -> Upload]
  BY <1>8 DEF Types, Upload
<1>9. events' \in Seq(Videos)
  <2>1. events \in Seq(Videos)
    BY DEF Types
  <2>2. Append(events, v) \in Seq(Videos)
    BY <2>1
  <2> QED
    BY <1>3, <2>1, <2>2
<1>10. saved' \subseteq Videos
  BY <1>2 DEF Types
<1> QED
  BY <1>4, <1>6, <1>7, <1>8, <1>9, <1>10

\* Every step keeps the types.
LEMMA TypesStep == Types /\ [Next]_vars => Types'
<1> SUFFICES ASSUME Types, [Next]_vars PROVE Types'
  OBVIOUS
<1> USE DEF Types
<1>1. ASSUME NEW c \in Calls, NEW active \in BOOLEAN, NEW key \in Keys \cup {NoKey},
             NEW p \in Asks[c], Begin(c, p, active, key), UNCHANGED publicationVars, Outside
      PROVE  Types'
  <2>1. p \in Pairs
    BY FollowAssumption
  <2>2. [pc |-> "user", pair |-> p, active |-> active, key |-> key] \in Asked
    BY <2>1 DEF Asked
  <2> QED
    BY <1>1, <2>2 DEF Begin, tableVars, publicationVars, Outside, indexVars
<1>2. ASSUME NEW c \in Calls, LockUser(c) \/ LockTarget(c), UNCHANGED publicationVars, Outside
      PROVE  Types'
  <2>1. call[c] \in Asked
    BY <1>2, CallShape DEF LockUser, LockTarget
  <2>2. \E pc \in {"target", "write"} : call' = [call EXCEPT ![c].pc = pc]
    BY <1>2 DEF LockUser, LockTarget, Lock, Goto
  <2>3. \A pc \in {"target", "write"} : [call[c] EXCEPT !.pc = pc] \in Asked
    BY <2>1 DEF Asked
  <2>4. call' \in [Calls -> Asked \cup Backfill \cup {Ready, Over}]
    BY <2>2, <2>3
  <2> QED
    BY <1>2, <2>4 DEF LockUser, LockTarget, Lock, tableVars, publicationVars, Outside, indexVars
<1>3. ASSUME NEW c \in Calls, RollBack(c), UNCHANGED publicationVars, Outside
      PROVE  Types'
  BY <1>3 DEF RollBack, tableVars, publicationVars, Outside, indexVars
<1>4. ASSUME NEW c \in Calls, Commit(c)
      PROVE  Types'
  <2>1. call[c] \in Asked
    BY <1>4, CallShape DEF Commit
  <2>2. call[c].pair \in Pairs /\ call[c].active \in BOOLEAN /\ call[c].key \in Keys \cup {NoKey}
    BY <2>1 DEF Asked
  <2>3. /\ follow' \in [Pairs -> Row]
        /\ stat' \in [Users -> [following : Nat, followers : Nat]]
        /\ gen' \in [Pairs -> Nat]
    BY <1>4, <2>2, WriteTypes DEF Commit
  <2>4. [pc |-> "count", pair |-> call[c].pair, gen |-> gen'[call[c].pair], videos |-> {}] \in Backfill
    BY <2>2, <2>3 DEF Backfill
  <2>5. call' \in [Calls -> Asked \cup Backfill \cup {Ready, Over}]
    BY <1>4, <2>4 DEF Commit
  <2> QED
    BY <1>4, <2>3, <2>5 DEF Commit, publicationVars, indexVars
<1>5. ASSUME NEW c \in Calls, CountForBackfill(c) \/ ListVideos(c)
      PROVE  Types'
  <2>1. call[c] \in Backfill
    BY <1>5, CallShape DEF CountForBackfill, ListVideos
  <2>2. Recent(SavedOf(call[c].pair[2]), BackfillLimit) \subseteq Videos
    BY DEF Recent, SavedOf
  <2>3. \/ \E pc \in {"notify", "videos"} : call' = [call EXCEPT ![c] = [@ EXCEPT !.pc = pc]]
        \/ \E pc \in {"notify", "push"}, videos \in SUBSET Videos :
               call' = [call EXCEPT ![c] = [@ EXCEPT !.videos = videos, !.pc = pc]]
    BY <1>5, <2>2 DEF CountForBackfill, ListVideos, Goto
  <2>4. /\ \A pc \in {"notify", "videos"} : [call[c] EXCEPT !.pc = pc] \in Backfill
        /\ \A pc \in {"notify", "push"}, videos \in SUBSET Videos :
               [call[c] EXCEPT !.videos = videos, !.pc = pc] \in Backfill
    BY <2>1 DEF Backfill
  <2>5. ASSUME NEW x \in Backfill, call' = [call EXCEPT ![c] = x]
        PROVE  call' \in [Calls -> Asked \cup Backfill \cup {Ready, Over}]
    BY <2>5
  <2>6. call' \in [Calls -> Asked \cup Backfill \cup {Ready, Over}]
    BY <2>3, <2>4, <2>5
  <2> QED
    BY <1>5, <2>6 DEF CountForBackfill, ListVideos, tableVars, publicationVars, indexVars
<1>6. ASSUME NEW c \in Calls, PushBackfill(c)
      PROVE  Types'
  <2>1. call[c] \in Backfill
    BY <1>6, CallShape DEF PushBackfill
  <2>2. PICK v \in Recent(call[c].videos, 1) :
            LET rest == call[c].videos \ {v} IN
            /\ inbox' = [inbox EXCEPT ![call[c].pair[1]] =
                            Added(@, [video |-> v, stamp |-> "row"], InboxMax)]
            /\ call' = [call EXCEPT ![c].videos = rest,
                                    ![c].pc = IF rest = {} THEN "notify" ELSE "push"]
    BY <1>6 DEF PushBackfill
  <2>3. v \in Videos /\ call[c].pair[1] \in Users /\ call[c].videos \subseteq Videos
    BY <2>1 DEF Backfill, Recent, Pairs
  <2>4. Added(inbox[call[c].pair[1]], [video |-> v, stamp |-> "row"], InboxMax) \subseteq Member
    BY <2>3, AddedLemma DEF Member
  <2>5. inbox' \in [Users -> SUBSET Member]
    BY <2>2, <2>3, <2>4
  <2>6. call' \in [Calls -> Asked \cup Backfill \cup {Ready, Over}]
    BY <2>1, <2>2, <2>3 DEF Backfill
  <2> QED
    BY <1>6, <2>5, <2>6 DEF PushBackfill, tableVars, publicationVars
<1>7. ASSUME NEW c \in Calls, Notify(c) \/ BackfillFails(c)
      PROVE  Types'
  <2>1. call[c].pair \in Pairs
    BY <1>7, CallShape DEF Notify, BackfillFails, Backfill
  <2> QED
    BY <1>7, <2>1 DEF Notify, BackfillFails, tableVars, publicationVars, indexVars, historyVars
<1>8. ASSUME NEW v \in Videos, UNCHANGED followVars, Outside,
             \/ \E key \in UploadKeys \cup {NoUploadKey} : Create(v, key)
             \/ UploadStep(v)
             \/ UploadEnds(v)
      PROVE  Types'
  BY <1>8, UploadTypes DEF followVars, tableVars, Outside, indexVars
<1>9. ASSUME Deliver
      PROVE  Types'
  <2>1. Head(events) \in Videos /\ Tail(events) \in Seq(Videos)
    BY <1>9 DEF Deliver
  <2>2. worker' \in Work /\ events' \in Seq(Videos)
    BY <1>9, <2>1 DEF Deliver, Work
  <2> QED
    BY <1>9, <2>2 DEF Deliver, Idle, followVars, tableVars, indexVars
<1>10. ASSUME CountForFanout
       PROVE  Types'
  <2>1. worker \in [pc : {"count", "outbox"}, video : Videos]
    BY <1>10, WorkShape DEF CountForFanout
  <2>2. worker' \in Work
    BY <1>10, <2>1 DEF CountForFanout, Work
  <2> QED
    BY <1>10, <2>2 DEF CountForFanout, Idle, followVars, tableVars, indexVars
<1>11. ASSUME PushOutbox
       PROVE  Types'
  BY <1>11 DEF PushOutbox, Idle, followVars, tableVars
<1>12. ASSUME ListFollowers
       PROVE  Types'
  <2>1. worker \in [pc : {"list"}, video : Videos, cursor : Users \cup {0}]
    BY <1>12, WorkShape DEF ListFollowers
  <2>2. Page(AuthorOf[worker.video], worker.cursor) \subseteq Users
    BY DEF Page, Followers
  <2>3. worker' \in Work \cup {Resting}
    BY <1>12, <2>1, <2>2 DEF ListFollowers, Work
  <2> QED
    BY <1>12, <2>3 DEF ListFollowers, Idle, followVars, tableVars, indexVars
<1>13. ASSUME NEW users, inbox' = PushedTo(users), worker.video \in Videos
       PROVE  inbox' \in [Users -> SUBSET Member]
  <2>1. \A u \in Users : Added(inbox[u], [video |-> worker.video, stamp |-> "event"], InboxMax)
                            \subseteq Member
    BY <1>13, AddedLemma DEF Member
  <2> QED
    BY <1>13, <2>1 DEF PushedTo
<1>14. ASSUME PushInboxes
       PROVE  Types'
  <2>1. worker \in [pc : {"push"}, video : Videos, page : SUBSET Users]
    BY <1>14, WorkShape DEF PushInboxes
  <2>2. worker' \in Work \cup {Resting}
    BY <1>14, <2>1 DEF PushInboxes, Work
  <2>3. inbox' \in [Users -> SUBSET Member]
    BY <1>13, <1>14, <2>1 DEF PushInboxes
  <2> QED
    BY <1>14, <2>2, <2>3 DEF PushInboxes, Idle, followVars, tableVars
<1>15. ASSUME Requeue
       PROVE  Types'
  <2>1. worker.video \in Videos
    BY <1>15, WorkShape DEF Requeue
  <2>2. events' \in Seq(Videos)
    BY <1>15, <2>1, RequeuedLemma DEF Requeue, Requeued
  <2>3. \E users : inbox' = PushedTo(users)
    BY <1>15 DEF Requeue
  <2>4. inbox' \in [Users -> SUBSET Member]
    BY <1>13, <2>1, <2>3
  <2> QED
    BY <1>15, <2>2, <2>4 DEF Requeue, Idle, followVars, tableVars
<1>16. ASSUME NEW u \in Users, Expire(u)
       PROVE  Types'
  BY <1>16 DEF Expire, followVars, tableVars, publicationVars
<1>17. CASE UNCHANGED vars
  BY <1>17 DEF vars, followVars, tableVars, publicationVars, indexVars
<1> QED
  BY <1>1, <1>2, <1>3, <1>4, <1>5, <1>6, <1>7, <1>8, <1>9, <1>10, <1>11, <1>12, <1>14, <1>15,
     <1>16, <1>17 DEF Next, Request, Victim, Fanout

Working == {"count", "videos", "push", "notify"}

\* How a request comes to where its backfill is.
LEMMA CallMoves ==
    ASSUME Types, [Next]_vars, NEW d \in Calls, call'[d].pc \in Working
    PROVE  \/ call'[d] = call[d]
           \/ /\ Commit(d) /\ call[d] \in Asked
              /\ TakesEffect(call[d].active, follow'[call[d].pair])
              /\ call'[d] = [pc |-> "count", pair |-> call[d].pair, gen |-> gen'[call[d].pair],
                             videos |-> {}]
           \/ /\ call[d] \in Backfill /\ UNCHANGED tableVars
              /\ call'[d].pair = call[d].pair /\ call'[d].gen = call[d].gen
              /\ \/ /\ CountForBackfill(d) /\ call'[d].videos = call[d].videos
                    /\ call'[d].pc = IF Big(call[d].pair[2]) THEN "notify" ELSE "videos"
                 \/ /\ ListVideos(d)
                    /\ call'[d].videos = Recent(SavedOf(call[d].pair[2]), BackfillLimit)
                    /\ call'[d].pc = IF call'[d].videos = {} THEN "notify" ELSE "push"
                 \/ /\ PushBackfill(d)
                    /\ \E v \in Recent(call[d].videos, 1) :
                          /\ inbox' = [inbox EXCEPT ![call[d].pair[1]] =
                                          Added(@, [video |-> v, stamp |-> "row"], InboxMax)]
                          /\ call'[d].videos = call[d].videos \ {v}
                    /\ call'[d].pc = IF call'[d].videos = {} THEN "notify" ELSE "push"
<1>0. call \in [Calls -> Asked \cup Backfill \cup {Ready, Over}]
  BY DEF Types
<1>1. \A pc, videos : call[d] \in Backfill =>
         LET x == [call[d] EXCEPT !.videos = videos, !.pc = pc]
             y == [call[d] EXCEPT !.pc = pc]
         IN  /\ x.pair = call[d].pair /\ x.videos = videos /\ x.gen = call[d].gen /\ x.pc = pc
             /\ y.pair = call[d].pair /\ y.videos = call[d].videos /\ y.gen = call[d].gen /\ y.pc = pc
  BY DEF Backfill
<1>2. CASE Commit(d)
  <2>1. call[d] \in Asked
    BY <1>0, <1>2, CallShape DEF Commit
  <2>2. CASE TakesEffect(call[d].active, follow'[call[d].pair])
    BY <1>0, <1>2, <2>1, <2>2 DEF Commit
  <2>3. CASE ~TakesEffect(call[d].active, follow'[call[d].pair])
    BY <1>0, <1>2, <2>3 DEF Commit, Over, Working
  <2> QED
    BY <2>2, <2>3
<1>3. CASE CountForBackfill(d)
  <2>1. call[d] \in Backfill /\ UNCHANGED tableVars
    BY <1>0, <1>3, CallShape DEF CountForBackfill
  <2>2. call'[d] = [call[d] EXCEPT !.pc = IF Big(call[d].pair[2]) THEN "notify" ELSE "videos"]
    BY <1>0, <1>3 DEF CountForBackfill, Goto
  <2> QED
    BY <1>1, <1>3, <2>1, <2>2
<1>4. CASE ListVideos(d)
  <2> DEFINE videos == Recent(SavedOf(call[d].pair[2]), BackfillLimit)
  <2>1. call[d] \in Backfill /\ UNCHANGED tableVars
    BY <1>0, <1>4, CallShape DEF ListVideos
  <2>2. call' = [call EXCEPT ![d] = [@ EXCEPT !.videos = videos,
                                             !.pc = IF videos = {} THEN "notify" ELSE "push"]]
    BY <1>4 DEF ListVideos
  <2> HIDE DEF videos
  <2>3. call'[d] = [call[d] EXCEPT !.videos = videos, !.pc = IF videos = {} THEN "notify" ELSE "push"]
    BY <1>0, <2>2
  <2>4. /\ call'[d].pair = call[d].pair /\ call'[d].gen = call[d].gen /\ call'[d].videos = videos
        /\ call'[d].pc = IF videos = {} THEN "notify" ELSE "push"
    BY <1>1, <2>1, <2>3
  <2> QED
    BY <1>4, <2>1, <2>4 DEF videos
<1>5. CASE PushBackfill(d)
  <2>1. call[d] \in Backfill /\ UNCHANGED tableVars
    BY <1>0, <1>5, CallShape DEF PushBackfill
  <2>2. PICK v \in Recent(call[d].videos, 1) :
            /\ inbox' = [inbox EXCEPT ![call[d].pair[1]] =
                            Added(@, [video |-> v, stamp |-> "row"], InboxMax)]
            /\ call' = [call EXCEPT ![d].videos = call[d].videos \ {v},
                                    ![d].pc = IF call[d].videos \ {v} = {} THEN "notify" ELSE "push"]
    BY <1>5 DEF PushBackfill
  <2>3. PICK rest : rest = call[d].videos \ {v}
    OBVIOUS
  <2>4. call' = [call EXCEPT ![d] = [@ EXCEPT !.videos = rest,
                                             !.pc = IF rest = {} THEN "notify" ELSE "push"]]
    BY <2>2, <2>3
  <2>5. call'[d] = [call[d] EXCEPT !.videos = rest, !.pc = IF rest = {} THEN "notify" ELSE "push"]
    BY <1>0, <2>4
  <2>6. /\ call'[d].pair = call[d].pair /\ call'[d].gen = call[d].gen /\ call'[d].videos = rest
        /\ call'[d].pc = IF rest = {} THEN "notify" ELSE "push"
    BY <1>1, <2>1, <2>5
  <2> QED
    BY <1>5, <2>1, <2>2, <2>3, <2>6
<1>6. \/ call'[d] = call[d]
      \/ Commit(d) \/ CountForBackfill(d) \/ ListVideos(d) \/ PushBackfill(d)
  <2>1. ASSUME NEW c \in Calls, NEW p \in Asks[c], NEW active \in BOOLEAN,
               NEW key \in Keys \cup {NoKey}, Begin(c, p, active, key)
        PROVE  call'[d] = call[d]
    BY <1>0, <2>1 DEF Begin, Working
  <2>2. ASSUME NEW c \in Calls, LockUser(c) \/ LockTarget(c) \/ RollBack(c) \/ Notify(c) \/ BackfillFails(c)
        PROVE  call'[d] = call[d]
    <3>1. CASE d # c
      BY <1>0, <2>2, <3>1 DEF LockUser, LockTarget, Lock, Goto, RollBack, Notify, BackfillFails
    <3>2. CASE d = c
      <4>1. \/ call' = [call EXCEPT ![c] = Over]
            \/ /\ call[c] \in Asked
               /\ \E pc \in {"target", "write"} : call' = [call EXCEPT ![c] = [@ EXCEPT !.pc = pc]]
        BY <1>0, <2>2, CallShape DEF LockUser, LockTarget, Lock, Goto, RollBack, Notify, BackfillFails
      <4>2. \A pc : call[c] \in Asked => [call[c] EXCEPT !.pc = pc].pc = pc
        BY DEF Asked
      <4>3. CASE call' = [call EXCEPT ![c] = Over]
        BY <1>0, <3>2, <4>3 DEF Over, Working
      <4>4. CASE call[c] \in Asked /\ \E pc \in {"target", "write"} :
                      call' = [call EXCEPT ![c] = [@ EXCEPT !.pc = pc]]
        <5>1. PICK pc \in {"target", "write"} : call' = [call EXCEPT ![c] = [@ EXCEPT !.pc = pc]]
          BY <4>4
        <5>2. call'[c] = [call[c] EXCEPT !.pc = pc]
          BY <1>0, <5>1
        <5>3. call'[c].pc \in {"target", "write"}
          BY <4>2, <4>4, <5>2
        <5> QED
          BY <3>2, <5>3 DEF Working
      <4> QED
        BY <4>1, <4>3, <4>4
    <3> QED
      BY <3>1, <3>2
  <2>3. ASSUME NEW c \in Calls, Commit(c) \/ CountForBackfill(c) \/ ListVideos(c) \/ PushBackfill(c), d # c
        PROVE  call'[d] = call[d]
    BY <1>0, <2>3 DEF Commit, CountForBackfill, ListVideos, PushBackfill, Goto
  <2>4. CASE UNCHANGED followVars
    BY <2>4 DEF followVars
  <2>5. CASE Deliver \/ Fanout \/ Requeue
    BY <2>4, <2>5 DEF Deliver, Fanout, CountForFanout, PushOutbox, ListFollowers, PushInboxes,
                      Requeue, Idle
  <2>6. CASE \E u \in Users : Expire(u)
    BY <2>4, <2>6 DEF Expire
  <2>7. CASE UNCHANGED vars
    BY <2>4, <2>7 DEF vars
  <2> QED
    BY <2>1, <2>2, <2>3, <2>4, <2>5, <2>6, <2>7 DEF Next, Request, Victim
<1> QED
  BY <1>2, <1>3, <1>4, <1>5, <1>6

-----------------------------------------------------------------------------
(* The statistics are the degrees.                                         *)

LEMMA DegreesFinite ==
    \A u \in Users : IsFiniteSet(Followed(u)) /\ IsFiniteSet(Followers(u))
<1>1. \A u \in Users : Followed(u) \subseteq Users /\ Followers(u) \subseteq Users
  BY DEF Followed, Followers
<1> QED
  BY <1>1, FollowAssumption, FS_Subset

\* A transaction moves both degrees of the pair by delta, and the clamp at zero
\* never acts.
LEMMA DegreesWrite ==
    ASSUME Types, StatsAreDegrees, NEW p \in Pairs, NEW active \in BOOLEAN,
           NEW key \in Keys \cup {NoKey}, Write(p, active, key)
    PROVE  StatsAreDegrees'
<1> DEFINE u0 == p[1]
           t0 == p[2]
           delta == Change(follow[p], active, key)
           after == RowAfter(follow[p], active, key)
<1>1. u0 \in Users /\ t0 \in Users /\ u0 # t0 /\ p = <<u0, t0>>
  BY DEF Pairs
<1>2. follow \in [Pairs -> Row] /\ stat \in [Users -> [following : Nat, followers : Nat]]
  BY DEF Types
<1>3. \/ delta = 1 /\ follow[p].status # "active" /\ after.status = "active"
      \/ delta = -1 /\ follow[p].status = "active" /\ after.status # "active"
      \/ delta = 0 /\ (follow[p].status = "active" <=> after.status = "active")
  <2>1. follow[p] \in Row
    BY <1>2
  <2> QED
    BY <2>1, WriteLemma
<1>4. follow' = [follow EXCEPT ![p] = after]
  BY <1>2 DEF Write
<1>5. \A u, t \in Users : u # t =>
         /\ <<u, t>> \in Pairs
         /\ (u # u0 \/ t # t0) => follow'[<<u, t>>] = follow[<<u, t>>]
  BY <1>1, <1>2, <1>4 DEF Pairs
<1>6. follow'[<<u0, t0>>] = after
  BY <1>1, <1>2, <1>4
<1>7. /\ \A u \in Users : u # u0 => Followed(u)' = Followed(u)
      /\ \A t \in Users : t # t0 => Followers(t)' = Followers(t)
  BY <1>1, <1>5 DEF Followed, Followers
<1>8. stat' = [stat EXCEPT ![u0].following = Clamp(@ + delta), ![t0].followers = Clamp(@ + delta)]
  BY DEF Write
<1>9. /\ stat'[u0].following = Clamp(stat[u0].following + delta)
      /\ stat'[t0].followers = Clamp(stat[t0].followers + delta)
      /\ \A u \in Users : u # u0 => stat'[u].following = stat[u].following
      /\ \A t \in Users : t # t0 => stat'[t].followers = stat[t].followers
  BY <1>1, <1>2, <1>8
<1>10. /\ stat[u0].following = Cardinality(Followed(u0)) /\ stat[u0].following \in Nat
       /\ stat[t0].followers = Cardinality(Followers(t0)) /\ stat[t0].followers \in Nat
  BY <1>1, <1>2 DEF StatsAreDegrees
<1>11. /\ stat'[u0].following = Cardinality(Followed(u0)')
       /\ stat'[t0].followers = Cardinality(Followers(t0)')
  <2>1. CASE delta = 1 /\ follow[p].status # "active" /\ after.status = "active"
    <3>1. /\ t0 \notin Followed(u0) /\ Followed(u0)' = Followed(u0) \cup {t0}
          /\ u0 \notin Followers(t0) /\ Followers(t0)' = Followers(t0) \cup {u0}
      <4>1. follow[<<u0, t0>>].status # "active" /\ follow'[<<u0, t0>>].status = "active"
        BY <1>1, <1>6, <2>1
      <4>2. t0 \notin Followed(u0) /\ Followed(u0)' = Followed(u0) \cup {t0}
        BY <1>1, <1>5, <4>1 DEF Followed
      <4>3. u0 \notin Followers(t0) /\ Followers(t0)' = Followers(t0) \cup {u0}
        BY <1>1, <1>5, <4>1 DEF Followers
      <4> QED
        BY <4>2, <4>3
    <3>2. /\ Cardinality(Followed(u0)') = stat[u0].following + 1
          /\ Cardinality(Followers(t0)') = stat[t0].followers + 1
      <4>1. IsFiniteSet(Followed(u0)) /\ IsFiniteSet(Followers(t0))
        BY <1>1, DegreesFinite
      <4>2. Cardinality(Followed(u0) \cup {t0}) = Cardinality(Followed(u0)) + 1
        BY <3>1, <4>1, FS_AddElement
      <4>3. Cardinality(Followers(t0) \cup {u0}) = Cardinality(Followers(t0)) + 1
        BY <3>1, <4>1, FS_AddElement
      <4> QED
        BY <1>10, <3>1, <4>2, <4>3
    <3> QED
      BY <1>9, <1>10, <2>1, <3>2 DEF Clamp
  <2>2. CASE delta = -1 /\ follow[p].status = "active" /\ after.status # "active"
    <3>1. /\ t0 \in Followed(u0) /\ Followed(u0)' = Followed(u0) \ {t0}
          /\ u0 \in Followers(t0) /\ Followers(t0)' = Followers(t0) \ {u0}
      BY <1>1, <1>5, <1>6, <2>2 DEF Followed, Followers
    <3>2. /\ Cardinality(Followed(u0)') = stat[u0].following - 1
          /\ Cardinality(Followers(t0)') = stat[t0].followers - 1
          /\ IsFiniteSet(Followed(u0)') /\ IsFiniteSet(Followers(t0)')
      BY <1>1, <1>10, <3>1, DegreesFinite, FS_RemoveElement
    <3>3. stat[u0].following - 1 \in Nat /\ stat[t0].followers - 1 \in Nat
      BY <3>2, FS_CardinalityType
    <3> QED
      BY <1>9, <1>10, <2>2, <3>2, <3>3 DEF Clamp
  <2>3. CASE delta = 0 /\ (follow[p].status = "active" <=> after.status = "active")
    <3>1. Followed(u0)' = Followed(u0) /\ Followers(t0)' = Followers(t0)
      BY <1>1, <1>5, <1>6, <2>3 DEF Followed, Followers
    <3> QED
      BY <1>9, <1>10, <2>3, <3>1 DEF Clamp
  <2> QED
    BY <1>3, <2>1, <2>2, <2>3
<1>12. \A u \in Users : /\ stat'[u].following = Cardinality(Followed(u)')
                        /\ stat'[u].followers = Cardinality(Followers(u)')
  BY <1>7, <1>9, <1>11 DEF StatsAreDegrees
<1> QED
  BY <1>12 DEF StatsAreDegrees

\* Only a commit touches the two tables.
LEMMA TablesStep ==
    ASSUME Types, [Next]_vars
    PROVE  \/ UNCHANGED tableVars
           \/ \E c \in Calls : Commit(c) /\ call[c] \in Asked
<1>1. ASSUME NEW c \in Calls, Commit(c) PROVE call[c] \in Asked
  BY <1>1, CallShape DEF Commit, Types
<1>2. ASSUME NEW c \in Calls, Request(c) \/ BackfillFails(c) \/ RollBack(c), ~Commit(c)
      PROVE  UNCHANGED tableVars
  BY <1>2 DEF Request, LockUser, LockTarget, Lock, Victim, RollBack, CountForBackfill, ListVideos,
              PushBackfill, Notify, BackfillFails
<1>3. CASE Deliver \/ Fanout \/ Requeue
  BY <1>3 DEF Deliver, Fanout, CountForFanout, PushOutbox, ListFollowers, PushInboxes, Requeue,
              Idle, followVars
<1>4. CASE \E u \in Users : Expire(u)
  BY <1>4 DEF Expire, followVars
<1>5. CASE UNCHANGED vars
  BY <1>5 DEF vars, followVars
<1>6. CASE \E c \in Calls, active \in BOOLEAN, key \in Keys \cup {NoKey} : \E p \in Asks[c] :
              Begin(c, p, active, key)
  BY <1>6 DEF Begin
<1>7. CASE UNCHANGED followVars
  BY <1>7 DEF followVars
<1> QED
  BY <1>1, <1>2, <1>3, <1>4, <1>5, <1>6, <1>7 DEF Next

LEMMA DegreesStep == Types /\ StatsAreDegrees /\ [Next]_vars => StatsAreDegrees'
<1> SUFFICES ASSUME Types, StatsAreDegrees, [Next]_vars PROVE StatsAreDegrees'
  OBVIOUS
<1>1. CASE UNCHANGED tableVars
  BY <1>1 DEF tableVars, StatsAreDegrees, Followed, Followers
<1>2. ASSUME NEW c \in Calls, Commit(c), call[c] \in Asked PROVE StatsAreDegrees'
  <2>1. call[c].pair \in Pairs /\ call[c].active \in BOOLEAN /\ call[c].key \in Keys \cup {NoKey}
    BY <1>2 DEF Asked
  <2>2. Write(call[c].pair, call[c].active, call[c].key)
    BY <1>2 DEF Commit
  <2> QED
    BY <2>1, <2>2, DegreesWrite
<1> QED
  BY <1>1, <1>2, TablesStep

\* user_relation_stat always says how many rows are active on either side of
\* each user, whatever requests, repetitions and rollbacks there are.
THEOREM DegreesExact == Spec => []StatsAreDegrees
<1>1. Init => StatsAreDegrees
  BY DEF Init, FollowInit, StatsAreDegrees
<1> QED
  BY <1>1, TypesInit, TypesStep, DegreesStep, PTL DEF Spec

-----------------------------------------------------------------------------
(* A key makes one video.                                                  *)

\* A saved video keeps its key: its request is past the insertion.
UploadKept == \A v \in saved : upload[v].pc \in {"publish", "over"}

UploadInv == UploadKept /\ OneVideoPerKey

\* Whatever the request of a video does to saved and upload, other videos keep
\* their keys, and a video that is saved was not in the way of another.
LEMMA UploadInvStep ==
    ASSUME Types, UploadInv, NEW v \in Videos,
           (\E key \in UploadKeys \cup {NoUploadKey} : Create(v, key)) \/ UploadStep(v) \/ UploadEnds(v)
    PROVE  UploadInv'
<1>1. upload \in [Videos -> Upload] /\ saved \subseteq Videos
  BY DEF Types
<1>2. \A w \in saved : w \in Videos /\ upload[w].pc \in {"publish", "over"}
  BY <1>1 DEF UploadInv, UploadKept
<1>3. CASE saved' = saved
  <2>1. \A w \in saved : upload'[w].key = upload[w].key /\ upload'[w].pc \in {"publish", "over"}
    <3> SUFFICES ASSUME NEW w \in saved
                 PROVE  upload'[w].key = upload[w].key /\ upload'[w].pc \in {"publish", "over"}
      OBVIOUS
    <3>1. CASE w # v
      BY <1>1, <1>2, <3>1 DEF Create, UploadStep, UploadEnds, Find, Save, Load, PublishEvent,
                              UploadAt, UploadOver
    <3>2. CASE w = v
      <4>1. upload[v] \in Upload /\ upload[v].pc \in {"publish", "over"}
        BY <1>1, <1>2, <3>2
      <4>2. PublishEvent(v) \/ UploadEnds(v)
        BY <4>1 DEF Create, UploadStep, Find, Save, Load
      <4>3. UploadOver(v)
        BY <4>2 DEF PublishEvent, UploadEnds
      <4> QED
        BY <1>1, <3>2, <4>1, <4>3 DEF UploadOver
    <3> QED
      BY <3>1, <3>2
  <2> QED
    BY <1>3, <2>1 DEF UploadInv, UploadKept, OneVideoPerKey
<1>4. CASE saved' # saved
  <2>1. Save(v) /\ ~Clashes(v)
    BY <1>4 DEF Create, UploadStep, UploadEnds, Find, Save, Load, PublishEvent
  <2>2. saved' = saved \cup {v} /\ upload' = [upload EXCEPT ![v].pc = "publish"]
    BY <2>1 DEF Save, UploadAt
  <2>3. upload[v] \in Upload
    BY <1>1
  <2>4. /\ \A w \in Videos : upload'[w].key = upload[w].key
        /\ upload'[v].pc = "publish"
        /\ \A w \in Videos : w # v => upload'[w] = upload[w]
    BY <1>1, <2>2, <2>3 DEF Upload
  <2>5. UploadKept'
    BY <1>2, <2>2, <2>4 DEF UploadKept
  <2>6. OneVideoPerKey'
    BY <1>1, <2>1, <2>2, <2>4 DEF OneVideoPerKey, UploadInv, Clashes
  <2> QED
    BY <2>5, <2>6 DEF UploadInv
<1> QED
  BY <1>3, <1>4

LEMMA UploadInvNext == Types /\ UploadInv /\ [Next]_vars => UploadInv'
<1> SUFFICES ASSUME Types, UploadInv, [Next]_vars PROVE UploadInv'
  OBVIOUS
<1>1. CASE UNCHANGED <<upload, saved>>
  BY <1>1 DEF UploadInv, UploadKept, OneVideoPerKey
<1>2. CASE \E v \in Videos : \/ \E key \in UploadKeys \cup {NoUploadKey} : Create(v, key)
                            \/ UploadStep(v)
                            \/ UploadEnds(v)
  BY <1>2, UploadInvStep
<1>3. CASE \E c \in Calls : Request(c) \/ BackfillFails(c)
  BY <1>1, <1>3 DEF Request, Commit, CountForBackfill, ListVideos, PushBackfill, Notify,
                    BackfillFails, publicationVars
<1>4. CASE Deliver \/ Fanout \/ Requeue
  BY <1>1, <1>4 DEF Deliver, Fanout, CountForFanout, PushOutbox, ListFollowers, PushInboxes,
                    Requeue, Idle
<1>5. CASE \E u \in Users : Expire(u)
  BY <1>1, <1>5 DEF Expire, publicationVars
<1>6. CASE UNCHANGED vars
  BY <1>1, <1>6 DEF vars, publicationVars
<1>7. CASE UNCHANGED publicationVars
  BY <1>1, <1>7 DEF publicationVars
<1> QED
  BY <1>2, <1>3, <1>4, <1>5, <1>6, <1>7 DEF Next

\* However many requests with one key race between lookup and insertion, one
\* video of the author comes of it.
THEOREM KeyMakesOneVideo == Spec => []OneVideoPerKey
<1>1. Init => UploadInv
  BY DEF Init, PublicationInit, UploadInv, UploadKept, OneVideoPerKey
<1>2. UploadInv => OneVideoPerKey
  BY DEF UploadInv
<1> QED
  BY <1>1, <1>2, TypesInit, TypesStep, UploadInvNext, PTL DEF Spec

-----------------------------------------------------------------------------
(* Only a follow that took effect fills an inbox or is told of.            *)

EverIn(g, p) == p \in InitialFollows \/ g[p] > 0

\* An active row was activated some time.
ActiveEver == \A p \in Pairs : follow[p].status = "active" => EverIn(gen, p)

\* A request goes on after its commit only when the row was active, and copies
\* videos of its target.
CallEver ==
    \A c \in Calls : call[c].pc \in {"count", "videos", "push", "notify"} =>
        EverIn(gen, call[c].pair) /\ \A v \in call[c].videos : AuthorOf[v] = call[c].pair[2]

\* A page of the fan-out holds users who have followed, though some may have
\* cancelled since.
PageEver ==
    worker.pc = "push" =>
        \A u \in worker.page : <<u, AuthorOf[worker.video]>> \in Pairs
                               /\ EverIn(gen, <<u, AuthorOf[worker.video]>>)

OnlyInv == ActiveEver /\ CallEver /\ PageEver /\ FollowersOnly

\* A pair stays one that was active some time.
LEMMA EverKept ==
    ASSUME Types, [Next]_vars, NEW p \in Pairs, EverIn(gen, p)
    PROVE  EverIn(gen', p)
<1>1. CASE UNCHANGED tableVars
  BY <1>1 DEF tableVars, EverIn
<1>2. ASSUME NEW c \in Calls, Commit(c), call[c] \in Asked PROVE EverIn(gen', p)
  <2>1. gen \in [Pairs -> Nat] /\ call[c].pair \in Pairs
    BY <1>2 DEF Types, Asked
  <2>2. gen' = gen \/ gen' = [gen EXCEPT ![call[c].pair] = @ + 1]
    BY <1>2 DEF Commit, Write
  <2>3. gen'[p] \in Nat /\ gen'[p] >= gen[p]
    BY <2>1, <2>2
  <2> QED
    BY <2>1, <2>3 DEF EverIn
<1> QED
  BY <1>1, <1>2, TablesStep

\* What a commit leaves active has been active.
LEMMA ActiveStep ==
    ASSUME Types, ActiveEver, [Next]_vars
    PROVE  ActiveEver'
<1>1. CASE UNCHANGED tableVars
  BY <1>1 DEF tableVars, ActiveEver, EverIn
<1>2. ASSUME NEW c \in Calls, Commit(c), call[c] \in Asked PROVE ActiveEver'
  <2> DEFINE p == call[c].pair
             delta == Change(follow[p], call[c].active, call[c].key)
  <2>1. p \in Pairs /\ call[c].active \in BOOLEAN /\ call[c].key \in Keys \cup {NoKey}
    BY <1>2 DEF Asked
  <2>2. /\ follow' = [follow EXCEPT ![p] = RowAfter(@, call[c].active, call[c].key)]
        /\ gen' = IF delta = 1 THEN [gen EXCEPT ![p] = @ + 1] ELSE gen
    BY <1>2 DEF Commit, Write
  <2>3. follow \in [Pairs -> Row] /\ gen \in [Pairs -> Nat]
    BY DEF Types
  <2>4. follow'[p].status = "active" => follow[p].status = "active" \/ delta = 1
    <3>1. follow[p] \in Row /\ follow'[p] = RowAfter(follow[p], call[c].active, call[c].key)
      BY <2>1, <2>2, <2>3
    <3> QED
      BY <2>1, <3>1, WriteLemma
  <2>5. delta = 1 => EverIn(gen', p)
    BY <2>1, <2>2, <2>3 DEF EverIn
  <2>6. ASSUME NEW q \in Pairs, follow'[q].status = "active" PROVE EverIn(gen', q)
    <3>1. CASE q # p
      BY <2>2, <2>3, <2>6, <3>1, EverKept DEF ActiveEver
    <3>2. CASE q = p
      BY <2>1, <2>4, <2>5, <2>6, <3>2, EverKept DEF ActiveEver
    <3> QED
      BY <3>1, <3>2
  <2> QED
    BY <2>6 DEF ActiveEver
<1> QED
  BY <1>1, <1>2, TablesStep

\* Only a commit sends a request on, and only with a row that is active.
LEMMA CallEverStep ==
    ASSUME Types, ActiveEver, CallEver, [Next]_vars
    PROVE  CallEver'
<1> SUFFICES ASSUME NEW d \in Calls, call'[d].pc \in Working
             PROVE  /\ EverIn(gen', call'[d].pair)
                    /\ \A v \in call'[d].videos : AuthorOf[v] = call'[d].pair[2]
  BY DEF CallEver, Working
<1>1. CASE call'[d] = call[d]
  <2>1. EverIn(gen, call[d].pair) /\ \A v \in call[d].videos : AuthorOf[v] = call[d].pair[2]
    BY <1>1 DEF CallEver, Working
  <2>2. call[d].pair \in Pairs
    BY <1>1, CallShape DEF Types, Backfill, Working
  <2> QED
    BY <1>1, <2>1, <2>2, EverKept
<1>2. CASE /\ call[d] \in Asked /\ TakesEffect(call[d].active, follow'[call[d].pair])
           /\ call'[d] = [pc |-> "count", pair |-> call[d].pair, gen |-> gen'[call[d].pair],
                          videos |-> {}]
  <2>1. call[d].pair \in Pairs /\ follow'[call[d].pair].status = "active"
    BY <1>2 DEF Asked, TakesEffect
  <2> QED
    BY <1>2, <2>1, ActiveStep DEF ActiveEver
<1>3. CASE /\ call[d] \in Backfill /\ call'[d].pair = call[d].pair
           /\ \/ call'[d].videos \subseteq call[d].videos
              \/ call'[d].videos = Recent(SavedOf(call[d].pair[2]), BackfillLimit)
  <2>1. call[d].pc \in Working /\ call[d].pair \in Pairs
    BY <1>3 DEF Backfill, Working
  <2>2. EverIn(gen, call[d].pair) /\ \A v \in call[d].videos : AuthorOf[v] = call[d].pair[2]
    BY <2>1 DEF CallEver, Working
  <2>3. \A v \in Recent(SavedOf(call[d].pair[2]), BackfillLimit) : AuthorOf[v] = call[d].pair[2]
    BY DEF Recent, SavedOf
  <2> QED
    BY <1>3, <2>1, <2>2, <2>3, EverKept
<1>4. \/ call'[d] = call[d]
      \/ /\ call[d] \in Asked /\ TakesEffect(call[d].active, follow'[call[d].pair])
         /\ call'[d] = [pc |-> "count", pair |-> call[d].pair, gen |-> gen'[call[d].pair],
                        videos |-> {}]
      \/ /\ call[d] \in Backfill /\ call'[d].pair = call[d].pair
         /\ \/ call'[d].videos \subseteq call[d].videos
            \/ call'[d].videos = Recent(SavedOf(call[d].pair[2]), BackfillLimit)
  BY CallMoves
<1> QED
  BY <1>1, <1>2, <1>3, <1>4

\* A page holds followers of the moment it was read.
LEMMA PageEverStep ==
    ASSUME Types, ActiveEver, PageEver, [Next]_vars
    PROVE  PageEver'
<1>1. CASE worker' = worker
  BY <1>1, EverKept DEF PageEver
<1>2. CASE ListFollowers
  <2>1. worker.video \in Videos /\ AuthorOf[worker.video] \in Users
    BY <1>2, WorkShape, FollowingAssumption DEF Types, ListFollowers
  <2>2. \A u \in Page(AuthorOf[worker.video], worker.cursor) :
           /\ <<u, AuthorOf[worker.video]>> \in Pairs
           /\ EverIn(gen, <<u, AuthorOf[worker.video]>>)
    BY <2>1 DEF Page, Followers, Pairs, ActiveEver
  <2>3. gen' = gen
    BY <1>2 DEF ListFollowers, Idle, followVars, tableVars
  <2>4. worker' = Resting \/ worker' = [pc |-> "push", video |-> worker.video,
                                        page |-> Page(AuthorOf[worker.video], worker.cursor)]
    BY <1>2 DEF ListFollowers
  <2> QED
    BY <2>2, <2>3, <2>4 DEF PageEver, Resting
<1>3. CASE worker'.pc # "push"
  BY <1>3 DEF PageEver
<1>4. ASSUME Deliver \/ CountForFanout \/ PushOutbox \/ PushInboxes \/ Requeue
      PROVE  worker'.pc # "push"
  <2>1. CASE CountForFanout
    <3>1. worker \in [pc : {"count", "outbox"}, video : Videos]
      BY <2>1, WorkShape DEF Types, CountForFanout
    <3> QED
      BY <2>1, <3>1 DEF CountForFanout
  <2> QED
    BY <1>4, <2>1 DEF Deliver, PushOutbox, PushInboxes, Requeue, Resting
<1>5. ASSUME ~(Deliver \/ Fanout \/ Requeue)
      PROVE  worker' = worker
  <2>1. CASE Outside \/ UNCHANGED vars
    BY <2>1 DEF Outside, vars
  <2>2. ASSUME NEW c \in Calls, Request(c) \/ BackfillFails(c)
        PROVE  worker' = worker
    BY <2>1, <2>2 DEF Request, Commit, CountForBackfill, ListVideos, PushBackfill, Notify, BackfillFails
  <2>3. CASE \E u \in Users : Expire(u)
    BY <2>3 DEF Expire
  <2> QED
    BY <1>5, <2>1, <2>2, <2>3 DEF Next
<1> QED
  BY <1>1, <1>2, <1>3, <1>4, <1>5 DEF Fanout

\* What enters an inbox or the messages belongs to a pair that was active.
LEMMA FollowersOnlyStep ==
    ASSUME Types, CallEver, PageEver, FollowersOnly, [Next]_vars
    PROVE  FollowersOnly'
<1> SUFFICES ASSUME NEW p \in Pairs, ~EverIn(gen', p)
             PROVE  p \notin told' /\ \A m \in inbox'[p[1]] : AuthorOf[m.video] # p[2]
  BY DEF FollowersOnly, Ever, EverIn
<1>1. ~EverIn(gen, p)
  BY EverKept
<1>2. p \notin told /\ \A m \in inbox[p[1]] : AuthorOf[m.video] # p[2]
  BY <1>1 DEF FollowersOnly, Ever, EverIn
<1>3. /\ p[1] \in Users /\ p = <<p[1], p[2]>>
      /\ inbox \in [Users -> SUBSET Member]
  BY DEF Pairs, Types
<1>4. ASSUME NEW users, inbox' = PushedTo(users), worker.pc = "push" => users \subseteq worker.page,
             worker.pc # "push" => users = {}
      PROVE  \A m \in inbox'[p[1]] : AuthorOf[m.video] # p[2]
  <2>1. CASE p[1] \in users
    <3>1. p[1] \in worker.page /\ worker.pc = "push"
      BY <1>4, <2>1
    <3>2. AuthorOf[worker.video] # p[2]
      BY <1>1, <1>3, <3>1 DEF PageEver
    <3>3. inbox'[p[1]] \subseteq inbox[p[1]] \cup {[video |-> worker.video, stamp |-> "event"]}
      BY <1>3, <1>4, <2>1, AddedLemma DEF PushedTo
    <3> QED
      BY <1>2, <3>2, <3>3
  <2>2. CASE p[1] \notin users
    BY <1>2, <1>3, <1>4, <2>2 DEF PushedTo
  <2> QED
    BY <2>1, <2>2
<1>5. CASE PushInboxes
  BY <1>2, <1>4, <1>5 DEF PushInboxes, Idle
<1>6. CASE Requeue
  <2>1. PICK some \in (IF worker.pc = "push" THEN SUBSET worker.page ELSE {{}}) : inbox' = PushedTo(some)
    BY <1>6 DEF Requeue
  <2> QED
    BY <1>2, <1>4, <1>6, <2>1 DEF Requeue, Idle
<1>7. ASSUME NEW c \in Calls, PushBackfill(c)
      PROVE  p \notin told' /\ \A m \in inbox'[p[1]] : AuthorOf[m.video] # p[2]
  <2>1. EverIn(gen, call[c].pair) /\ \A v \in call[c].videos : AuthorOf[v] = call[c].pair[2]
    BY <1>7 DEF CallEver, PushBackfill
  <2>2. call[c].pair \in Pairs
    BY <1>7, CallShape DEF PushBackfill, Types, Backfill
  <2>3. PICK v \in call[c].videos :
            inbox' = [inbox EXCEPT ![call[c].pair[1]] = Added(@, [video |-> v, stamp |-> "row"], InboxMax)]
    BY <1>7 DEF PushBackfill, Recent
  <2>4. CASE call[c].pair[1] = p[1]
    <3>1. p[2] # call[c].pair[2]
      BY <1>1, <1>3, <2>1, <2>2, <2>4 DEF Pairs
    <3>2. inbox'[p[1]] \subseteq inbox[p[1]] \cup {[video |-> v, stamp |-> "row"]}
      BY <1>3, <2>3, <2>4, AddedLemma
    <3> QED
      BY <1>2, <1>7, <2>1, <3>1, <3>2 DEF PushBackfill
  <2>5. CASE call[c].pair[1] # p[1]
    BY <1>2, <1>3, <1>7, <2>3, <2>5 DEF PushBackfill
  <2> QED
    BY <2>4, <2>5
<1>8. ASSUME NEW c \in Calls, Notify(c)
      PROVE  p \notin told' /\ \A m \in inbox'[p[1]] : AuthorOf[m.video] # p[2]
  <2>1. EverIn(gen, call[c].pair)
    BY <1>8 DEF CallEver, Notify
  <2> QED
    BY <1>1, <1>2, <1>8, <2>1 DEF Notify, indexVars
<1>9. ASSUME NEW u \in Users, Expire(u)
      PROVE  p \notin told' /\ \A m \in inbox'[p[1]] : AuthorOf[m.video] # p[2]
  BY <1>2, <1>3, <1>9 DEF Expire
<1>10. CASE UNCHANGED <<inbox, told>>
  BY <1>2, <1>10
<1>11. CASE Outside \/ UNCHANGED vars
  BY <1>10, <1>11 DEF Outside, vars, indexVars
<1>12. ASSUME NEW c \in Calls, Commit(c) \/ CountForBackfill(c) \/ ListVideos(c) \/ BackfillFails(c)
       PROVE  p \notin told' /\ \A m \in inbox'[p[1]] : AuthorOf[m.video] # p[2]
  BY <1>10, <1>12 DEF Commit, CountForBackfill, ListVideos, BackfillFails, indexVars
<1>13. CASE Deliver \/ CountForFanout \/ PushOutbox \/ ListFollowers
  BY <1>10, <1>13 DEF Deliver, CountForFanout, PushOutbox, ListFollowers, Idle, indexVars
<1> QED
  BY <1>5, <1>6, <1>7, <1>8, <1>9, <1>11, <1>12, <1>13 DEF Next, Request, Fanout

\* Nobody's inbox holds a video of an author they never followed, and nobody is
\* told of a follow that never was, though requests with any key, cancellations
\* and the pages of a fan-out interleave.
THEOREM OnlyFollowersServed == Spec => []FollowersOnly
<1>1. Init => OnlyInv
  BY DEF Init, FollowInit, OnlyInv, ActiveEver, CallEver, PageEver, FollowersOnly, EverIn, Ready,
         Resting, NoRow, Pairs
<1>2. Types /\ OnlyInv /\ [Next]_vars => OnlyInv'
  BY ActiveStep, CallEverStep, PageEverStep, FollowersOnlyStep DEF OnlyInv
<1>3. OnlyInv => FollowersOnly
  BY DEF OnlyInv
<1> QED
  BY <1>1, <1>2, <1>3, TypesInit, TypesStep, PTL DEF Spec

-----------------------------------------------------------------------------
(* The first members of a finite set in the order of a relation.           *)

\* A set of natural numbers has a least.
LEMMA LeastRank ==
    ASSUME NEW N, N \subseteq Nat, N # {}
    PROVE  \E n \in N : \A m \in N : n <= m
<1> DEFINE less == {p \in Nat \X Nat : p[1] < p[2]}
<1>1. IsWellFoundedOn(less, Nat)
  BY NatLessThanWellFounded DEF OpToRel
<1> HIDE DEF less
<1>2. PICK n \in N : \A m \in N : ~(<<m, n>> \in less)
  BY <1>1, WFMin
<1>3. \A m \in N : m \in Nat /\ n \in Nat /\ ~(m < n)
  BY <1>2 DEF less
<1> QED
  BY <1>3

FirstOf(S, R, n) == {x \in S : Cardinality({y \in S : <<y, x>> \in R}) < n}

\* Those with fewer than n before them are at most n, and when some are left
\* out, n of them, all before those left out.
LEMMA FirstOnes ==
    ASSUME NEW S, IsFiniteSet(S), NEW R, NEW n \in Nat,
           \A x \in S : <<x, x>> \notin R,
           \A x, y \in S : x # y => <<x, y>> \in R \/ <<y, x>> \in R,
           \A x, y, z \in S : <<x, y>> \in R /\ <<y, z>> \in R => <<x, z>> \in R
    PROVE  /\ IsFiniteSet(FirstOf(S, R, n)) /\ Cardinality(FirstOf(S, R, n)) <= n
           /\ \A x \in S \ FirstOf(S, R, n) : /\ Cardinality(FirstOf(S, R, n)) >= n
                                              /\ \A y \in FirstOf(S, R, n) : <<y, x>> \in R
<1> DEFINE Before(x) == {y \in S : <<y, x>> \in R}
           rank == [x \in S |-> Cardinality(Before(x))]
           first == {x \in S : Cardinality(Before(x)) < n}
<1>1. \A x \in S : IsFiniteSet(Before(x)) /\ rank[x] \in Nat
  <2> SUFFICES ASSUME NEW x \in S PROVE IsFiniteSet(Before(x)) /\ rank[x] \in Nat
    OBVIOUS
  <2>1. Before(x) \in SUBSET S
    OBVIOUS
  <2>2. IsFiniteSet(Before(x))
    BY <2>1, FS_Subset
  <2> QED
    BY <2>2, FS_CardinalityType
<1>2. \A x, y \in S : <<x, y>> \in R => rank[x] < rank[y]
  <2> SUFFICES ASSUME NEW x \in S, NEW y \in S, <<x, y>> \in R PROVE rank[x] < rank[y]
    OBVIOUS
  <2>1. Before(x) \in SUBSET Before(y) /\ x \in Before(y) /\ x \notin Before(x)
    OBVIOUS
  <2>2. IsFiniteSet(Before(y))
    BY <1>1
  <2>3. Cardinality(Before(x)) <= Cardinality(Before(y)) /\ Cardinality(Before(x)) # Cardinality(Before(y))
    BY <2>1, <2>2, FS_Subset
  <2>4. rank[x] \in Nat /\ rank[y] \in Nat /\ rank[x] = Cardinality(Before(x))
        /\ rank[y] = Cardinality(Before(y))
    BY <1>1
  <2> HIDE DEF rank, Before
  <2> QED
    BY <2>3, <2>4
<1>3. first = {x \in S : rank[x] < n} /\ first \in SUBSET S
  OBVIOUS
<1>4. IsFiniteSet(first) /\ Cardinality(first) <= n
  <2> DEFINE f == [x \in first |-> rank[x]]
             T == 0..(n - 1)
  <2>1. f \in Injection(first, T)
    <3>1. f \in [first -> T]
      <4> SUFFICES ASSUME NEW x \in first PROVE rank[x] \in T
        OBVIOUS
      <4>1. rank[x] \in Nat /\ rank[x] < n
        BY <1>1, <1>3
      <4> QED
        BY <4>1
    <3>2. \A x, y \in first : x # y => f[x] # f[y]
      <4> SUFFICES ASSUME NEW x \in first, NEW y \in first, x # y PROVE rank[x] # rank[y]
        OBVIOUS
      <4>1. x \in S /\ y \in S
        OBVIOUS
      <4>2. rank[x] \in Nat /\ rank[y] \in Nat /\ (rank[x] < rank[y] \/ rank[y] < rank[x])
        BY <1>1, <1>2, <4>1
      <4> HIDE DEF rank
      <4> QED
        BY <4>2
    <3> HIDE DEF f, first, T
    <3> QED
      BY <3>1, <3>2 DEF Injection, IsInjective
  <2>2. IsFiniteSet(T) /\ Cardinality(T) = n
    BY FS_Interval
  <2> HIDE DEF f, first, T
  <2> QED
    BY <2>1, <2>2, FS_Injection
<1>5. ASSUME NEW x \in S \ first, NEW y \in first PROVE <<y, x>> \in R
  <2>1. rank[y] < n /\ ~(rank[x] < n) /\ rank[x] \in Nat /\ rank[y] \in Nat /\ x \in S /\ y \in S
    BY <1>1, <1>3, <1>5
  <2>2. ~(rank[x] < rank[y]) /\ rank[x] # rank[y]
    <3> HIDE DEF rank
    <3> QED
      BY <2>1
  <2>3. x # y /\ <<x, y>> \notin R
    BY <1>2, <2>1, <2>2
  <2> QED
    BY <2>1, <2>3
<1>6. ASSUME NEW x \in S \ first PROVE Cardinality(first) >= n
  <2> DEFINE ranks == {rank[z] : z \in S \ first}
  <2>1. ranks \in SUBSET Nat /\ rank[x] \in ranks
    <3>1. \A z \in S \ first : rank[z] \in Nat
      BY <1>1
    <3> HIDE DEF rank, first
    <3> QED
      BY <3>1
  <2>2. PICK k \in ranks : \A j \in ranks : k <= j
    <3> HIDE DEF ranks
    <3> QED
      BY <2>1, LeastRank
  <2>3. PICK z \in S \ first : rank[z] = k
    BY <2>2
  <2>4. Before(z) \in SUBSET first
    <3> SUFFICES ASSUME NEW y \in Before(z), y \notin first PROVE FALSE
      BY <1>3
    <3>1. y \in S /\ rank[y] < rank[z] /\ rank[y] \in ranks
      BY <1>2
    <3>2. rank[z] <= rank[y] /\ rank[y] \in Nat /\ rank[z] \in Nat
      BY <1>1, <2>2, <2>3, <3>1
    <3> HIDE DEF rank
    <3> QED
      BY <3>1, <3>2
  <2>5. Cardinality(Before(z)) <= Cardinality(first)
    BY <1>4, <2>4, FS_Subset
  <2>6. Cardinality(Before(z)) \in Nat /\ ~(Cardinality(Before(z)) < n)
    BY <1>1, <1>3, <2>3
  <2>7. Cardinality(first) \in Nat
    BY <1>4, FS_CardinalityType
  <2> HIDE DEF Before, first
  <2> QED
    BY <2>5, <2>6, <2>7
<1>7. first = FirstOf(S, R, n)
  BY DEF FirstOf
<1> HIDE DEF first
<1> QED
  BY <1>4, <1>5, <1>6, <1>7

\* What is left of a sorted set that is trimmed to n.
LEMMA NewestFirst ==
    ASSUME NEW members, members \subseteq Member, IsFiniteSet(members), NEW n \in Nat
    PROVE  /\ IsFiniteSet(Newest(members, n)) /\ Cardinality(Newest(members, n)) <= n
           /\ \A x \in members \ Newest(members, n) :
                  /\ Cardinality(Newest(members, n)) >= n
                  /\ \A y \in Newest(members, n) : Newer(y, x)
<1> DEFINE R == {p \in Member \X Member : Newer(p[1], p[2])}
<1>1. \A x \in members : x.video \in Nat /\ x.stamp \in {"event", "row"}
                         /\ x = [video |-> x.video, stamp |-> x.stamp] /\ x \in Member
  <2> SUFFICES ASSUME NEW x \in members
               PROVE  /\ x.video \in Nat /\ x.stamp \in {"event", "row"}
                      /\ x = [video |-> x.video, stamp |-> x.stamp] /\ x \in Member
    OBVIOUS
  <2>1. x \in [video : Videos, stamp : {"event", "row"}] /\ x \in Member
    BY DEF Member
  <2> QED
    BY <2>1, PublicationAssumption
<1>2. \A x, y \in members : <<x, y>> \in R <=> Newer(x, y)
  BY <1>1
<1>3. \A x \in members : <<x, x>> \notin R
  BY <1>1, <1>2 DEF Newer
<1>4. \A x, y \in members : x # y => <<x, y>> \in R \/ <<y, x>> \in R
  <2> SUFFICES ASSUME NEW x \in members, NEW y \in members, x # y PROVE Newer(x, y) \/ Newer(y, x)
    BY <1>2
  <2>1. x.video # y.video \/ x.stamp # y.stamp
    BY <1>1
  <2> QED
    BY <1>1, <2>1 DEF Newer
<1>5. \A x, y, z \in members : <<x, y>> \in R /\ <<y, z>> \in R => <<x, z>> \in R
  <2> SUFFICES ASSUME NEW x \in members, NEW y \in members, NEW z \in members,
                      Newer(x, y), Newer(y, z)
               PROVE  Newer(x, z)
    BY <1>2
  <2>1. x.video \in Nat /\ y.video \in Nat /\ z.video \in Nat
    BY <1>1
  <2> QED
    BY <2>1 DEF Newer
<1>6. \A x \in members : {y \in members : <<y, x>> \in R} = {y \in members : Newer(y, x)}
  BY <1>2
<1> HIDE DEF R
<1> DEFINE first == FirstOf(members, R, n)
<1>7. /\ IsFiniteSet(first) /\ Cardinality(first) <= n
      /\ \A x \in members \ first : /\ Cardinality(first) >= n
                                    /\ \A y \in first : <<y, x>> \in R
  BY <1>3, <1>4, <1>5, FirstOnes
<1>8. first = Newest(members, n) /\ first \subseteq members
  BY <1>6 DEF Newest, FirstOf
<1> HIDE DEF first
<1> QED
  BY <1>2, <1>7, <1>8

\* The newest videos of a set.
LEMMA RecentFirst ==
    ASSUME NEW videos, videos \subseteq Videos, IsFiniteSet(videos), NEW n \in Nat
    PROVE  /\ IsFiniteSet(Recent(videos, n)) /\ Cardinality(Recent(videos, n)) <= n
           /\ \A x \in videos \ Recent(videos, n) : Cardinality(Recent(videos, n)) >= n
<1> DEFINE R == {p \in Videos \X Videos : p[1] > p[2]}
<1>1. \A x \in videos : x \in Nat /\ x \in Videos
  BY PublicationAssumption
<1>2. \A x, y \in videos : <<x, y>> \in R <=> x > y
  BY <1>1
<1>3. \A x \in videos : <<x, x>> \notin R
  BY <1>1, <1>2
<1>4. \A x, y \in videos : x # y => <<x, y>> \in R \/ <<y, x>> \in R
  BY <1>1, <1>2
<1>5. \A x, y, z \in videos : <<x, y>> \in R /\ <<y, z>> \in R => <<x, z>> \in R
  <2> SUFFICES ASSUME NEW x \in videos, NEW y \in videos, NEW z \in videos, x > y, y > z
               PROVE  x > z
    BY <1>2
  <2> QED
    BY <1>1
<1>6. \A x \in videos : {y \in videos : <<y, x>> \in R} = {y \in videos : y > x}
  BY <1>2
<1> HIDE DEF R
<1> DEFINE first == FirstOf(videos, R, n)
<1>7. /\ IsFiniteSet(first) /\ Cardinality(first) <= n
      /\ \A x \in videos \ first : /\ Cardinality(first) >= n
                                   /\ \A y \in first : <<y, x>> \in R
  BY <1>3, <1>4, <1>5, FirstOnes
<1>8. first = Recent(videos, n) /\ first \subseteq videos
  BY <1>6 DEF Recent, FirstOf
<1> HIDE DEF first
<1> QED
  BY <1>7, <1>8

\* A page of followers holds all that follow the cursor, or it is full and they
\* come later.
LEMMA PageFirst ==
    ASSUME NEW a \in Users, NEW cursor, NEW u \in Followers(a), u > cursor
    PROVE  \/ u \in Page(a, cursor)
           \/ /\ Cardinality(Page(a, cursor)) >= BatchSize
              /\ \A w \in Page(a, cursor) : w < u
<1> DEFINE after == {w \in Followers(a) : w > cursor}
           R == {p \in Users \X Users : p[1] < p[2]}
<1>1. \A x \in after : x \in Nat /\ x \in Users
  BY FollowAssumption DEF Followers
<1>2. \A x, y \in after : <<x, y>> \in R <=> x < y
  BY <1>1
<1>3. \A x \in after : <<x, x>> \notin R
  BY <1>1, <1>2
<1>4. \A x, y \in after : x # y => <<x, y>> \in R \/ <<y, x>> \in R
  <2> SUFFICES ASSUME NEW x \in after, NEW y \in after, x # y PROVE x < y \/ y < x
    BY <1>2
  <2> QED
    BY <1>1
<1>5. \A x, y, z \in after : <<x, y>> \in R /\ <<y, z>> \in R => <<x, z>> \in R
  <2> SUFFICES ASSUME NEW x \in after, NEW y \in after, NEW z \in after, x < y, y < z
               PROVE  x < z
    BY <1>2
  <2> QED
    BY <1>1
<1>6. \A x \in after : {y \in after : <<y, x>> \in R} = {y \in after : y < x}
  BY <1>2
<1>7. IsFiniteSet(after)
  <2>1. IsFiniteSet(Followers(a)) /\ after \in SUBSET Followers(a)
    BY DegreesFinite
  <2> QED
    BY <2>1, FS_Subset
<1>8. BatchSize \in Nat
  BY FollowingAssumption
<1>9. u \in after /\ Page(a, cursor) = {x \in after : Cardinality({w \in after : w < x}) < BatchSize}
  BY DEF Page
<1> HIDE DEF R, after
<1> DEFINE first == FirstOf(after, R, BatchSize)
<1>10. \A x \in after \ first : /\ Cardinality(first) >= BatchSize
                                /\ \A y \in first : <<y, x>> \in R
  BY <1>3, <1>4, <1>5, <1>7, <1>8, FirstOnes
<1>11. first = Page(a, cursor) /\ first \subseteq after
  BY <1>6, <1>9 DEF FirstOf
<1> HIDE DEF first
<1> QED
  BY <1>2, <1>9, <1>10, <1>11

-----------------------------------------------------------------------------
\* The set holds the video, or newer ones have taken its place.
HasOrFull(members, v, max) ==
    \/ \E m \in members : m.video = v
    \/ Cardinality({m \in members : m.video > v}) >= max

\* Trimming takes nothing from that.
LEMMA NewestKeeps ==
    ASSUME NEW members, members \subseteq Member, IsFiniteSet(members), NEW max \in Nat,
           NEW v \in Nat, HasOrFull(members, v, max)
    PROVE  HasOrFull(Newest(members, max), v, max)
<1> DEFINE N == Newest(members, max)
<1>1. /\ N \subseteq members /\ IsFiniteSet(N)
      /\ \A x \in members \ N : Cardinality(N) >= max /\ \A y \in N : Newer(y, x)
  BY NewestFirst DEF Newest
<1>2. \A x \in members : x.video \in Nat
  BY PublicationAssumption DEF Member
<1>3. ASSUME NEW x \in members \ N, x.video >= v
      PROVE  HasOrFull(N, v, max)
  <2>1. \A y \in N : y.video = v \/ y.video > v
    BY <1>1, <1>2, <1>3 DEF Newer
  <2>2. CASE \E y \in N : y.video = v
    BY <2>2 DEF HasOrFull
  <2>3. CASE ~(\E y \in N : y.video = v)
    <3>1. {y \in N : y.video > v} = N
      BY <2>1, <2>3
    <3> HIDE DEF N
    <3> QED
      BY <1>1, <1>3, <3>1 DEF HasOrFull
  <2> QED
    BY <2>2, <2>3
<1>4. CASE \E x \in members : x.video = v
  <2>1. PICK x \in members : x.video = v
    BY <1>4
  <2>2. CASE x \in N
    BY <2>1, <2>2 DEF HasOrFull
  <2>3. CASE x \notin N
    BY <1>2, <1>3, <2>1, <2>3
  <2> QED
    BY <2>2, <2>3
<1>5. CASE Cardinality({x \in members : x.video > v}) >= max
  <2>1. CASE {x \in members : x.video > v} \subseteq N
    <3>1. {x \in members : x.video > v} = {x \in N : x.video > v}
      BY <1>1, <2>1
    <3> QED
      BY <1>5, <3>1 DEF HasOrFull
  <2>2. CASE ~({x \in members : x.video > v} \subseteq N)
    BY <1>2, <1>3, <2>2
  <2> QED
    BY <2>1, <2>2
<1> HIDE DEF N
<1> QED
  BY <1>4, <1>5 DEF HasOrFull

\* An addition makes room for itself, unless newer members leave none.
LEMMA AddedKeeps ==
    ASSUME NEW members, members \subseteq Member, IsFiniteSet(members), NEW max \in Nat,
           NEW v \in Nat, NEW m \in Member, HasOrFull(members, v, max) \/ m.video = v
    PROVE  HasOrFull(Added(members, m, max), v, max)
<1> DEFINE more == members \cup {m}
<1>1. more \subseteq Member /\ IsFiniteSet(more)
  BY FS_AddElement
<1>2. HasOrFull(more, v, max)
  <2>1. CASE \E x \in more : x.video = v
    BY <2>1 DEF HasOrFull
  <2>2. CASE Cardinality({x \in members : x.video > v}) >= max
    <3>1. {x \in members : x.video > v} \in SUBSET {x \in more : x.video > v}
          /\ {x \in more : x.video > v} \in SUBSET more
      OBVIOUS
    <3>2. IsFiniteSet({x \in more : x.video > v})
      BY <1>1, <3>1, FS_Subset
    <3>3. Cardinality({x \in members : x.video > v}) <= Cardinality({x \in more : x.video > v})
          /\ IsFiniteSet({x \in members : x.video > v})
      BY <3>1, <3>2, FS_Subset
    <3>4. Cardinality({x \in members : x.video > v}) \in Nat
          /\ Cardinality({x \in more : x.video > v}) \in Nat
      BY <3>2, <3>3, FS_CardinalityType
    <3>5. Cardinality({x \in more : x.video > v}) >= max
      <4> PICK i \in Nat, j \in Nat : i = Cardinality({x \in members : x.video > v})
                                      /\ j = Cardinality({x \in more : x.video > v})
        BY <3>4
      <4> QED
        BY <2>2, <3>3
    <3> QED
      BY <3>5 DEF HasOrFull
  <2> QED
    BY <2>1, <2>2 DEF HasOrFull
<1>3. Added(members, m, max) = Newest(more, max)
  BY DEF Added
<1> HIDE DEF more
<1> QED
  BY <1>1, <1>2, <1>3, NewestKeeps

\* What an addition leaves is a bounded sorted set.
LEMMA AddedBounded ==
    ASSUME NEW members, members \subseteq Member, IsFiniteSet(members), NEW max \in Nat,
           NEW m \in Member
    PROVE  /\ Added(members, m, max) \subseteq Member
           /\ IsFiniteSet(Added(members, m, max))
           /\ Cardinality(Added(members, m, max)) <= max
<1>1. members \cup {m} \subseteq Member /\ IsFiniteSet(members \cup {m})
  BY FS_AddElement
<1> QED
  BY <1>1, NewestFirst, AddedLemma DEF Added

-----------------------------------------------------------------------------
(* The types that Types leaves out.                                        *)

Bounded(members, max) ==
    members \subseteq Member /\ IsFiniteSet(members) /\ Cardinality(members) <= max

SetsBounded ==
    /\ outbox \in [Users -> SUBSET Member]
    /\ \A u \in Users : Bounded(inbox[u], InboxMax) /\ Bounded(outbox[u], OutboxMax)

\* What is published, queued, fanned out or counted as crossed is saved.
OnlySaved ==
    /\ IsFiniteSet(saved)
    /\ unsent \subseteq saved /\ crossed \subseteq saved
    /\ events \in Seq(saved)
    /\ \A v \in Videos : upload[v].pc = "publish" => v \in saved
    /\ worker # Resting => worker.video \in saved

\* Locks and histories.
Marks ==
    /\ owner \in [Users -> Calls \cup {Nobody}]
    /\ served \in [Pairs -> Nat]
    /\ lapsed \subseteq Users

MoreTypes == SetsBounded /\ OnlySaved /\ Marks

\* An addition to some of the inboxes.
LEMMA PushedBounded ==
    ASSUME Types, SetsBounded, worker.video \in Videos, NEW users, NEW u \in Users
    PROVE  Bounded(PushedTo(users)[u], InboxMax)
<1>1. [video |-> worker.video, stamp |-> "event"] \in Member /\ InboxMax \in Nat
  BY FollowingAssumption DEF Member
<1>2. Bounded(inbox[u], InboxMax)
  BY DEF SetsBounded
<1>3. Bounded(Added(inbox[u], [video |-> worker.video, stamp |-> "event"], InboxMax), InboxMax)
  BY <1>1, <1>2, AddedBounded DEF Bounded
<1> QED
  BY <1>2, <1>3 DEF PushedTo

LEMMA SetsStep ==
    ASSUME Types, SetsBounded, [Next]_vars
    PROVE  SetsBounded'
<1>0. /\ inbox \in [Users -> SUBSET Member] /\ outbox \in [Users -> SUBSET Member]
      /\ \A u \in Users : Bounded(inbox[u], InboxMax) /\ Bounded(outbox[u], OutboxMax)
      /\ InboxMax \in Nat /\ OutboxMax \in Nat
  BY FollowingAssumption DEF Types, SetsBounded
<1>1. CASE UNCHANGED indexVars
  BY <1>1 DEF indexVars, SetsBounded
<1>2. ASSUME NEW c \in Calls, PushBackfill(c) PROVE SetsBounded'
  <2>1. PICK v \in call[c].videos : inbox' = [inbox EXCEPT ![call[c].pair[1]] =
                                       Added(@, [video |-> v, stamp |-> "row"], InboxMax)]
    BY <1>2 DEF PushBackfill, Recent
  <2>2. call[c].pair[1] \in Users /\ v \in Videos
    <3>1. call[c] \in Backfill
      BY <1>2, CallShape DEF PushBackfill, Types
    <3> QED
      BY <3>1 DEF Backfill, Pairs
  <2>3. [video |-> v, stamp |-> "row"] \in Member
    BY <2>2 DEF Member
  <2>4. Bounded(Added(inbox[call[c].pair[1]], [video |-> v, stamp |-> "row"], InboxMax), InboxMax)
    BY <1>0, <2>2, <2>3, AddedBounded DEF Bounded
  <2>5. \A u \in Users : Bounded(inbox'[u], InboxMax)
    BY <1>0, <2>1, <2>2, <2>4
  <2> QED
    BY <1>0, <1>2, <2>5 DEF PushBackfill, SetsBounded
<1>3. CASE PushOutbox
  <2>1. worker.video \in Videos /\ AuthorOf[worker.video] \in Users
    BY <1>3, WorkShape, FollowingAssumption DEF PushOutbox, Types
  <2>2. [video |-> worker.video, stamp |-> "event"] \in Member
    BY <2>1 DEF Member
  <2>3. Bounded(Added(outbox[AuthorOf[worker.video]], [video |-> worker.video, stamp |-> "event"],
                      OutboxMax), OutboxMax)
    BY <1>0, <2>1, <2>2, AddedBounded DEF Bounded
  <2>4. outbox' \in [Users -> SUBSET Member] /\ \A u \in Users : Bounded(outbox'[u], OutboxMax)
    BY <1>0, <1>3, <2>1, <2>3 DEF PushOutbox, Bounded
  <2> QED
    BY <1>0, <1>3, <2>4 DEF PushOutbox, SetsBounded
<1>4. CASE PushInboxes \/ Requeue
  <2>1. worker.video \in Videos
    BY <1>4, WorkShape DEF PushInboxes, Requeue, Types, Resting
  <2>2. PICK users : inbox' = PushedTo(users)
    BY <1>4 DEF PushInboxes, Requeue
  <2>3. \A u \in Users : Bounded(inbox'[u], InboxMax)
    BY <2>1, <2>2, PushedBounded
  <2> QED
    BY <1>0, <1>4, <2>3 DEF PushInboxes, Requeue, SetsBounded
<1>5. ASSUME NEW w \in Users, Expire(w) PROVE SetsBounded'
  <2>1. Bounded({}, InboxMax) /\ Bounded({}, OutboxMax)
    BY <1>0, FS_EmptySet DEF Bounded
  <2> QED
    BY <1>0, <1>5, <2>1 DEF Expire, SetsBounded
<1>6. CASE Outside \/ UNCHANGED vars
  BY <1>1, <1>6 DEF Outside, vars
<1>7. ASSUME NEW c \in Calls,
             Commit(c) \/ CountForBackfill(c) \/ ListVideos(c) \/ Notify(c) \/ BackfillFails(c)
      PROVE  SetsBounded'
  BY <1>1, <1>7 DEF Commit, CountForBackfill, ListVideos, Notify, BackfillFails
<1>8. CASE Deliver \/ CountForFanout \/ ListFollowers
  BY <1>1, <1>8 DEF Deliver, CountForFanout, ListFollowers
<1> QED
  BY <1>2, <1>3, <1>4, <1>5, <1>6, <1>7, <1>8 DEF Next, Request, Fanout

\* A step of the publication saves a video before its event is sent.
LEMMA UploadSaved ==
    ASSUME Types, OnlySaved, NEW v \in Videos, Outside,
           (\E key \in UploadKeys \cup {NoUploadKey} : Create(v, key)) \/ UploadStep(v) \/ UploadEnds(v)
    PROVE  OnlySaved'
<1>1. upload \in [Videos -> Upload] /\ upload[v] \in Upload /\ saved \subseteq Videos
  BY DEF Types
<1>2. /\ saved' = saved \/ saved' = saved \cup {v}
      /\ events' = events \/ (events' = Append(events, v) /\ v \in saved)
      /\ unsent' \subseteq unsent \cup {v} /\ (unsent' \subseteq unsent \/ v \in saved')
  BY DEF Create, UploadStep, UploadEnds, Find, Save, Load, PublishEvent, OnlySaved
<1>3. IsFiniteSet(saved') /\ saved \subseteq saved' /\ unsent' \subseteq saved'
      /\ crossed' \subseteq saved'
  BY <1>2, FS_AddElement DEF OnlySaved, Outside, historyVars
<1>4. events' \in Seq(saved')
  <2>1. events \in Seq(saved')
    BY <1>3 DEF OnlySaved
  <2>2. CASE events' = Append(events, v) /\ v \in saved
    <3>1. v \in saved'
      BY <1>3, <2>2
    <3>2. Append(events, v) \in Seq(saved')
      BY <2>1, <3>1
    <3> QED
      BY <2>2, <3>2
  <2> QED
    BY <1>2, <2>1, <2>2
<1>5. ASSUME NEW w \in Videos, upload'[w].pc = "publish" PROVE w \in saved'
  <2>1. CASE w # v
    <3>1. upload'[w] = upload[w]
      BY <1>1, <2>1 DEF Create, UploadStep, UploadEnds, Find, Save, Load, PublishEvent, UploadAt,
                        UploadOver
    <3> QED
      BY <1>3, <1>5, <3>1 DEF OnlySaved
  <2>2. CASE w = v /\ saved' = saved \cup {v}
    BY <2>2
  <2>3. CASE w = v /\ saved' # saved \cup {v}
    <3>1. \/ \E pc \in {"save", "load"} : upload' = [upload EXCEPT ![v].pc = pc]
          \/ UploadOver(v)
          \/ \E pc \in {"find", "save"}, key \in UploadKeys \cup {NoUploadKey} :
                 upload' = [upload EXCEPT ![v] = [pc |-> pc, key |-> key]]
      BY <2>3 DEF Create, UploadStep, UploadEnds, Find, Save, Load, PublishEvent, UploadAt
    <3>2. \A pc \in {"save", "load"} : [upload[v] EXCEPT !.pc = pc].pc = pc
      BY <1>1 DEF Upload
    <3>3. CASE \E pc \in {"save", "load"} : upload' = [upload EXCEPT ![v].pc = pc]
      BY <1>1, <1>5, <2>3, <3>2, <3>3
    <3>4. CASE UploadOver(v)
      BY <1>1, <1>5, <2>3, <3>4 DEF UploadOver
    <3> QED
      BY <1>1, <1>5, <2>3, <3>1, <3>3, <3>4
  <2> QED
    BY <2>1, <2>2, <2>3
<1>6. worker' = worker
  BY DEF Outside
<1> QED
  BY <1>3, <1>4, <1>5, <1>6 DEF OnlySaved

LEMMA SavedStep ==
    ASSUME Types, OnlySaved, [Next]_vars
    PROVE  OnlySaved'
<1>1. CASE UNCHANGED <<publicationVars, worker>> /\ crossed' \subseteq saved
  BY <1>1 DEF publicationVars, OnlySaved
<1>2. CASE Outside /\ (UNCHANGED publicationVars
                       \/ \E v \in Videos : \/ \E key \in UploadKeys \cup {NoUploadKey} : Create(v, key)
                                            \/ UploadStep(v)
                                            \/ UploadEnds(v))
  <2>1. CASE UNCHANGED publicationVars
    <3>1. crossed' \subseteq saved /\ worker' = worker
      BY <1>2 DEF Outside, historyVars, OnlySaved
    <3> QED
      BY <1>1, <2>1, <3>1
  <2> QED
    BY <1>2, <2>1, UploadSaved
<1>3. ASSUME NEW c \in Calls, Commit(c) PROVE OnlySaved'
  BY <1>1, <1>3 DEF Commit
<1>4. ASSUME NEW c \in Calls, CountForBackfill(c) \/ ListVideos(c) \/ PushBackfill(c) \/ Notify(c)
                              \/ BackfillFails(c)
      PROVE  OnlySaved'
  <2>1. UNCHANGED <<publicationVars, worker>> /\ crossed' = crossed
    BY <1>4 DEF CountForBackfill, ListVideos, PushBackfill, Notify, BackfillFails, historyVars
  <2> QED
    BY <1>1, <2>1 DEF OnlySaved
<1>5. ASSUME NEW u \in Users, Expire(u) PROVE OnlySaved'
  BY <1>1, <1>5 DEF Expire, OnlySaved
<1>6. CASE Deliver
  <2>1. Head(events) \in saved /\ Tail(events) \in Seq(saved)
    BY <1>6 DEF Deliver, OnlySaved
  <2> QED
    BY <1>6, <2>1 DEF Deliver, Idle, historyVars, OnlySaved
<1>7. CASE Requeue
  <2>1. events' \in Seq(saved)
    BY <1>7, RequeuedLemma DEF Requeue, Requeued, OnlySaved
  <2> QED
    BY <1>7, <2>1 DEF Requeue, Idle, historyVars, OnlySaved
<1>8. CASE Fanout
  <2>1. worker # Resting
    BY <1>8 DEF Fanout, CountForFanout, PushOutbox, ListFollowers, PushInboxes, Resting
  <2>2. worker.video \in saved
    BY <2>1 DEF OnlySaved
  <2>3. worker' # Resting => worker'.video = worker.video
    <3>1. CASE CountForFanout
      <4>1. worker \in [pc : {"count", "outbox"}, video : Videos]
        BY <3>1, WorkShape DEF CountForFanout, Types
      <4> QED
        BY <3>1, <4>1 DEF CountForFanout
    <3> QED
      BY <1>8, <3>1 DEF Fanout, PushOutbox, ListFollowers, PushInboxes
  <2>4. UNCHANGED <<upload, saved, unsent, events, crossed>>
    BY <1>8 DEF Fanout, CountForFanout, PushOutbox, ListFollowers, PushInboxes, Idle, historyVars
  <2> QED
    BY <2>2, <2>3, <2>4 DEF OnlySaved
<1>9. CASE UNCHANGED vars
  BY <1>1, <1>9 DEF vars, publicationVars, historyVars, OnlySaved
<1> QED
  BY <1>2, <1>3, <1>4, <1>5, <1>6, <1>7, <1>8, <1>9 DEF Next, Request, Victim

LEMMA MarksStep ==
    ASSUME Types, Marks, [Next]_vars
    PROVE  Marks'
<1>0. owner \in [Users -> Calls \cup {Nobody}] /\ served \in [Pairs -> Nat] /\ lapsed \subseteq Users
  BY DEF Marks
<1>1. CASE UNCHANGED <<served, lapsed>> /\ owner' \in [Users -> Calls \cup {Nobody}]
  BY <1>0, <1>1 DEF Marks
<1>2. ASSUME NEW c \in Calls PROVE Released(c) \in [Users -> Calls \cup {Nobody}]
  BY <1>0 DEF Released
<1>3. ASSUME NEW c \in Calls, NEW u, NEW next, Lock(c, u, next)
      PROVE  owner' \in [Users -> Calls \cup {Nobody}]
  BY <1>0, <1>3 DEF Lock
<1>4. ASSUME NEW c \in Calls, LockUser(c) \/ LockTarget(c) \/ RollBack(c), Outside PROVE Marks'
  BY <1>1, <1>2, <1>3, <1>4 DEF LockUser, LockTarget, RollBack, Outside, historyVars
<1>5. ASSUME NEW c \in Calls, Commit(c) PROVE Marks'
  BY <1>1, <1>2, <1>5 DEF Commit
<1>6. ASSUME NEW c \in Calls, CountForBackfill(c) \/ ListVideos(c) \/ PushBackfill(c) \/ BackfillFails(c)
      PROVE  Marks'
  BY <1>0, <1>1, <1>6 DEF CountForBackfill, ListVideos, PushBackfill, BackfillFails, historyVars
<1>7. ASSUME NEW c \in Calls, Notify(c) PROVE Marks'
  <2>1. call[c] \in Backfill
    BY <1>7, CallShape DEF Notify, Types
  <2>2. call[c].gen \in Nat
    BY <2>1 DEF Backfill
  <2>3. served' \in [Pairs -> Nat]
    BY <1>0, <1>7, <2>2 DEF Notify
  <2> QED
    BY <1>0, <1>7, <2>3 DEF Notify, Marks
<1>8. ASSUME NEW u \in Users, Expire(u) PROVE Marks'
  BY <1>0, <1>8 DEF Expire, followVars, Marks
<1>9. CASE UNCHANGED owner /\ UNCHANGED historyVars
  BY <1>0, <1>1, <1>9 DEF historyVars
<1>10. CASE Deliver \/ Fanout \/ Requeue
  BY <1>9, <1>10 DEF Deliver, Fanout, CountForFanout, PushOutbox, ListFollowers, PushInboxes,
                     Requeue, Idle, followVars
<1>11. CASE UNCHANGED vars
  BY <1>9, <1>11 DEF vars, followVars
<1>12. CASE UNCHANGED followVars /\ Outside
  BY <1>9, <1>12 DEF followVars, Outside
<1>13. ASSUME NEW c \in Calls, NEW p \in Asks[c], NEW active \in BOOLEAN,
              NEW key \in Keys \cup {NoKey}, Begin(c, p, active, key), Outside
       PROVE  Marks'
  BY <1>9, <1>13 DEF Begin, Outside
<1> QED
  BY <1>4, <1>5, <1>6, <1>7, <1>8, <1>10, <1>11, <1>12, <1>13 DEF Next, Request, Victim

LEMMA MoreTypesInit == Init => MoreTypes
<1> SUFFICES ASSUME Init PROVE MoreTypes
  OBVIOUS
<1>1. Bounded({}, InboxMax) /\ Bounded({}, OutboxMax)
  BY FollowingAssumption, FS_EmptySet DEF Bounded
<1>2. SetsBounded
  BY <1>1 DEF Init, SetsBounded
<1>3. OnlySaved
  BY FS_EmptySet DEF Init, PublicationInit, OnlySaved
<1>4. Marks
  BY DEF Init, FollowInit, Marks
<1> QED
  BY <1>2, <1>3, <1>4 DEF MoreTypes

LEMMA MoreTypesStep == Types /\ MoreTypes /\ [Next]_vars => MoreTypes'
BY SetsStep, SavedStep, MarksStep DEF MoreTypes

\* Every variable keeps its type; no inbox and no outbox outgrows its bound, and
\* what is queued for the fan-out is saved.
THEOREM FollowingTyped == Spec => []TypeOK
<1>1. Types /\ MoreTypes => TypeOK
  BY DEF Types, MoreTypes, SetsBounded, OnlySaved, Marks, Bounded, TypeOK
<1> QED
  BY <1>1, TypesInit, TypesStep, MoreTypesInit, MoreTypesStep, PTL DEF Spec

-----------------------------------------------------------------------------
(* A short page is the last.                                               *)

\* The values of a function on a finite set are finitely many.
LEMMA ImageFinite ==
    ASSUME NEW S, IsFiniteSet(S), NEW f, f = [x \in S |-> f[x]]
    PROVE  IsFiniteSet({f[x] : x \in S})
<1> DEFINE T == {f[x] : x \in S}
<1>1. f \in [S -> T] /\ \A t \in T : \E s \in S : f[s] = t
  OBVIOUS
<1> HIDE DEF T
<1>2. f \in Surjection(S, T)
  BY <1>1 DEF Surjection
<1>3. IsFiniteSet(T)
  BY <1>2, FS_Surjection
<1> QED
  BY <1>3 DEF T

LEMMA VideosFinite ==
    ASSUME NEW members, IsFiniteSet(members)
    PROVE  IsFiniteSet(VideosIn(members))
<1> DEFINE f == [m \in members |-> m.video]
<1>1. f = [m \in members |-> f[m]] /\ {f[m] : m \in members} = VideosIn(members)
  BY DEF VideosIn
<1> HIDE DEF f
<1> QED
  BY <1>1, ImageFinite

\* Where a set holds no video twice, none of its subsets does.
LEMMA NoneTwice ==
    ASSUME NEW members, IsFiniteSet(members),
           Cardinality(members) = Cardinality(VideosIn(members)), NEW some \in SUBSET members
    PROVE  Cardinality(VideosIn(some)) = Cardinality(some)
<1> DEFINE f == [m \in members |-> m.video]
           g == [m \in some |-> m.video]
<1>1. f \in [members -> VideosIn(members)] /\ \A t \in VideosIn(members) : \E m \in members : f[m] = t
  BY DEF VideosIn
<1>2. g \in [some -> VideosIn(some)] /\ \A t \in VideosIn(some) : \E m \in some : g[m] = t
  BY DEF VideosIn
<1>3. \A m \in members : f[m] = m.video
  OBVIOUS
<1>4. \A m \in some : g[m] = m.video
  OBVIOUS
<1> HIDE DEF f, g
<1>5. f \in Surjection(members, VideosIn(members)) /\ g \in Surjection(some, VideosIn(some))
  BY <1>1, <1>2 DEF Surjection
<1>6. f \in Injection(members, VideosIn(members))
  BY <1>5, FS_Surjection
<1>7. \A m, n \in members : m.video = n.video => m = n
  BY <1>3, <1>6 DEF Injection, IsInjective
<1>8. g \in Injection(some, VideosIn(some))
  BY <1>2, <1>4, <1>7 DEF Injection, IsInjective
<1>9. IsFiniteSet(some)
  BY FS_Subset
<1> QED
  BY <1>5, <1>8, <1>9, FS_Surjection

LEMMA StreamsFinite ==
    ASSUME Types, SetsBounded, NEW u \in Users
    PROVE  /\ IsFiniteSet(Streams(u))
           /\ \A s \in Streams(u) : s \subseteq Member /\ IsFiniteSet(s)
<1> DEFINE f == [a \in PullAuthors(u) |-> outbox[a]]
<1>1. PullAuthors(u) \in SUBSET Users /\ PullAuthors(u) \in SUBSET Followed(u)
  BY DEF PullAuthors, Followed
<1>2. IsFiniteSet(PullAuthors(u))
  BY <1>1, DegreesFinite, FS_Subset
<1>3. f = [a \in PullAuthors(u) |-> f[a]] /\ {f[a] : a \in PullAuthors(u)} = {outbox[a] : a \in PullAuthors(u)}
  OBVIOUS
<1> HIDE DEF f
<1>4. IsFiniteSet({outbox[a] : a \in PullAuthors(u)})
  BY <1>2, <1>3, ImageFinite
<1>5. IsFiniteSet({inbox[u]} \cup {outbox[a] : a \in PullAuthors(u)})
  BY <1>4, FS_Singleton, FS_Union
<1>6. \A s \in Streams(u) : s \subseteq Member /\ IsFiniteSet(s)
  BY <1>1 DEF Streams, SetsBounded, Bounded
<1> QED
  BY <1>5, <1>6 DEF Streams

\* The videos of all sources, of which a page takes the newest.
Offered(u, cursor, n) ==
    UNION {VideosIn(Newest({m \in s : m.video < cursor}, n)) : s \in Streams(u)}

LEMMA MergeFinite ==
    ASSUME Types, SetsBounded, NEW u \in Users, NEW cursor, NEW n \in Nat
    PROVE  IsFiniteSet(Offered(u, cursor, n)) /\ Offered(u, cursor, n) \subseteq Videos
<1> DEFINE f == [s \in Streams(u) |-> VideosIn(Newest({m \in s : m.video < cursor}, n))]
           parts == {VideosIn(Newest({m \in s : m.video < cursor}, n)) : s \in Streams(u)}
<1>1. \A s \in Streams(u) : IsFiniteSet(VideosIn(Newest({m \in s : m.video < cursor}, n)))
                            /\ VideosIn(Newest({m \in s : m.video < cursor}, n)) \subseteq Videos
  <2> SUFFICES ASSUME NEW s \in Streams(u)
               PROVE  IsFiniteSet(VideosIn(Newest({m \in s : m.video < cursor}, n)))
                      /\ VideosIn(Newest({m \in s : m.video < cursor}, n)) \subseteq Videos
    OBVIOUS
  <2> DEFINE below == {m \in s : m.video < cursor}
  <2>1. s \subseteq Member /\ IsFiniteSet(s) /\ below \in SUBSET s
    BY StreamsFinite
  <2>2. below \subseteq Member /\ IsFiniteSet(below)
    BY <2>1, FS_Subset
  <2> HIDE DEF below
  <2>3. IsFiniteSet(Newest(below, n)) /\ Newest(below, n) \subseteq Member
    BY <2>2, NewestFirst DEF Newest
  <2>4. IsFiniteSet(VideosIn(Newest(below, n)))
    BY <2>3, VideosFinite
  <2>5. VideosIn(Newest(below, n)) \subseteq Videos
    BY <2>3 DEF VideosIn, Member
  <2> QED
    BY <2>4, <2>5 DEF below
<1>2. f = [s \in Streams(u) |-> f[s]] /\ {f[s] : s \in Streams(u)} = parts
  OBVIOUS
<1>3. \A t \in parts : IsFiniteSet(t) /\ t \subseteq Videos
  BY <1>1
<1> HIDE DEF f
<1>4. IsFiniteSet(parts)
  <2> HIDE DEF parts
  <2> QED
    BY <1>2, StreamsFinite, ImageFinite
<1> HIDE DEF parts
<1>5. IsFiniteSet(UNION parts) /\ UNION parts \subseteq Videos
  BY <1>3, <1>4, FS_UNION
<1> QED
  BY <1>5 DEF parts, Offered

\* A page with room for one more has all that its sources have.
LEMMA ShortPage ==
    ASSUME Types, SetsBounded, NEW u \in Users, NEW cursor, HasIndex(u),
           \A s \in Streams(u) : Cardinality(s) = Cardinality(VideosIn(s)),
           Cardinality(Merged(u, cursor, PageSize + 1)) <= PageSize,
           NEW v \in Shown(u), v < cursor
    PROVE  v \in Merged(u, cursor, PageSize + 1)
<1> DEFINE n == PageSize + 1
           all == Offered(u, cursor, n)
<1>1. PageSize \in Nat /\ n \in Nat
  BY FollowingAssumption
<1>2. IsFiniteSet(all) /\ all \subseteq Videos
  <2> HIDE DEF n
  <2> QED
    BY <1>1, MergeFinite
<1>3. Merged(u, cursor, n) = Recent(all, n)
  BY DEF Merged, Offered
<1>41. PICK s \in Streams(u) : \E m \in s : m.video = v
  BY DEF Shown, VideosIn
<1>4. PICK m \in s : m.video = v
  BY <1>41
<1> DEFINE below == {x \in s : x.video < cursor}
<1>5. s \subseteq Member /\ IsFiniteSet(s) /\ below \in SUBSET s /\ m \in below
  BY <1>4, StreamsFinite
<1>6. VideosIn(Newest(below, n)) \subseteq all
  BY DEF Offered
<1> HIDE DEF all, below, n
<1>7. all = Recent(all, n)
  <2>1. Recent(all, n) \subseteq all
    BY DEF Recent
  <2>2. IsFiniteSet(Recent(all, n))
    BY <1>1, <1>2, RecentFirst
  <2>3. Cardinality(Recent(all, n)) \in Nat /\ Cardinality(Recent(all, n)) <= PageSize
    BY <1>3, <2>2, FS_CardinalityType DEF n
  <2>4. ~(Cardinality(Recent(all, n)) >= n)
    BY <1>1, <2>3 DEF n
  <2> QED
    BY <1>1, <1>2, <2>1, <2>4, RecentFirst
<1>8. below \subseteq Member /\ IsFiniteSet(below)
  BY <1>5, FS_Subset
<1>9. CASE m \in Newest(below, n)
  BY <1>3, <1>4, <1>6, <1>7, <1>9 DEF VideosIn, n
<1>10. CASE m \notin Newest(below, n)
  <2>1. Cardinality(Newest(below, n)) >= n
    BY <1>1, <1>5, <1>8, <1>10, NewestFirst
  <2>2. Newest(below, n) \in SUBSET s
    BY <1>5 DEF Newest
  <2>3. Cardinality(VideosIn(Newest(below, n))) = Cardinality(Newest(below, n))
    BY <1>5, <2>2, NoneTwice
  <2>4. Cardinality(VideosIn(Newest(below, n))) <= Cardinality(all)
        /\ IsFiniteSet(VideosIn(Newest(below, n)))
    BY <1>2, <1>6, FS_Subset
  <2>5. Cardinality(all) \in Nat /\ Cardinality(VideosIn(Newest(below, n))) \in Nat
    BY <1>2, <2>4, FS_CardinalityType
  <2>6. Cardinality(all) <= PageSize
    BY <1>3, <1>7 DEF n
  <2> QED
    BY <1>1, <2>1, <2>3, <2>4, <2>5, <2>6 DEF n
<1> QED
  BY <1>9, <1>10

\* A page with fewer videos than asked for has all that the feed shows below the
\* cursor, wherever the videos are and whatever was cut off the sets.
THEOREM ShortPageIsLast == Spec => []PagesComplete
<1>1. Types /\ MoreTypes => PagesComplete
  BY ShortPage DEF MoreTypes, PagesComplete
<1> QED
  BY <1>1, TypesInit, TypesStep, MoreTypesInit, MoreTypesStep, PTL DEF Spec

\* A backfill is complete only by the last step of its request.
LEMMA ServedMoves ==
    ASSUME Types, Marks, [Next]_vars, NEW p \in Pairs, served'[p] # served[p]
    PROVE  \E c \in Calls : /\ Notify(c) /\ call[c] \in Backfill /\ UNCHANGED tableVars
                            /\ call[c].pair = p /\ served'[p] = call[c].gen
<1>1. ASSUME NEW c \in Calls, Notify(c)
      PROVE  /\ call[c] \in Backfill /\ UNCHANGED tableVars
             /\ call[c].pair = p /\ served'[p] = call[c].gen
  <2>1. call[c] \in Backfill
    BY <1>1, CallShape DEF Types, Notify
  <2> QED
    BY <1>1, <2>1 DEF Notify, Marks, Backfill
<1>2. served' # served
  OBVIOUS
<1>3. ~ UNCHANGED historyVars
  BY <1>2 DEF historyVars
<1>4. CASE Outside \/ UNCHANGED vars
  BY <1>3, <1>4 DEF Outside, vars
<1>5. ASSUME NEW c \in Calls,
             Commit(c) \/ CountForBackfill(c) \/ ListVideos(c) \/ PushBackfill(c) \/ BackfillFails(c)
      PROVE  FALSE
  BY <1>2, <1>3, <1>5 DEF Commit, CountForBackfill, ListVideos, PushBackfill, BackfillFails
<1>6. CASE Deliver \/ Fanout \/ Requeue \/ \E u \in Users : Expire(u)
  BY <1>2, <1>3, <1>6 DEF Deliver, Fanout, CountForFanout, PushOutbox, ListFollowers, PushInboxes,
                          Requeue, Idle, Expire
<1> QED
  BY <1>1, <1>4, <1>5, <1>6 DEF Next, Request

\* Saved videos, histories and activations are only added to, and an author with
\* a saved video that counts stays on their side of the threshold.
LEMMA HistoryStep ==
    ASSUME Types, MoreTypes, [Next]_vars
    PROVE  /\ saved \subseteq saved' /\ lapsed \subseteq lapsed' /\ crossed \subseteq crossed'
           /\ \A v \in saved \ crossed' : Big(AuthorOf[v])' = Big(AuthorOf[v])
           /\ \A p \in Pairs : /\ gen'[p] \in Nat /\ gen[p] \in Nat /\ gen'[p] >= gen[p]
                               /\ gen'[p] = gen[p] /\ follow'[p].status = "active"
                                    => follow[p].status = "active"
<1>0. crossed \subseteq saved /\ follow \in [Pairs -> Row] /\ gen \in [Pairs -> Nat]
  BY DEF MoreTypes, OnlySaved, Types
<1>1. CASE UNCHANGED tableVars
  <2>1. /\ \A v \in saved : Big(AuthorOf[v])' = Big(AuthorOf[v])
        /\ \A p \in Pairs : gen'[p] = gen[p] /\ gen[p] \in Nat /\ follow'[p] = follow[p]
    BY <1>0, <1>1 DEF tableVars, Big
  <2>2. saved \subseteq saved' /\ lapsed \subseteq lapsed' /\ crossed \subseteq crossed'
    <3>1. ASSUME UNCHANGED <<saved, historyVars>>
          PROVE  saved \subseteq saved' /\ lapsed \subseteq lapsed' /\ crossed \subseteq crossed'
      BY <3>1 DEF historyVars
    <3>2. ASSUME Outside,
                 \/ UNCHANGED publicationVars
                 \/ \E v \in Videos : \/ \E key \in UploadKeys \cup {NoUploadKey} : Create(v, key)
                                      \/ UploadStep(v) \/ UploadEnds(v)
          PROVE  saved \subseteq saved' /\ lapsed \subseteq lapsed' /\ crossed \subseteq crossed'
      BY <3>2 DEF Outside, historyVars, publicationVars, Create, UploadStep, UploadEnds, Find, Save,
                  Load, PublishEvent
    <3>3. ASSUME NEW c \in Calls, CountForBackfill(c) \/ ListVideos(c) \/ PushBackfill(c)
                                  \/ Notify(c) \/ BackfillFails(c)
          PROVE  UNCHANGED <<saved, crossed, lapsed>>
      BY <3>3 DEF CountForBackfill, ListVideos, PushBackfill, Notify, BackfillFails,
                  publicationVars, historyVars
    <3>4. CASE Deliver \/ Fanout \/ Requeue
      BY <3>4 DEF Deliver, Fanout, CountForFanout, PushOutbox, ListFollowers, PushInboxes,
                  Requeue, Idle, historyVars
    <3>5. ASSUME NEW u \in Users, Expire(u) PROVE UNCHANGED <<saved, crossed>> /\ lapsed \subseteq lapsed'
      BY <3>5 DEF Expire, publicationVars
    <3>6. CASE UNCHANGED vars
      BY <3>1, <3>6 DEF vars, publicationVars
    <3>7. ASSUME NEW c \in Calls, Commit(c) PROVE UNCHANGED <<saved, lapsed>> /\ crossed \subseteq crossed'
      BY <1>0, <3>7 DEF Commit, publicationVars
    <3> QED
      BY <3>2, <3>3, <3>4, <3>5, <3>6, <3>7 DEF Next, Request, Victim
  <2> QED
    BY <2>1, <2>2
<1>2. ASSUME NEW c \in Calls, Commit(c), call[c] \in Asked
      PROVE  /\ saved \subseteq saved' /\ lapsed \subseteq lapsed' /\ crossed \subseteq crossed'
             /\ \A v \in saved \ crossed' : Big(AuthorOf[v])' = Big(AuthorOf[v])
             /\ \A p \in Pairs : /\ gen'[p] \in Nat /\ gen[p] \in Nat /\ gen'[p] >= gen[p]
                                 /\ gen'[p] = gen[p] /\ follow'[p].status = "active"
                                      => follow[p].status = "active"
  <2> DEFINE q == call[c].pair
             row == follow[q]
             delta == Change(row, call[c].active, call[c].key)
             after == RowAfter(row, call[c].active, call[c].key)
  <2>1. q \in Pairs /\ call[c].active \in BOOLEAN /\ call[c].key \in Keys \cup {NoKey} /\ row \in Row
    BY <1>0, <1>2 DEF Asked
  <2>2. \/ delta = 1 /\ row.status # "active" /\ after.status = "active"
        \/ delta = -1 /\ row.status = "active" /\ after.status # "active"
        \/ delta = 0 /\ (row.status = "active" <=> after.status = "active")
    BY <2>1, WriteLemma
  <2>3. /\ follow' = [follow EXCEPT ![q] = after]
        /\ gen' = IF delta = 1 THEN [gen EXCEPT ![q] = @ + 1] ELSE gen
    BY <1>2 DEF Commit, Write
  <2> HIDE DEF delta, after
  <2>4. ASSUME NEW p \in Pairs
        PROVE  /\ gen'[p] \in Nat /\ gen[p] \in Nat /\ gen'[p] >= gen[p]
               /\ gen'[p] = gen[p] /\ follow'[p].status = "active" => follow[p].status = "active"
    <3>1. CASE p # q
      BY <1>0, <2>1, <2>3, <3>1
    <3>2. CASE p = q
      <4>1. CASE delta = 1
        <5>1. gen'[p] = gen[p] + 1 /\ gen[p] \in Nat
          BY <1>0, <2>1, <2>3, <3>2, <4>1
        <5> QED
          BY <5>1
      <4>2. CASE delta # 1
        BY <1>0, <2>1, <2>2, <2>3, <3>2, <4>2
      <4> QED
        BY <4>1, <4>2
    <3> QED
      BY <3>1, <3>2
  <2>5. saved' = saved /\ lapsed' = lapsed /\ crossed \subseteq crossed'
        /\ \A v \in saved \ crossed' : Big(AuthorOf[v])' = Big(AuthorOf[v])
    BY <1>0, <1>2 DEF Commit, publicationVars
  <2> QED
    BY <2>4, <2>5
<1> QED
  BY <1>1, <1>2, TablesStep

-----------------------------------------------------------------------------
(* The way of a video into the sets.                                       *)

OnTheWay(v) == v \in unsent \/ v \in Range(events)

\* The fan-out of v is to reach the inbox of u, or the outbox, yet.
ComingTo(u, v) ==
    \/ OnTheWay(v)
    \/ /\ worker # Resting /\ worker.video = v
       /\ \/ worker.pc = "count"
          \/ worker.pc = "list" /\ worker.cursor < u
          \/ /\ worker.pc = "push"
             /\ \/ u \in worker.page
                \/ Cardinality(worker.page) >= BatchSize /\ \A w \in worker.page : w < u

ComingOut(v) ==
    \/ OnTheWay(v)
    \/ worker # Resting /\ worker.video = v /\ worker.pc \in {"count", "outbox"}

\* The inbox holds the video, or is full of newer ones, or is to get it.
Given(u, v) == HasOrFull(inbox[u], v, InboxMax) \/ ComingTo(u, v)

\* The branch the worker took is that of the author.
WorkerRight ==
    worker # Resting =>
        /\ worker.pc = "outbox" => worker.video \in crossed \/ Big(AuthorOf[worker.video])
        /\ worker.pc \in {"list", "push"} => worker.video \in crossed \/ ~Big(AuthorOf[worker.video])

\* An event put back into a queue is there, with all the others.
LEMMA InsertKeeps ==
    ASSUME NEW S, NEW q \in Seq(S), NEW i \in 1..(Len(q) + 1), NEW e \in S
    PROVE  e \in Range(InsertAt(q, i, e)) /\ Range(q) \subseteq Range(InsertAt(q, i, e))
<1> DEFINE a == SubSeq(q, 1, i - 1)
           b == SubSeq(q, i, Len(q))
           c == a \o <<e>>
<1>1. /\ a \in Seq(S) /\ Len(a) = i - 1
      /\ \A k \in 1..(i - 1) : a[k] = q[k]
  OBVIOUS
<1>2. /\ b \in Seq(S) /\ Len(b) = Len(q) - i + 1
      /\ \A k \in i..Len(q) : b[k - i + 1] = q[k]
  OBVIOUS
<1>3. InsertAt(q, i, e) = c \o b
  BY DEF InsertAt
<1> HIDE DEF a, b
<1>4. /\ c \in Seq(S) /\ Len(c) = i /\ c[i] = e
      /\ \A k \in 1..(i - 1) : c[k] = q[k]
  BY <1>1
<1> HIDE DEF c
<1>5. /\ Len(c \o b) = Len(q) + 1 /\ DOMAIN (c \o b) = 1..(Len(q) + 1)
      /\ \A k \in 1..i : (c \o b)[k] = c[k]
      /\ \A k \in (i + 1)..(Len(q) + 1) : (c \o b)[k] = b[k - i]
  BY <1>2, <1>4
<1>6. (c \o b)[i] = e /\ i \in DOMAIN (c \o b)
  BY <1>4, <1>5
<1>7. ASSUME NEW k \in DOMAIN q PROVE \E j \in DOMAIN (c \o b) : (c \o b)[j] = q[k]
  <2>1. k \in 1..Len(q)
    OBVIOUS
  <2>2. CASE k <= i - 1
    <3>1. (c \o b)[k] = q[k] /\ k \in DOMAIN (c \o b)
      BY <1>4, <1>5, <2>1, <2>2
    <3> QED
      BY <3>1
  <2>3. CASE k > i - 1
    <3>1. k \in i..Len(q) /\ k + 1 \in (i + 1)..(Len(q) + 1) /\ (k + 1) - i = k - i + 1
      BY <2>1, <2>3
    <3>2. (c \o b)[k + 1] = q[k] /\ k + 1 \in DOMAIN (c \o b)
      BY <1>2, <1>5, <3>1
    <3> QED
      BY <3>2
  <2> QED
    BY <2>1, <2>2, <2>3
<1> QED
  BY <1>3, <1>6, <1>7 DEF Range

\* The first of a queue, and the others.
LEMMA HeadOrTail ==
    ASSUME NEW S, NEW q \in Seq(S), q # <<>>, NEW v \in Range(q)
    PROVE  v = Head(q) \/ v \in Range(Tail(q))
<1>1. PICK k \in 1..Len(q) : v = q[k]
  BY DEF Range
<1>2. CASE k = 1
  BY <1>1, <1>2
<1>3. CASE k # 1
  <2>1. k - 1 \in 1..Len(Tail(q)) /\ Tail(q)[k - 1] = q[k] /\ DOMAIN Tail(q) = 1..Len(Tail(q))
    BY <1>3
  <2> QED
    BY <1>1, <2>1 DEF Range
<1> QED
  BY <1>2, <1>3

\* A video is on its way from the insertion of its row to the delivery of its
\* event, and again when the fan-out is given up.
LEMMA WayKept ==
    ASSUME Types, OnlySaved, [Next]_vars, NEW v \in saved'
    PROVE  /\ v \notin saved => OnTheWay(v)'
           /\ OnTheWay(v) => OnTheWay(v)' \/ (Deliver /\ v = Head(events))
           /\ Requeue /\ worker.video = v => OnTheWay(v)'
<1>0. events \in Seq(saved) /\ unsent \subseteq saved
  BY DEF OnlySaved
<1>1. CASE UNCHANGED publicationVars /\ ~Requeue
  BY <1>1 DEF publicationVars, OnTheWay
<1>2. ASSUME NEW w \in Videos, Outside,
             \/ \E key \in UploadKeys \cup {NoUploadKey} : Create(w, key)
             \/ UploadStep(w) \/ UploadEnds(w)
      PROVE  /\ v \notin saved => OnTheWay(v)'
             /\ OnTheWay(v) => OnTheWay(v)'
  <2>1. CASE PublishEvent(w)
    <3>1. w \in saved
      BY <2>1 DEF PublishEvent, OnlySaved
    <3>2. Range(events') = Range(events) \cup {w}
      <4>1. events' = Append(events, w)
        BY <2>1 DEF PublishEvent
      <4>2. /\ DOMAIN events = 1..Len(events) /\ DOMAIN events' = 1..(Len(events) + 1)
            /\ \A k \in 1..Len(events) : events'[k] = events[k]
            /\ events'[Len(events) + 1] = w /\ Len(events) \in Nat
        BY <1>0, <3>1, <4>1
      <4> QED
        BY <4>2 DEF Range
    <3> QED
      BY <2>1, <3>2 DEF PublishEvent, OnTheWay
  <2>2. CASE ~PublishEvent(w)
    <3>1. /\ events' = events /\ unsent \subseteq unsent'
          /\ saved' \subseteq saved \cup unsent'
      BY <1>2, <2>2 DEF Create, UploadStep, UploadEnds, Find, Save, Load
    <3> QED
      BY <3>1 DEF OnTheWay
  <2> QED
    BY <2>1, <2>2
<1>3. CASE Deliver
  <2>1. saved' = saved /\ unsent' = unsent /\ events' = Tail(events) /\ events # <<>>
    BY <1>3 DEF Deliver, Idle
  <2>2. ~Requeue
    BY <1>3 DEF Deliver, Requeue
  <2> QED
    BY <1>0, <1>3, <2>1, <2>2, HeadOrTail DEF OnTheWay
<1>4. CASE Requeue
  <2>1. worker.video \in saved /\ saved' = saved /\ unsent' = unsent
    BY <1>4 DEF Requeue, Idle, OnlySaved
  <2>2. PICK i \in 1..(Len(events) + 1) : events' = InsertAt(events, i, worker.video)
    BY <1>4 DEF Requeue, Requeued
  <2>3. worker.video \in Range(events') /\ Range(events) \subseteq Range(events')
    BY <1>0, <2>1, <2>2, InsertKeeps
  <2> QED
    BY <2>1, <2>3 DEF OnTheWay
<1>5. CASE Fanout /\ ~Requeue
  BY <1>5 DEF Fanout, CountForFanout, PushOutbox, ListFollowers, PushInboxes, Idle, OnTheWay
<1>6. ASSUME NEW c \in Calls, Commit(c) \/ CountForBackfill(c) \/ ListVideos(c) \/ PushBackfill(c)
                              \/ Notify(c) \/ BackfillFails(c)
      PROVE  UNCHANGED publicationVars /\ UNCHANGED worker
  BY <1>6 DEF Commit, CountForBackfill, ListVideos, PushBackfill, Notify, BackfillFails
<1>7. CASE UNCHANGED publicationVars /\ UNCHANGED worker
  BY <1>1, <1>7 DEF Requeue
<1>8. CASE UNCHANGED vars \/ \E u \in Users : Expire(u)
  BY <1>7, <1>8 DEF vars, Expire
<1>9. CASE UNCHANGED publicationVars /\ Outside
  BY <1>7, <1>9 DEF Outside
<1>10. ASSUME Outside PROVE ~Requeue
  BY <1>10 DEF Outside, Requeue
<1> QED
  BY <1>2, <1>3, <1>4, <1>5, <1>6, <1>7, <1>8, <1>9, <1>10 DEF Next, Request

\* The steps that touch a sorted set.
LEMMA SetMoves ==
    ASSUME Types, [Next]_vars
    PROVE  \/ UNCHANGED indexVars
           \/ /\ UNCHANGED outbox
              /\ \/ \E c \in Calls : PushBackfill(c)
                 \/ PushInboxes \/ Requeue
           \/ PushOutbox
           \/ \E w \in Users : Expire(w)
<1>1. CASE Outside \/ UNCHANGED vars
  BY <1>1 DEF Outside, vars
<1>2. ASSUME NEW c \in Calls,
             Commit(c) \/ CountForBackfill(c) \/ ListVideos(c) \/ Notify(c) \/ BackfillFails(c)
      PROVE  UNCHANGED indexVars
  BY <1>2 DEF Commit, CountForBackfill, ListVideos, Notify, BackfillFails
<1>3. CASE Deliver \/ CountForFanout \/ ListFollowers
  BY <1>3 DEF Deliver, CountForFanout, ListFollowers
<1>4. ASSUME PushInboxes \/ Requeue \/ \E c \in Calls : PushBackfill(c) PROVE UNCHANGED outbox
  BY <1>4 DEF PushInboxes, Requeue, PushBackfill
<1> QED
  BY <1>1, <1>2, <1>3, <1>4 DEF Next, Request, Fanout

\* What an inbox holds stays in it, or newer videos take its place.
LEMMA InboxKeeps ==
    ASSUME Types, MoreTypes, [Next]_vars, NEW u \in Users, u \notin lapsed', NEW v \in Videos,
           HasOrFull(inbox[u], v, InboxMax)
    PROVE  HasOrFull(inbox'[u], v, InboxMax)
<1>0. /\ inbox \in [Users -> SUBSET Member] /\ InboxMax \in Nat /\ v \in Nat
      /\ inbox[u] \subseteq Member /\ IsFiniteSet(inbox[u])
  BY FollowingAssumption, PublicationAssumption DEF Types, MoreTypes, SetsBounded, Bounded
<1>1. ASSUME NEW m \in Member PROVE HasOrFull(Added(inbox[u], m, InboxMax), v, InboxMax)
  BY <1>0, <1>1, AddedKeeps
<1>2. CASE inbox' = inbox
  BY <1>2
<1>3. ASSUME NEW c \in Calls, PushBackfill(c) PROVE HasOrFull(inbox'[u], v, InboxMax)
  <2>1. call[c] \in Backfill
    BY <1>3, CallShape DEF Types, PushBackfill
  <2>2. PICK w \in call[c].videos : inbox' = [inbox EXCEPT ![call[c].pair[1]] =
                                        Added(@, [video |-> w, stamp |-> "row"], InboxMax)]
    BY <1>3 DEF PushBackfill, Recent
  <2>3. [video |-> w, stamp |-> "row"] \in Member
    BY <2>1, <2>2 DEF Backfill, Member
  <2>4. inbox'[u] = inbox[u] \/ inbox'[u] = Added(inbox[u], [video |-> w, stamp |-> "row"], InboxMax)
    BY <1>0, <2>2
  <2> QED
    BY <1>1, <2>3, <2>4
<1>4. CASE PushInboxes \/ Requeue
  <2>1. worker.video \in Videos
    BY <1>4, WorkShape DEF PushInboxes, Requeue, Types, Resting
  <2>2. [video |-> worker.video, stamp |-> "event"] \in Member
    BY <2>1 DEF Member
  <2>3. PICK users : inbox' = PushedTo(users)
    BY <1>4 DEF PushInboxes, Requeue
  <2>4. inbox'[u] = inbox[u]
        \/ inbox'[u] = Added(inbox[u], [video |-> worker.video, stamp |-> "event"], InboxMax)
    BY <2>3 DEF PushedTo
  <2> QED
    BY <1>1, <2>2, <2>4
<1>5. ASSUME NEW w \in Users, Expire(w) PROVE HasOrFull(inbox'[u], v, InboxMax)
  <2>1. w # u
    BY <1>5 DEF Expire
  <2> QED
    BY <1>0, <1>5, <2>1 DEF Expire
<1>6. CASE PushOutbox
  BY <1>2, <1>6 DEF PushOutbox
<1> QED
  BY <1>2, <1>3, <1>4, <1>5, <1>6, SetMoves DEF indexVars

LEMMA OutboxKeeps ==
    ASSUME Types, MoreTypes, [Next]_vars, NEW a \in Users, a \notin lapsed', NEW v \in Videos,
           HasOrFull(outbox[a], v, OutboxMax)
    PROVE  HasOrFull(outbox'[a], v, OutboxMax)
<1>0. /\ outbox \in [Users -> SUBSET Member] /\ OutboxMax \in Nat /\ v \in Nat
      /\ outbox[a] \subseteq Member /\ IsFiniteSet(outbox[a])
  BY FollowingAssumption, PublicationAssumption DEF Types, MoreTypes, SetsBounded, Bounded
<1>1. CASE outbox' = outbox
  BY <1>1
<1>2. CASE PushOutbox
  <2>1. worker.video \in Videos
    BY <1>2, WorkShape DEF PushOutbox, Types
  <2>2. [video |-> worker.video, stamp |-> "event"] \in Member
    BY <2>1 DEF Member
  <2>3. outbox'[a] = outbox[a]
        \/ outbox'[a] = Added(outbox[a], [video |-> worker.video, stamp |-> "event"], OutboxMax)
    BY <1>0, <1>2 DEF PushOutbox
  <2>4. HasOrFull(Added(outbox[a], [video |-> worker.video, stamp |-> "event"], OutboxMax), v, OutboxMax)
    BY <1>0, <2>2, AddedKeeps
  <2> QED
    BY <2>3, <2>4
<1>3. ASSUME NEW w \in Users, Expire(w) PROVE HasOrFull(outbox'[a], v, OutboxMax)
  <2>1. w # a
    BY <1>3 DEF Expire
  <2> QED
    BY <1>0, <1>3, <2>1 DEF Expire
<1> QED
  BY <1>1, <1>2, <1>3, SetMoves DEF indexVars

\* Only the consumer and its handler move the worker.
LEMMA WorkerMoves ==
    ASSUME [Next]_vars
    PROVE  worker' = worker \/ Deliver \/ Fanout \/ Requeue
<1>1. CASE Outside \/ UNCHANGED vars
  BY <1>1 DEF Outside, vars
<1>2. ASSUME NEW c \in Calls, Commit(c) \/ CountForBackfill(c) \/ ListVideos(c) \/ PushBackfill(c)
                              \/ Notify(c) \/ BackfillFails(c)
      PROVE  worker' = worker
  BY <1>2 DEF Commit, CountForBackfill, ListVideos, PushBackfill, Notify, BackfillFails
<1>3. CASE \E u \in Users : Expire(u)
  BY <1>3 DEF Expire
<1> QED
  BY <1>1, <1>2, <1>3 DEF Next, Request

\* The fan-out of a video comes to every follower that its pages are still to
\* reach: it passes no one over, and what it gives up it begins anew.
LEMMA GivenKept ==
    ASSUME Types, MoreTypes, WorkerRight, [Next]_vars, NEW u \in Users, u \notin lapsed',
           NEW v \in saved, v \notin crossed, ~Big(AuthorOf[v]), u \in Followers(AuthorOf[v]),
           Given(u, v)
    PROVE  Given(u, v)'
<1>0. /\ v \in Videos /\ v \in saved' /\ v \in Nat /\ u \in Nat /\ 0 < u /\ AuthorOf[v] \in Users
      /\ InboxMax \in Nat /\ BatchSize \in Nat \ {0}
      /\ inbox[u] \subseteq Member /\ IsFiniteSet(inbox[u])
      /\ worker \in Work \cup {Resting}
  <2>1. v \in Videos /\ v \in saved'
    BY HistoryStep DEF Types
  <2>2. u # 0
    BY FollowingAssumption
  <2>3. u \in Nat /\ v \in Nat
    BY <2>1, FollowAssumption, PublicationAssumption
  <2> QED
    BY <2>1, <2>2, <2>3, FollowingAssumption DEF Types, MoreTypes, SetsBounded, Bounded
<1>1. HasOrFull(inbox[u], v, InboxMax) => Given(u, v)'
  BY <1>0, InboxKeeps DEF Given
<1>2. OnTheWay(v)' => Given(u, v)'
  BY DEF Given, ComingTo
<1>3. OnTheWay(v) => Given(u, v)'
  <2>1. CASE Deliver /\ v = Head(events)
    <3>1. worker'.pc = "count" /\ worker'.video = v /\ worker' # Resting
      BY <2>1 DEF Deliver, Resting
    <3> QED
      BY <3>1 DEF Given, ComingTo
  <2> QED
    BY <1>0, <1>2, <2>1, WayKept DEF MoreTypes
<1>4. ASSUME worker # Resting, worker.video = v,
             \/ worker.pc = "count"
             \/ worker.pc = "list" /\ worker.cursor < u
             \/ /\ worker.pc = "push"
                /\ \/ u \in worker.page
                   \/ Cardinality(worker.page) >= BatchSize /\ \A w \in worker.page : w < u
      PROVE  Given(u, v)'
  <2>1. CASE worker' = worker
    BY <1>4, <2>1 DEF Given, ComingTo
  <2>2. CASE Requeue
    BY <1>0, <1>2, <1>4, <2>2, WayKept DEF MoreTypes
  <2>3. CASE CountForFanout
    <3>1. worker' = [pc |-> "list", video |-> v, cursor |-> 0]
      BY <1>4, <2>3 DEF CountForFanout
    <3> QED
      BY <1>0, <3>1 DEF Given, ComingTo, Resting
  <2>4. CASE ListFollowers
    <3> DEFINE page == Page(AuthorOf[v], worker.cursor)
    <3>1. worker.pc = "list" /\ worker.cursor < u
      BY <1>4, <2>4 DEF ListFollowers
    <3>2. u > worker.cursor
      <4>1. worker \in [pc : {"list"}, video : Videos, cursor : Users \cup {0}]
        BY <1>0, <3>1, WorkShape
      <4>2. worker.cursor \in Users \cup {0}
        BY <4>1
      <4>3. Users \cup {0} \subseteq Nat
        BY FollowAssumption
      <4>4. worker.cursor \in Nat
        BY <4>2, <4>3
      <4> QED
        BY <1>0, <3>1, <4>4
    <3>3. u \in page \/ (Cardinality(page) >= BatchSize /\ \A w \in page : w < u)
      BY <1>0, <3>2, PageFirst
    <3>4. page # {}
      <4>1. BatchSize > 0 /\ Cardinality({}) = 0
        BY <1>0, FS_EmptySet
      <4> HIDE DEF page
      <4> QED
        BY <3>3, <4>1, <1>0
    <3>5. worker' = [pc |-> "push", video |-> v, page |-> page]
      BY <1>4, <2>4, <3>4 DEF ListFollowers
    <3> HIDE DEF page
    <3> QED
      BY <3>3, <3>5 DEF Given, ComingTo, Resting
  <2>5. CASE PushInboxes
    <3>1. worker.pc = "push" /\ inbox' = PushedTo(worker.page)
      BY <2>5 DEF PushInboxes
    <3>2. CASE u \in worker.page
      <4>1. [video |-> v, stamp |-> "event"] \in Member
        BY <1>0 DEF Member
      <4>2. inbox'[u] = Added(inbox[u], [video |-> v, stamp |-> "event"], InboxMax)
        BY <1>4, <3>1, <3>2 DEF PushedTo
      <4>3. HasOrFull(inbox'[u], v, InboxMax)
        BY <1>0, <4>1, <4>2, AddedKeeps
      <4> QED
        BY <4>3 DEF Given
    <3>3. CASE u \notin worker.page
      <4>1. Cardinality(worker.page) >= BatchSize /\ \A w \in worker.page : w < u
        BY <1>4, <3>1, <3>3
      <4>2. Cardinality(worker.page) \in Nat
        <5>1. worker.page \in SUBSET Users
          BY <1>0, <3>1, WorkShape
        <5> QED
          BY <5>1, FollowAssumption, FS_Subset, FS_CardinalityType
      <4>3. ~(Cardinality(worker.page) < BatchSize)
        BY <1>0, <4>1, <4>2
      <4>4. PICK last \in worker.page : worker' = [pc |-> "list", video |-> v, cursor |-> last]
        BY <1>4, <2>5, <4>3 DEF PushInboxes
      <4> QED
        BY <4>1, <4>4 DEF Given, ComingTo, Resting
    <3> QED
      BY <3>2, <3>3
  <2>6. CASE PushOutbox
    BY <1>4, <2>6 DEF PushOutbox
  <2>7. CASE Deliver
    BY <1>4, <2>7 DEF Deliver
  <2> QED
    BY <2>1, <2>2, <2>3, <2>4, <2>5, <2>6, <2>7, WorkerMoves DEF Fanout
<1> QED
  BY <1>1, <1>3, <1>4 DEF Given, ComingTo

\* The same for an author with many followers and their outbox.
LEMMA OutKept ==
    ASSUME Types, MoreTypes, WorkerRight, [Next]_vars, NEW v \in saved, v \notin crossed,
           Big(AuthorOf[v]), AuthorOf[v] \notin lapsed',
           HasOrFull(outbox[AuthorOf[v]], v, OutboxMax) \/ ComingOut(v)
    PROVE  HasOrFull(outbox'[AuthorOf[v]], v, OutboxMax) \/ ComingOut(v)'
<1> DEFINE a == AuthorOf[v]
<1>0. /\ v \in Videos /\ v \in saved' /\ v \in Nat /\ a \in Users /\ OutboxMax \in Nat
      /\ outbox \in [Users -> SUBSET Member] /\ outbox[a] \subseteq Member /\ IsFiniteSet(outbox[a])
      /\ worker \in Work \cup {Resting}
  <2>1. v \in Videos /\ v \in saved'
    BY HistoryStep DEF Types
  <2>2. v \in Nat
    BY <2>1, PublicationAssumption
  <2> QED
    BY <2>1, <2>2, FollowingAssumption DEF Types, MoreTypes, SetsBounded, Bounded
<1>1. CASE HasOrFull(outbox[a], v, OutboxMax)
  BY <1>0, <1>1, OutboxKeeps
<1>2. OnTheWay(v)' => ComingOut(v)'
  BY DEF ComingOut
<1>3. CASE OnTheWay(v)
  <2>1. CASE Deliver /\ v = Head(events)
    <3>1. worker'.pc = "count" /\ worker'.video = v /\ worker' # Resting
      BY <2>1 DEF Deliver, Resting
    <3> QED
      BY <3>1 DEF ComingOut
  <2> QED
    BY <1>0, <1>2, <1>3, <2>1, WayKept DEF MoreTypes
<1>4. CASE worker # Resting /\ worker.video = v /\ worker.pc \in {"count", "outbox"}
  <2>1. CASE worker' = worker
    BY <1>4, <2>1 DEF ComingOut
  <2>2. CASE Requeue
    BY <1>0, <1>2, <1>4, <2>2, WayKept DEF MoreTypes
  <2>3. CASE CountForFanout
    <3>1. worker \in [pc : {"count", "outbox"}, video : Videos]
      BY <1>0, <2>3, WorkShape DEF CountForFanout
    <3>2. worker' = [worker EXCEPT !.pc = "outbox"]
      BY <1>4, <2>3 DEF CountForFanout
    <3>3. worker'.pc = "outbox" /\ worker'.video = v /\ worker' # Resting
      BY <1>4, <3>1, <3>2 DEF Resting
    <3> QED
      BY <3>3 DEF ComingOut
  <2>4. CASE PushOutbox
    <3>1. [video |-> v, stamp |-> "event"] \in Member
      BY <1>0 DEF Member
    <3>2. outbox'[a] = Added(outbox[a], [video |-> v, stamp |-> "event"], OutboxMax)
      BY <1>0, <1>4, <2>4 DEF PushOutbox
    <3>3. HasOrFull(Added(outbox[a], [video |-> v, stamp |-> "event"], OutboxMax), v, OutboxMax)
      BY <1>0, <3>1, AddedKeeps
    <3> QED
      BY <3>2, <3>3
  <2>5. CASE ListFollowers \/ PushInboxes \/ Deliver
    BY <1>4, <2>5 DEF ListFollowers, PushInboxes, Deliver
  <2> QED
    BY <2>1, <2>2, <2>3, <2>4, <2>5, WorkerMoves DEF Fanout
<1> QED
  BY <1>1, <1>3, <1>4 DEF ComingOut

-----------------------------------------------------------------------------
(* Followers are served.                                                   *)

\* The row was there all the time that the author's side was what it is.
Steady(v) == v \in saved \ crossed

\* Viewer u is to get video v into the inbox once the backfill is complete.
Owed(u, v) ==
    LET a == AuthorOf[v] IN
    /\ u # a /\ u \in Followers(a) /\ Steady(v) /\ ~Big(a) /\ {u, a} \cap lapsed = {}
    /\ v \in Recent(SavedOf(a), BackfillLimit)

\* A request is of an activation that was, and has nothing left to copy but
\* between the listing and the last copy.
CallsRight ==
    /\ \A p \in Pairs : served[p] <= gen[p]
    /\ \A c \in Calls : call[c].pc \in Working =>
           /\ call[c].gen <= gen[call[c].pair]
           /\ call[c].pc # "push" => call[c].videos = {}

\* What a complete backfill owes is given, and what one under way owes is given
\* or still in its list.
InboxesRight ==
    \A u \in Users, v \in Videos : Owed(u, v) =>
        LET p == <<u, AuthorOf[v]>> IN
        /\ served[p] = gen[p] => Given(u, v)
        /\ \A c \in Calls :
               call[c].pc \in {"push", "notify"} /\ call[c].pair = p /\ call[c].gen = gen[p]
                   => v \in call[c].videos \/ Given(u, v)

OutboxesRight ==
    \A v \in Videos : Steady(v) /\ Big(AuthorOf[v]) /\ AuthorOf[v] \notin lapsed =>
        HasOrFull(outbox[AuthorOf[v]], v, OutboxMax) \/ ComingOut(v)

ServedInv == WorkerRight /\ CallsRight /\ InboxesRight /\ OutboxesRight

LEMMA WorkerRightStep ==
    ASSUME Types, MoreTypes, WorkerRight, [Next]_vars
    PROVE  WorkerRight'
<1>1. CASE worker' = worker
  <2>1. worker # Resting => worker.video \in saved
    BY DEF MoreTypes, OnlySaved
  <2>2. crossed \subseteq crossed' /\ \A v \in saved \ crossed' : Big(AuthorOf[v])' = Big(AuthorOf[v])
    BY HistoryStep
  <2> QED
    BY <1>1, <2>1, <2>2 DEF WorkerRight
<1>2. ASSUME Deliver \/ Fanout \/ Requeue
      PROVE  crossed' = crossed /\ \A a : Big(a)' = Big(a)
  BY <1>2 DEF Deliver, Fanout, CountForFanout, PushOutbox, ListFollowers, PushInboxes, Requeue,
              Idle, followVars, tableVars, historyVars, Big
<1>3. CASE CountForFanout
  <2>1. worker \in [pc : {"count", "outbox"}, video : Videos]
    BY <1>3, WorkShape DEF CountForFanout, Types
  <2>2. CASE Big(AuthorOf[worker.video])
    <3>1. worker' = [worker EXCEPT !.pc = "outbox"]
      BY <1>3, <2>2 DEF CountForFanout
    <3>2. worker'.pc = "outbox" /\ worker'.video = worker.video
      BY <2>1, <3>1
    <3> QED
      BY <1>2, <1>3, <2>2, <3>2 DEF WorkerRight, Fanout
  <2>3. CASE ~Big(AuthorOf[worker.video])
    <3>1. worker' = [pc |-> "list", video |-> worker.video, cursor |-> 0]
      BY <1>3, <2>3 DEF CountForFanout
    <3> QED
      BY <1>2, <1>3, <2>3, <3>1 DEF WorkerRight, Fanout
  <2> QED
    BY <2>2, <2>3
<1>4. CASE ListFollowers \/ PushInboxes
  <2>1. worker # Resting /\ worker.pc \in {"list", "push"}
    BY <1>4 DEF ListFollowers, PushInboxes, Resting
  <2>2. worker' = Resting \/ (worker'.pc \in {"list", "push"} /\ worker'.video = worker.video)
    BY <1>4 DEF ListFollowers, PushInboxes
  <2> QED
    BY <1>2, <1>4, <2>1, <2>2 DEF WorkerRight, Fanout
<1>5. CASE Deliver \/ PushOutbox \/ Requeue
  BY <1>5 DEF Deliver, PushOutbox, Requeue, WorkerRight, Resting
<1> QED
  BY <1>1, <1>3, <1>4, <1>5, WorkerMoves DEF Fanout

LEMMA CallsRightStep ==
    ASSUME Types, MoreTypes, CallsRight, [Next]_vars
    PROVE  CallsRight'
<1>1. \A p \in Pairs : /\ gen'[p] \in Nat /\ gen[p] \in Nat /\ gen'[p] >= gen[p]
                       /\ served[p] \in Nat /\ served[p] <= gen[p]
  BY HistoryStep DEF CallsRight, MoreTypes, Marks
<1>2. ASSUME NEW d \in Calls, call'[d].pc \in Working
      PROVE  /\ call'[d].gen <= gen'[call'[d].pair]
             /\ call'[d].pc # "push" => call'[d].videos = {}
  <2>1. CASE call'[d] = call[d]
    <3>1. call[d] \in Backfill
      BY <1>2, <2>1, CallShape DEF Types, Working
    <3>2. call[d].pair \in Pairs /\ call[d].gen \in Nat
      BY <3>1 DEF Backfill
    <3>3. call[d].gen <= gen[call[d].pair] /\ (call[d].pc # "push" => call[d].videos = {})
      BY <1>2, <2>1 DEF CallsRight
    <3>4. gen[call[d].pair] <= gen'[call[d].pair] /\ gen[call[d].pair] \in Nat /\ gen'[call[d].pair] \in Nat
      BY <1>1, <3>2
    <3>5. call[d].gen <= gen'[call[d].pair]
      BY <3>2, <3>3, <3>4
    <3> QED
      BY <2>1, <3>3, <3>5
  <2>2. CASE /\ Commit(d) /\ call[d] \in Asked
             /\ call'[d] = [pc |-> "count", pair |-> call[d].pair, gen |-> gen'[call[d].pair],
                            videos |-> {}]
    <3>1. call[d].pair \in Pairs
      BY <2>2 DEF Asked
    <3> QED
      BY <1>1, <2>2, <3>1
  <2>3. CASE /\ call[d] \in Backfill /\ UNCHANGED tableVars
             /\ call'[d].pair = call[d].pair /\ call'[d].gen = call[d].gen
             /\ \/ CountForBackfill(d) /\ call'[d].videos = call[d].videos
                \/ ListVideos(d) \/ PushBackfill(d)
             /\ call'[d].pc \in {"push", "notify"} /\ ~CountForBackfill(d) =>
                    call'[d].pc = IF call'[d].videos = {} THEN "notify" ELSE "push"
             /\ ~CountForBackfill(d) => call'[d].pc \in {"push", "notify"}
    <3>1. call[d].pc \in Working
      BY <2>3 DEF Backfill, Working
    <3>2. call[d].gen <= gen[call[d].pair] /\ (call[d].pc # "push" => call[d].videos = {})
      BY <3>1 DEF CallsRight
    <3>3. CountForBackfill(d) => call[d].pc = "count"
      BY DEF CountForBackfill
    <3>4. ListVideos(d) \/ PushBackfill(d) => ~CountForBackfill(d)
      BY DEF CountForBackfill, ListVideos, PushBackfill
    <3> QED
      BY <2>3, <3>2, <3>3, <3>4 DEF tableVars
  <2>4. CountForBackfill(d) => ~ListVideos(d) /\ ~PushBackfill(d)
    BY DEF CountForBackfill, ListVideos, PushBackfill
  <2> QED
    BY <1>2, <2>1, <2>2, <2>3, <2>4, CallMoves
<1>3. ASSUME NEW p \in Pairs PROVE served'[p] <= gen'[p]
  <2>1. CASE served'[p] = served[p]
    BY <1>1, <2>1
  <2>2. CASE served'[p] # served[p]
    <3>1. PICK c \in Calls : /\ Notify(c) /\ UNCHANGED tableVars
                             /\ call[c].pair = p /\ served'[p] = call[c].gen
      BY <2>2, ServedMoves DEF MoreTypes
    <3> QED
      BY <3>1 DEF Notify, CallsRight, Working, tableVars
  <2> QED
    BY <2>1, <2>2
<1> QED
  BY <1>2, <1>3 DEF CallsRight

\* What is owed after a step was owed before it, unless the video is new or the
\* pair has just become active.
LEMMA OwedBefore ==
    ASSUME Types, MoreTypes, [Next]_vars, NEW u \in Users, NEW v \in saved, Owed(u, v)',
           gen'[<<u, AuthorOf[v]>>] = gen[<<u, AuthorOf[v]>>]
    PROVE  Owed(u, v)
<1> DEFINE a == AuthorOf[v]
<1>0. a \in Users /\ u # a /\ <<u, a>> \in Pairs /\ v \in Videos
  BY FollowingAssumption DEF Types, Owed, Pairs
<1>1. /\ saved \subseteq saved' /\ lapsed \subseteq lapsed' /\ crossed \subseteq crossed'
      /\ \A w \in saved \ crossed' : Big(AuthorOf[w])' = Big(AuthorOf[w])
      /\ gen'[<<u, a>>] = gen[<<u, a>>] /\ follow'[<<u, a>>].status = "active"
             => follow[<<u, a>>].status = "active"
  BY <1>0, HistoryStep
<1>2. Steady(v) /\ ~Big(a) /\ {u, a} \cap lapsed = {} /\ u # a
  BY <1>1 DEF Owed, Steady
<1>3. u \in Followers(a)
  <2>1. follow'[<<u, a>>].status = "active"
    BY DEF Owed, Followers
  <2> QED
    BY <1>0, <1>1, <2>1 DEF Followers
<1>4. v \in Recent(SavedOf(a), BackfillLimit)
  <2> DEFINE before == {w \in SavedOf(a) : w > v}
             after == {w \in SavedOf(a)' : w > v}
  <2>1. v \in SavedOf(a) /\ before \in SUBSET after /\ after \in SUBSET saved'
    BY <1>1 DEF SavedOf
  <2>2. Cardinality(after) < BackfillLimit
    BY DEF Owed, Recent
  <2>3. IsFiniteSet(saved')
    BY SavedStep DEF MoreTypes, OnlySaved
  <2>4. IsFiniteSet(after)
    BY <2>1, <2>3, FS_Subset
  <2>5. IsFiniteSet(before) /\ Cardinality(before) <= Cardinality(after)
    BY <2>1, <2>4, FS_Subset
  <2>6. Cardinality(before) \in Nat /\ Cardinality(after) \in Nat /\ BackfillLimit \in Nat
    BY <2>4, <2>5, FS_CardinalityType, FollowingAssumption
  <2>7. Cardinality(before) < BackfillLimit
    <3> PICK i \in Nat, j \in Nat : i = Cardinality(before) /\ j = Cardinality(after)
      BY <2>6
    <3> QED
      BY <2>2, <2>5, <2>6
  <2> QED
    BY <2>1, <2>7 DEF Recent
<1> QED
  BY <1>2, <1>3, <1>4 DEF Owed

\* Obligations to a viewer: a new video has its event before it, a new follow no
\* complete backfill; a backfill lists the video, or its fan-out is ahead.
LEMMA InboxesRightStep ==
    ASSUME Types, MoreTypes, WorkerRight, CallsRight, InboxesRight, [Next]_vars
    PROVE  InboxesRight'
<1> SUFFICES ASSUME NEW u \in Users, NEW v \in Videos, Owed(u, v)'
             PROVE  /\ served'[<<u, AuthorOf[v]>>] = gen'[<<u, AuthorOf[v]>>] => Given(u, v)'
                    /\ \A d \in Calls :
                           /\ call'[d].pc \in {"push", "notify"}
                           /\ call'[d].pair = <<u, AuthorOf[v]>>
                           /\ call'[d].gen = gen'[<<u, AuthorOf[v]>>]
                           => v \in call'[d].videos \/ Given(u, v)'
  BY DEF InboxesRight
<1> DEFINE a == AuthorOf[v]
           p == <<u, a>>
<1>0. /\ a \in Users /\ u # a /\ p \in Pairs /\ v \in saved' /\ p[1] = u /\ p[2] = a
      /\ gen'[p] \in Nat /\ gen[p] \in Nat /\ gen'[p] >= gen[p]
      /\ served[p] <= gen[p] /\ served[p] \in Nat
  <2>1. a \in Users /\ u # a /\ v \in saved'
    BY FollowingAssumption DEF Owed, Steady
  <2>2. p \in Pairs
    BY <2>1 DEF Pairs
  <2> QED
    BY <2>1, <2>2, HistoryStep DEF CallsRight, MoreTypes, Marks
<1> HIDE DEF p
<1>1. CASE v \notin saved
  <2>1. OnTheWay(v)'
    BY <1>0, <1>1, WayKept DEF MoreTypes
  <2> QED
    BY <2>1 DEF Given, ComingTo
<1>2. CASE v \in saved /\ gen'[p] # gen[p]
  <2>1. gen[p] < gen'[p] /\ ~ UNCHANGED tableVars
    BY <1>0, <1>2 DEF tableVars
  <2>2. served'[p] # gen'[p]
    BY <1>0, <2>1, ServedMoves DEF MoreTypes
  <2>3. ASSUME NEW d \in Calls, call'[d].pc \in {"push", "notify"}, call'[d].pair = p,
               call'[d].gen = gen'[p]
        PROVE  FALSE
    <3>0. call'[d].pc \in Working /\ call'[d].pc # "count"
      BY <2>3 DEF Working
    <3>01. \/ call'[d] = call[d]
           \/ call'[d] = [pc |-> "count", pair |-> call[d].pair, gen |-> gen'[call[d].pair], videos |-> {}]
           \/ UNCHANGED tableVars
      BY <3>0, CallMoves
    <3>1. call'[d] = call[d]
      BY <2>1, <3>0, <3>01
    <3>2. call[d].gen <= gen[p]
      BY <2>3, <3>1 DEF CallsRight, Working
    <3> QED
      BY <1>0, <2>1, <2>3, <3>1, <3>2
  <2> QED
    BY <2>2, <2>3 DEF p
<1>3. CASE v \in saved /\ gen'[p] = gen[p]
  <2>1. Owed(u, v)
    BY <1>3, OwedBefore DEF p
  <2>2. /\ u \in Followers(a) /\ v \notin crossed /\ ~Big(a) /\ v \in Recent(SavedOf(a), BackfillLimit)
        /\ u \notin lapsed'
    BY <2>1 DEF Owed, Steady
  <2>3. Given(u, v) => Given(u, v)'
    BY <1>3, <2>2, GivenKept
  <2>4. /\ served[p] = gen[p] => Given(u, v)
        /\ \A c \in Calls :
               call[c].pc \in {"push", "notify"} /\ call[c].pair = p /\ call[c].gen = gen[p]
                   => v \in call[c].videos \/ Given(u, v)
    BY <2>1 DEF InboxesRight, p
  <2>5. ASSUME served'[p] = gen'[p] PROVE Given(u, v)'
    <3>1. CASE served'[p] = served[p]
      BY <1>3, <2>3, <2>4, <2>5, <3>1
    <3>2. CASE served'[p] # served[p]
      <4>1. PICK c \in Calls : Notify(c) /\ call[c].pair = p /\ served'[p] = call[c].gen
        BY <1>0, <3>2, ServedMoves DEF MoreTypes
      <4>2. call[c].pc = "notify" /\ call[c].videos = {}
        BY <4>1 DEF Notify, CallsRight, Working
      <4> QED
        BY <1>3, <2>3, <2>4, <2>5, <4>1, <4>2
    <3> QED
      BY <3>1, <3>2
  <2>6. ASSUME NEW d \in Calls, call'[d].pc \in {"push", "notify"}, call'[d].pair = p,
               call'[d].gen = gen'[p]
        PROVE  v \in call'[d].videos \/ Given(u, v)'
    <3>1. CASE call'[d] = call[d]
      BY <1>3, <2>3, <2>4, <2>6, <3>1
    <3>2. CASE /\ CountForBackfill(d) /\ call'[d].pair = call[d].pair
               /\ call'[d].pc = IF Big(call[d].pair[2]) THEN "notify" ELSE "videos"
      BY <1>0, <2>2, <2>6, <3>2
    <3>3. CASE /\ ListVideos(d) /\ call'[d].pair = call[d].pair
               /\ call'[d].videos = Recent(SavedOf(call[d].pair[2]), BackfillLimit)
      BY <1>0, <2>2, <2>6, <3>3
    <3>4. CASE /\ PushBackfill(d) /\ call'[d].pair = call[d].pair /\ call'[d].gen = call[d].gen
               /\ \E w \in Recent(call[d].videos, 1) :
                     /\ inbox' = [inbox EXCEPT ![call[d].pair[1]] =
                                     Added(@, [video |-> w, stamp |-> "row"], InboxMax)]
                     /\ call'[d].videos = call[d].videos \ {w}
      <4>1. call[d].pc = "push"
        BY <3>4 DEF PushBackfill
      <4>2. v \in call[d].videos \/ Given(u, v)
        BY <1>3, <2>4, <2>6, <3>4, <4>1
      <4>3. PICK w \in call[d].videos :
               /\ inbox' = [inbox EXCEPT ![u] = Added(@, [video |-> w, stamp |-> "row"], InboxMax)]
               /\ call'[d].videos = call[d].videos \ {w}
        BY <1>0, <2>6, <3>4 DEF Recent
      <4>4. CASE w = v
        <5>1. [video |-> v, stamp |-> "row"] \in Member /\ v \in Nat /\ InboxMax \in Nat
          BY PublicationAssumption, FollowingAssumption DEF Member
        <5>2. inbox'[u] = Added(inbox[u], [video |-> v, stamp |-> "row"], InboxMax)
          BY <4>3, <4>4 DEF Types
        <5>3. inbox[u] \subseteq Member /\ IsFiniteSet(inbox[u])
          BY DEF MoreTypes, SetsBounded, Bounded
        <5>4. HasOrFull(inbox'[u], v, InboxMax)
          BY <5>1, <5>2, <5>3, AddedKeeps
        <5> QED
          BY <5>4 DEF Given
      <4> QED
        BY <2>3, <4>2, <4>3, <4>4
    <3>5. call'[d].pc \in Working /\ call'[d].pc # "count"
      BY <2>6 DEF Working
    <3>6. CASE call'[d] = [pc |-> "count", pair |-> call[d].pair, gen |-> gen'[call[d].pair],
                           videos |-> {}]
      BY <3>5, <3>6
    <3> QED
      BY <3>1, <3>2, <3>3, <3>4, <3>5, <3>6, CallMoves
  <2> QED
    BY <2>5, <2>6 DEF p
<1> QED
  BY <1>1, <1>2, <1>3

LEMMA OutboxesRightStep ==
    ASSUME Types, MoreTypes, WorkerRight, OutboxesRight, [Next]_vars
    PROVE  OutboxesRight'
<1> SUFFICES ASSUME NEW v \in Videos, Steady(v)', Big(AuthorOf[v])', AuthorOf[v] \notin lapsed'
             PROVE  HasOrFull(outbox'[AuthorOf[v]], v, OutboxMax) \/ ComingOut(v)'
  BY DEF OutboxesRight
<1>1. v \in saved' /\ v \notin crossed'
  BY DEF Steady
<1>2. CASE v \notin saved
  BY <1>1, <1>2, WayKept DEF MoreTypes, ComingOut
<1>3. CASE v \in saved
  <2>1. v \notin crossed /\ Big(AuthorOf[v]) /\ AuthorOf[v] \notin lapsed
    BY <1>1, <1>3, HistoryStep
  <2>2. HasOrFull(outbox[AuthorOf[v]], v, OutboxMax) \/ ComingOut(v)
    BY <1>3, <2>1 DEF OutboxesRight, Steady
  <2> QED
    BY <1>3, <2>1, <2>2, OutKept
<1> QED
  BY <1>2, <1>3

LEMMA ServedInit == Init => ServedInv
BY DEF Init, FollowInit, PublicationInit, ServedInv, WorkerRight, CallsRight, InboxesRight,
       OutboxesRight, Owed, Steady, Ready, Resting, Working

\* When nothing of v is under way, what is owed is shown.
LEMMA ServedMeans == Types /\ MoreTypes /\ ServedInv => FollowersServed
<1> SUFFICES ASSUME Types, MoreTypes, ServedInv, NEW u \in Users, NEW v \in Videos,
                    AuthorOf[v] # u, Due(u, v), Consumed(v)
             PROVE  Found(u, v)
  BY DEF FollowersServed
<1> DEFINE a == AuthorOf[v]
<1>1. /\ a \in Users /\ v \in saved /\ v \notin unsent /\ v \notin crossed
      /\ u \in Followers(a) /\ a \in Followed(u) /\ {u, a} \cap lapsed = {}
      /\ v \in Recent(SavedOf(a), BackfillLimit) /\ served[<<u, a>>] = gen[<<u, a>>]
  BY FollowingAssumption DEF Due, Recent, SavedOf, Followed, Followers
<1>2. ~OnTheWay(v) /\ ~ComingTo(u, v) /\ ~ComingOut(v)
  BY <1>1 DEF Consumed, OnTheWay, ComingTo, ComingOut
<1>3. CASE ~Big(a)
  <2>1. HasOrFull(inbox[u], v, InboxMax)
    BY <1>1, <1>2, <1>3 DEF ServedInv, InboxesRight, Owed, Steady, Given
  <2>2. CASE \E m \in inbox[u] : m.video = v
    <3>1. PICK m \in inbox[u] : m.video = v
      BY <2>2
    <3>2. m \in UNION Streams(u)
      BY <3>1 DEF Streams
    <3> QED
      BY <3>1, <3>2 DEF Found, Shown, HasIndex, VideosIn
  <2> QED
    BY <2>1, <2>2 DEF HasOrFull, Found
<1>4. CASE Big(a)
  <2>1. HasOrFull(outbox[a], v, OutboxMax)
    BY <1>1, <1>2, <1>4 DEF ServedInv, OutboxesRight, Steady
  <2>2. CASE \E m \in outbox[a] : m.video = v
    <3>1. PICK m \in outbox[a] : m.video = v
      BY <2>2
    <3>2. m \in UNION Streams(u)
      BY <1>1, <1>4, <3>1 DEF Streams, PullAuthors
    <3> QED
      BY <3>1, <3>2 DEF Found, Shown, HasIndex, VideosIn
  <2> QED
    BY <2>1, <2>2 DEF HasOrFull, Found
<1> QED
  BY <1>3, <1>4

\* However follows, publications and fan-outs with their failures interleave, a
\* video whose event is consumed is in the feed of every follower whose backfill
\* is complete, or newer ones have taken its place.
THEOREM EveryFollowerServed == Spec => []FollowersServed
<1>1. Types /\ MoreTypes /\ ServedInv /\ [Next]_vars => ServedInv'
  BY WorkerRightStep, CallsRightStep, InboxesRightStep, OutboxesRightStep DEF ServedInv
<1> QED
  BY <1>1, TypesInit, TypesStep, MoreTypesInit, MoreTypesStep, ServedInit, ServedMeans, PTL DEF Spec
=============================================================================
