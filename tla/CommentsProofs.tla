--------------------------- MODULE CommentsProofs ---------------------------
(***************************************************************************)
(* Proofs about Comments, for any number of users, keys and requests: the  *)
(* counter, one comment per key, and what is credited to the hot ranking   *)
(* and told to the author, whichever of these calls fail.                  *)
(***************************************************************************)
EXTENDS Comments, FiniteSetTheorems, SequenceTheorems, TLAPS

\* Requests only name comments that exist.
CallRows ==
    \A c \in Calls :
        call[c].pc \in {"remove", "load", "sync", "notify"} => call[c].id \in DOMAIN comments

Inv == TypeOK /\ CountIsLiveComments /\ OneCommentPerKey /\ CallRows

-----------------------------------------------------------------------------
\* The pc of a request tells the fields it has.
LEMMA CallShape ==
    ASSUME TypeOK, NEW c \in Calls
    PROVE  /\ call[c].pc \in {"find", "insert", "existing"} =>
                call[c] \in [pc : {"find", "insert", "existing"}, user : Users,
                             key : Keys \cup {NoKey}]
           /\ call[c].pc = "remove" =>
                call[c] \in [pc : {"remove"}, user : Users, id : 1..MaxComments]
           /\ call[c].pc \in {"load", "sync", "notify"} =>
                call[c] \in [pc : {"load", "sync", "notify"}, id : 1..MaxComments,
                             count : Nat, delta : {-1, 0, 1}]
BY DEF TypeOK, Locals, Ready, Over

\* There are finitely many comments.
LEMMA LiveFinite ==
    ASSUME comments \in Seq(Comment)
    PROVE  IsFiniteSet(LiveComments) /\ Cardinality(LiveComments) \in Nat
<1>1. IsFiniteSet(1..Len(comments))
  BY FS_Interval
<1>2. LiveComments \subseteq 1..Len(comments)
  BY DEF LiveComments
<1> QED
  BY <1>1, <1>2, FS_Subset, FS_CardinalityType

\* Nothing is there at first.
LEMMA InitInv == Init => Inv
<1> SUFFICES ASSUME Init PROVE Inv
  OBVIOUS
<1>1. LiveComments = {}
  BY DEF Init, LiveComments
<1>2. CountIsLiveComments
  BY <1>1, FS_EmptySet DEF Init, CountIsLiveComments
<1>3. PICK requests \in Workloads :
        /\ call = [c \in Calls |-> IF c \in requests THEN Ready ELSE Over]
        /\ proc = [p \in Procs |-> IF p \in requests THEN Free ELSE Finished]
  BY DEF Init
<1>4. Free \in Proc /\ Finished \in Proc
  BY DEF Free, Finished, Proc
<1>5. call \in [Calls -> Locals \cup {Ready, Over}] /\ proc \in [Procs -> Proc]
  BY <1>3, <1>4
<1>6. TypeOK
  BY <1>5, CommentsAssumption DEF Init, TypeOK, Cached, Gone
<1>7. CallRows
  BY <1>3 DEF CallRows, Ready, Over
<1> QED
  BY <1>2, <1>6, <1>7 DEF Init, Inv, OneCommentPerKey

\* A step that leaves the table alone keeps what is said of it.
LEMMA TableKept ==
    ASSUME Inv, UNCHANGED tableVars
    PROVE  CountIsLiveComments' /\ OneCommentPerKey'
BY DEF Inv, tableVars, CountIsLiveComments, LiveComments, OneCommentPerKey

-----------------------------------------------------------------------------
(* The two transactions.                                                   *)

\* A creation adds one comment, under a key its user has not used.
LEMMA InsertStep ==
    ASSUME Inv, NEW c \in Calls, Insert(c)
    PROVE  Inv'
<1> DEFINE q == call[c]
           new == [user |-> q.user, key |-> q.key, status |-> Normal]
           n == Len(comments)
<1> USE DEF Inv
<1>1. /\ q.user \in Users /\ q.key \in Keys \cup {NoKey}
      /\ [q EXCEPT !.pc = "existing"] \in Locals
  BY CallShape DEF Insert, Locals
<1>2. CASE ~published \/ Duplicate(q)
  <2>1. UNCHANGED tableVars
    BY <1>2 DEF Insert
  <2>2. \/ call' = [call EXCEPT ![c] = Over]
        \/ call' = [call EXCEPT ![c] = [q EXCEPT !.pc = "existing"]]
    BY <1>2 DEF Insert
  <2>3. TypeOK'
    BY <1>1, <2>1, <2>2 DEF Insert, TypeOK, tableVars, cacheVars, creditVars
  <2>4. CallRows'
    BY <1>1, <2>1, <2>2 DEF CallRows, tableVars, TypeOK, Over, Locals
  <2> QED
    BY <2>1, <2>3, <2>4, TableKept
<1>3. CASE published /\ ~Duplicate(q)
  <2>1. /\ n < MaxComments
        /\ comments' = Append(comments, new)
        /\ commentCount' = commentCount + 1
        /\ call' = [call EXCEPT ![c] = [pc |-> "load", id |-> n + 1,
                                        count |-> commentCount + 1, delta |-> 1]]
    BY <1>3 DEF Insert
  <2>2. /\ new \in Comment
        /\ comments \in Seq(Comment) /\ n \in Nat
        /\ commentCount \in Nat /\ MaxComments \in Nat
    BY <1>1, CommentsAssumption DEF TypeOK, Comment
  <2>3. /\ comments' \in Seq(Comment) /\ Len(comments') = n + 1
        /\ \A i \in 1..n : comments'[i] = comments[i]
        /\ comments'[n + 1] = new
    BY <2>1, <2>2
  <2>4. [pc |-> "load", id |-> n + 1, count |-> commentCount + 1, delta |-> 1] \in Locals
    BY <2>1, <2>2 DEF Locals
  <2>5. TypeOK'
    <3>1. told \subseteq DOMAIN comments' /\ untold \subseteq DOMAIN comments'
      BY <2>2, <2>3 DEF TypeOK
    <3> QED
      BY <1>3, <2>1, <2>2, <2>3, <2>4, <3>1
      DEF Insert, TypeOK, cacheVars, creditVars
  <2>6. CountIsLiveComments'
    <3>1. LiveComments' = LiveComments \cup {n + 1} /\ n + 1 \notin LiveComments
      BY <2>2, <2>3 DEF LiveComments
    <3>2. IsFiniteSet(LiveComments)
      BY <2>2, LiveFinite
    <3>3. Cardinality(LiveComments') = Cardinality(LiveComments) + 1
      BY <3>1, <3>2, FS_AddElement
    <3> QED
      BY <2>1, <3>3 DEF CountIsLiveComments
  <2>7. OneCommentPerKey'
    <3>1. q.key # NoKey => \A i \in 1..n : ~(comments[i].user = q.user /\ comments[i].key = q.key)
      BY <1>3, <2>2 DEF Duplicate, Matches
    <3>2. DOMAIN comments' = 1..(n + 1) /\ DOMAIN comments = 1..n
      BY <2>2, <2>3
    <3>3. new.key = q.key /\ new.user = q.user
      OBVIOUS
    <3> QED
      BY <2>2, <2>3, <3>1, <3>2, <3>3 DEF OneCommentPerKey
  <2>8. CallRows'
    BY <2>1, <2>2, <2>3 DEF CallRows, TypeOK
  <2> QED
    BY <2>5, <2>6, <2>7, <2>8
<1> QED
  BY <1>2, <1>3

\* A deletion takes one comment from the count, the first time.
LEMMA RemoveStep ==
    ASSUME Inv, NEW c \in Calls, Remove(c)
    PROVE  Inv'
<1> DEFINE u == call[c].user
           i == call[c].id
           d == IF i \in LiveComments THEN -1 ELSE 0
           next == [pc |-> "load", id |-> i, count |-> CountAfterRemoval(i), delta |-> d]
<1> USE DEF Inv
<1>1. /\ u \in Users /\ i \in 1..MaxComments /\ i \in DOMAIN comments
      /\ comments \in Seq(Comment) /\ commentCount \in Nat
  BY CallShape DEF Remove, CallRows, TypeOK
<1>2. CASE ~Permitted(u, i)
  <2>1. UNCHANGED tableVars /\ call' = [call EXCEPT ![c] = Over]
    BY <1>2 DEF Remove
  <2>2. TypeOK' /\ CallRows'
    BY <2>1 DEF Remove, TypeOK, CallRows, tableVars, cacheVars, creditVars, Over
  <2> QED
    BY <2>1, <2>2, TableKept
<1>3. CASE Permitted(u, i)
  <2>1. /\ comments' = [comments EXCEPT ![i].status = Deleted]
        /\ commentCount' = CountAfterRemoval(i)
        /\ call' = [call EXCEPT ![c] = next]
        /\ UNCHANGED <<published, base, json, proc, creditVars>>
    BY <1>3 DEF Remove, cacheVars, creditVars
  <2>2. CountAfterRemoval(i) \in Nat
    BY <1>1 DEF CountAfterRemoval
  <2>3. next \in Locals
    BY <1>1, <2>2 DEF Locals
  <2>4. /\ comments' \in Seq(Comment) /\ Len(comments') = Len(comments)
        /\ DOMAIN comments' = DOMAIN comments
        /\ comments'[i] = [comments[i] EXCEPT !.status = Deleted]
        /\ \A j \in DOMAIN comments : j # i => comments'[j] = comments[j]
    <3> DEFINE gone == [comments[i] EXCEPT !.status = Deleted]
    <3>1. gone \in Comment /\ i \in 1..Len(comments)
      <4>1. i \in 1..Len(comments)
        BY <1>1
      <4>2. comments[i] \in Comment
        BY <1>1, <4>1
      <4> QED
        BY <4>1, <4>2 DEF Comment
    <3>2. comments' = [comments EXCEPT ![i] = gone]
      BY <2>1
    <3> HIDE DEF gone
    <3>3. /\ [comments EXCEPT ![i] = gone] \in Seq(Comment)
          /\ Len([comments EXCEPT ![i] = gone]) = Len(comments)
      BY <1>1, <3>1, ExceptSeq
    <3>4. DOMAIN comments' = DOMAIN comments
      BY <3>2
    <3>5. comments'[i] = gone /\ \A j \in DOMAIN comments : j # i => comments'[j] = comments[j]
      BY <1>1, <3>2
    <3> QED
      BY <3>2, <3>3, <3>4, <3>5 DEF gone
  <2>5. TypeOK'
    BY <2>1, <2>2, <2>3, <2>4 DEF TypeOK, creditVars
  <2>6. LiveComments' = LiveComments \ {i}
    <3>1. comments'[i].status = Deleted /\ Deleted # Normal
      BY <1>1, <2>4 DEF Comment, Deleted, Normal
    <3> QED
      BY <2>4, <3>1 DEF LiveComments
  <2>7. CountIsLiveComments'
    <3>1. IsFiniteSet(LiveComments) /\ Cardinality(LiveComments) \in Nat
      BY <1>1, LiveFinite
    <3>2. CASE i \in LiveComments
      <4>1. Cardinality(LiveComments') = Cardinality(LiveComments) - 1
        BY <2>6, <3>1, <3>2, FS_RemoveElement
      <4>2. Cardinality(LiveComments) # 0
        BY <3>1, <3>2, FS_EmptySet
      <4> QED
        BY <2>1, <3>2, <4>1, <4>2 DEF CountIsLiveComments, CountAfterRemoval
    <3>3. CASE i \notin LiveComments
      BY <2>1, <2>6, <3>3 DEF CountIsLiveComments, CountAfterRemoval
    <3> QED
      BY <3>2, <3>3
  <2>8. OneCommentPerKey'
    <3>1. \A j \in DOMAIN comments :
             comments'[j].user = comments[j].user /\ comments'[j].key = comments[j].key
      <4>1. comments[i] \in Comment
        BY <1>1
      <4>2. comments'[i].user = comments[i].user /\ comments'[i].key = comments[i].key
        BY <2>4, <4>1 DEF Comment
      <4> QED
        BY <2>4, <4>2
    <3>2. DOMAIN comments' = DOMAIN comments
      BY <2>4
    <3> QED
      BY <3>1, <3>2 DEF OneCommentPerKey
  <2>9. CallRows'
    BY <1>1, <2>1, <2>4 DEF CallRows, TypeOK
  <2> QED
    BY <2>5, <2>7, <2>8, <2>9
<1> QED
  BY <1>2, <1>3

-----------------------------------------------------------------------------
(* The other steps leave the table alone.                                  *)

\* A request arrives.
LEMMA ArrivalStep ==
    ASSUME Inv, NEW c \in Calls, NEW u \in Users,
           \/ \E key \in Keys \cup {NoKey} : Create(c, u, key)
           \/ \E i \in 1..MaxComments : Delete(c, u, i)
    PROVE  Inv'
<1> USE DEF Inv
<1>1. UNCHANGED <<tableVars, cacheVars, proc, creditVars>>
  BY DEF Create, Delete
<1>2. PICK l \in Locals : /\ call' = [call EXCEPT ![c] = l]
                          /\ l.pc = "remove" => l.id \in DOMAIN comments
                          /\ l.pc \notin {"load", "sync", "notify"}
  <2>1. ASSUME NEW key \in Keys \cup {NoKey}, Create(c, u, key)
        PROVE  \E l \in Locals : /\ call' = [call EXCEPT ![c] = l]
                                 /\ l.pc \in {"find", "insert"}
    <3> DEFINE l == [pc |-> IF key = NoKey THEN "insert" ELSE "find", user |-> u, key |-> key]
    <3>1. call' = [call EXCEPT ![c] = l] /\ l.pc \in {"find", "insert"}
      BY <2>1 DEF Create
    <3>2. l \in Locals
      BY DEF Locals
    <3> QED
      BY <3>1, <3>2
  <2>2. ASSUME NEW i \in 1..MaxComments, Delete(c, u, i)
        PROVE  \E l \in Locals : /\ call' = [call EXCEPT ![c] = l]
                                 /\ l.pc = "remove" /\ l.id \in DOMAIN comments
    <3> DEFINE l == [pc |-> "remove", user |-> u, id |-> i]
    <3>1. call' = [call EXCEPT ![c] = l] /\ l.pc = "remove" /\ l.id \in DOMAIN comments
      BY <2>2 DEF Delete
    <3>2. l \in Locals
      BY DEF Locals
    <3> QED
      BY <3>1, <3>2
  <2>3. CASE \E key \in Keys \cup {NoKey} : Create(c, u, key)
    BY <2>1, <2>3
  <2>4. CASE \E i \in 1..MaxComments : Delete(c, u, i)
    BY <2>2, <2>4
  <2> QED
    BY <2>3, <2>4
<1>3. call' \in [Calls -> Locals \cup {Ready, Over}]
  BY <1>2 DEF TypeOK
<1>4. TypeOK'
  BY <1>1, <1>3 DEF TypeOK, tableVars, cacheVars, creditVars
<1>5. CallRows'
  BY <1>1, <1>2 DEF TypeOK, CallRows, tableVars
<1> QED
  BY <1>1, <1>4, <1>5, TableKept

\* A request goes on, before or after its transaction.
LEMMA RequestStep ==
    ASSUME Inv, NEW c \in Calls,
           Find(c) \/ Existing(c) \/ Load(c) \/ Sync(c) \/ Notify(c) \/ Abort(c)
    PROVE  Inv'
<1> USE DEF Inv
<1>1. UNCHANGED tableVars
  BY DEF Find, Existing, Load, Sync, Notify, Abort
<1>2. PICK l \in Locals \cup {Ready, Over} :
             /\ call' = [call EXCEPT ![c] = l]
             /\ l.pc \in {"remove", "load", "sync", "notify"} => l.id \in DOMAIN comments
  <2>1. CASE Find(c)
    <3> DEFINE l == IF \E i \in DOMAIN comments : Matches(i, call[c])
                      THEN Over ELSE [call[c] EXCEPT !.pc = "insert"]
    <3>1. call' = [call EXCEPT ![c] = l]
      BY <2>1 DEF Find
    <3>2. l = Over \/ l \in [pc : {"insert"}, user : Users, key : Keys \cup {NoKey}]
      BY <2>1, CallShape DEF Find
    <3> HIDE DEF l
    <3>3. l \in Locals \cup {Ready, Over} /\ l.pc \in {"over", "insert"}
      BY <3>2 DEF Locals, Over
    <3> QED
      BY <3>1, <3>3
  <2>2. CASE Existing(c)
    <3>1. PICK i \in DOMAIN comments :
             call' = [call EXCEPT ![c] = [pc |-> "load", id |-> i, count |-> commentCount,
                                          delta |-> DuplicateDelta]]
      BY <2>2 DEF Existing
    <3> DEFINE l == [pc |-> "load", id |-> i, count |-> commentCount, delta |-> DuplicateDelta]
    <3>2. i \in 1..MaxComments /\ commentCount \in Nat /\ DuplicateDelta \in {-1, 0, 1}
      BY CommentsAssumption DEF TypeOK, DuplicateDelta
    <3>3. l \in Locals
      BY <3>2 DEF Locals
    <3>4. call' = [call EXCEPT ![c] = l] /\ l.id = i
      BY <3>1
    <3> QED
      BY <3>3, <3>4
  <2>3. CASE Load(c)
    <3>1. call[c].id \in DOMAIN comments
      BY <2>3 DEF Load, CallRows
    <3> DEFINE l == [call[c] EXCEPT !.pc = "sync"]
    <3>2. call' = [call EXCEPT ![c] = l] /\ l.id = call[c].id
      BY <2>3, CallShape DEF Load
    <3>3. l \in Locals
      BY <2>3, CallShape DEF Load, Locals
    <3> QED
      BY <3>1, <3>2, <3>3
  <2>4. CASE Sync(c)
    <3>1. call[c].id \in DOMAIN comments
      BY <2>4 DEF Sync, CallRows
    <3> DEFINE l == IF call[c].delta > 0 THEN [call[c] EXCEPT !.pc = "notify"] ELSE Over
    <3>2. call' = [call EXCEPT ![c] = l]
      BY <2>4 DEF Sync
    <3>3. l = Over \/ (l \in Locals /\ l.id = call[c].id)
      <4> DEFINE k == [call[c] EXCEPT !.pc = "notify"]
      <4>1. k \in [pc : {"load", "sync", "notify"}, id : 1..MaxComments, count : Nat,
                   delta : {-1, 0, 1}] /\ k.id = call[c].id
        BY <2>4, CallShape DEF Sync
      <4>2. k \in Locals
        BY <4>1 DEF Locals
      <4>3. l = k \/ l = Over
        OBVIOUS
      <4> HIDE DEF k, l
      <4> QED
        BY <4>1, <4>2, <4>3
    <3>4. Over.pc = "over"
      BY DEF Over
    <3> QED
      BY <3>1, <3>2, <3>3, <3>4
  <2>5. CASE Notify(c) \/ Abort(c)
    <3>1. call' = [call EXCEPT ![c] = Over]
      BY <2>5 DEF Notify, Abort
    <3>2. Over.pc = "over"
      BY DEF Over
    <3> QED
      BY <3>1, <3>2
  <2> QED
    BY <2>1, <2>2, <2>3, <2>4, <2>5
<1>3. json' \in Cached
  <2>1. CASE Sync(c)
    <3>1. call[c].count \in Nat
      BY <2>1, CallShape DEF Sync
    <3>2. Shows(call[c].count) \in Cached
      BY <3>1 DEF Cached, Shows
    <3>3. json' = json \/ json' = Shows(call[c].count)
      BY <2>1 DEF Sync
    <3> QED
      BY <3>2, <3>3 DEF TypeOK
  <2>2. CASE ~Sync(c)
    BY <2>2 DEF Find, Existing, Load, Notify, Abort, cacheVars, TypeOK
  <2> QED
    BY <2>1, <2>2
<1>4. hotScore' \in Int /\ missed' \in Int
  <2>1. hotScore \in Int /\ missed \in Int
    BY DEF TypeOK
  <2>2. call[c].pc = "load" => call[c].delta \in {-1, 0, 1}
    BY CallShape
  <2>3. CASE Load(c)
    BY <2>1, <2>2, <2>3 DEF Load, hotScoreCommentWeight
  <2>4. CASE Abort(c)
    BY <2>1, <2>2, <2>4 DEF Abort
  <2>5. CASE Find(c) \/ Existing(c) \/ Sync(c) \/ Notify(c)
    BY <2>1, <2>5 DEF Find, Existing, Sync, Notify, creditVars
  <2> QED
    BY <2>3, <2>4, <2>5
<1>5. told' \subseteq DOMAIN comments /\ untold' \subseteq DOMAIN comments
  <2>1. told \subseteq DOMAIN comments /\ untold \subseteq DOMAIN comments
    BY DEF TypeOK
  <2>2. call[c].pc \in {"load", "sync", "notify"} => call[c].id \in DOMAIN comments
    BY DEF CallRows
  <2>3. CASE Notify(c)
    BY <2>1, <2>2, <2>3 DEF Notify, WithMessage
  <2>4. CASE Abort(c)
    BY <2>1, <2>2, <2>4 DEF Abort, ToTell
  <2>5. CASE Find(c) \/ Existing(c) \/ Load(c) \/ Sync(c)
    BY <2>1, <2>5 DEF Find, Existing, Load, Sync, creditVars
  <2> QED
    BY <2>3, <2>4, <2>5
<1>6. UNCHANGED <<base, proc>>
  BY DEF Find, Existing, Load, Sync, Notify, Abort, cacheVars
<1>7. TypeOK'
  BY <1>1, <1>2, <1>3, <1>4, <1>5, <1>6 DEF TypeOK, tableVars
<1>8. CallRows'
  BY <1>1, <1>2 DEF CallRows, TypeOK, tableVars
<1> QED
  BY <1>1, <1>7, <1>8, TableKept

\* Likes, feed requests and keys that expire.
LEMMA DisplayStep ==
    ASSUME Inv,
           \/ \E l \in Likers : Like(l) \/ Script(l)
           \/ \E r \in Readers : Miss(r)
           \/ \E p \in Procs : Display(p)
           \/ ExpireJSON \/ ExpireBase
    PROVE  Inv'
<1> USE DEF Inv
<1>1. UNCHANGED <<tableVars, call, creditVars>>
  BY DEF Like, Script, Miss, Display, ReadBase, FallBack, Query, Store, ExpireJSON, ExpireBase
<1>2. \A n \in Nat : Shows(n) \in Cached
  BY DEF Shows, Cached
<1>3. Gone \in Cached
  BY DEF Gone, Cached
<1>4. \A p \in Procs : proc[p].count \in Nat /\ proc[p] \in Proc
  BY DEF TypeOK, Proc
<1>5. base.count \in Nat /\ json.count \in Nat /\ commentCount \in Nat
  BY DEF TypeOK, Cached
<1>6. base' \in Cached
  BY <1>2, <1>3, <1>4
  DEF Like, Script, Miss, Display, ReadBase, FallBack, Query, Store, ExpireJSON, ExpireBase,
      TypeOK, Procs, cacheVars
<1>7. json' \in Cached
  <2>1. json \in Cached
    BY DEF TypeOK
  <2>2. \A p \in Procs : Shows(proc[p].count) \in Cached
    BY <1>2, <1>4
  <2>3. ASSUME NEW p \in Procs, Store(p) PROVE json' \in Cached
    BY <2>1, <2>2, <2>3 DEF Store
  <2> QED
    BY <1>3, <2>1, <2>3
    DEF Like, Script, Miss, Display, ReadBase, FallBack, Query, ExpireJSON, ExpireBase, cacheVars
<1>8. proc' \in [Procs -> Proc]
  <2>1. proc \in [Procs -> Proc]
    BY DEF TypeOK
  <2>2. ASSUME NEW p \in Procs, NEW l \in Proc, proc' = [proc EXCEPT ![p] = l]
        PROVE  proc' \in [Procs -> Proc]
    BY <2>1, <2>2
  <2>3. \A p \in Procs, pc \in {"base", "fallback", "query", "store"} :
           [proc[p] EXCEPT !.pc = pc] \in Proc
    BY <1>4 DEF Proc
  <2>4. \A n \in Nat, pc \in {"idle", "script", "store", "done"} :
           [pc |-> pc, count |-> n] \in Proc
    BY DEF Proc
  <2>5. Finished \in Proc /\ Free \in Proc
    BY DEF Free, Finished, Proc
  <2>6. CASE \E l \in Likers : Like(l) \/ Script(l)
    BY <1>5, <2>2, <2>3, <2>4, <2>6 DEF Like, Script, Procs
  <2>7. CASE \E r \in Readers : Miss(r)
    BY <2>2, <2>3, <2>7 DEF Miss, Procs
  <2>8. ASSUME NEW p \in Procs, Display(p) PROVE proc' \in [Procs -> Proc]
    <3>1. CASE ReadBase(p)
      BY <1>5, <2>2, <2>3, <2>4, <3>1 DEF ReadBase
    <3>2. CASE FallBack(p)
      BY <1>5, <2>2, <2>3, <2>4, <3>2 DEF FallBack
    <3>3. CASE Query(p) \/ Store(p)
      BY <1>5, <2>2, <2>4, <2>5, <3>3 DEF Query, Store
    <3> QED
      BY <2>8, <3>1, <3>2, <3>3 DEF Display
  <2>9. CASE ExpireJSON \/ ExpireBase
    BY <2>1, <2>9 DEF ExpireJSON, ExpireBase
  <2> QED
    BY <2>6, <2>7, <2>8, <2>9
<1>9. TypeOK' /\ CallRows'
  BY <1>1, <1>6, <1>7, <1>8 DEF TypeOK, CallRows, tableVars, creditVars
<1> QED
  BY <1>1, <1>9, TableKept

\* Every step keeps the invariant.
LEMMA NextInv == Inv /\ [Next]_vars => Inv'
<1> SUFFICES ASSUME Inv, [Next]_vars PROVE Inv'
  OBVIOUS
<1>1. CASE Unpublish
  BY <1>1 DEF Inv, Unpublish, TypeOK, CountIsLiveComments, LiveComments, OneCommentPerKey,
              CallRows, cacheVars, creditVars
<1>2. CASE UNCHANGED vars
  BY <1>2 DEF Inv, vars, TypeOK, CountIsLiveComments, LiveComments, OneCommentPerKey,
              CallRows, tableVars, cacheVars, creditVars
<1> QED
  BY <1>1, <1>2, InsertStep, RemoveStep, ArrivalStep, RequestStep, DisplayStep
  DEF Next, Request

-----------------------------------------------------------------------------
\* The invariant holds for ever: types, the count, the keys, and that requests
\* name comments that exist.
THEOREM Invariance == Spec => []Inv
<1> QED
  BY InitInv, NextInv, PTL DEF Spec

\* Types: among others the counter stays a natural number.
THEOREM CommentTypes == Spec => []TypeOK
<1>1. Inv => TypeOK
  BY DEF Inv
<1> QED
  BY <1>1, Invariance, PTL

\* comment_count is the number of comments that are not deleted, for any
\* number of concurrent creations, retries and deletions (CreateComment and
\* DeleteComment change row and counter in one transaction).
THEOREM CommentCountExact == Spec => []CountIsLiveComments
<1>1. Inv => CountIsLiveComments
  BY DEF Inv
<1> QED
  BY <1>1, Invariance, PTL

\* A key makes one comment of a user at most (uk_user_idempotency).
THEOREM RetryMakesNoSecond == Spec => []OneCommentPerKey
<1>1. Inv => OneCommentPerKey
  BY DEF Inv
<1> QED
  BY <1>1, Invariance, PTL
-----------------------------------------------------------------------------
(* After the transaction: what requests under way still owe to the hot     *)
(* ranking and to the author.                                              *)

\* Requests whose change of d comments is committed and not yet credited.
Crediting(d) == {c \in Calls : call[c].pc = "load" /\ call[c].delta = d}

\* Request c has made comment i and the author has no message from it yet.
Telling(c, i) ==
    call[c].pc \in {"load", "sync", "notify"} /\ call[c].delta = 1 /\ call[c].id = i

\* The hot score lacks just what requests under way will credit and what was
\* missed.
Owed ==
    /\ \A d \in {-1, 1} : IsFiniteSet(Crediting(d))
    /\ hotScore = hotScoreCommentWeight *
          (Cardinality(LiveComments) - Cardinality(Crediting(1)) + Cardinality(Crediting(-1))
             - missed)

\* A comment is told by the one request that made it.
OneTeller ==
    \A c1, c2 \in Calls : \A i \in DOMAIN comments :
        Telling(c1, i) /\ Telling(c2, i) => c1 = c2

\* Messages lack just what requests under way will tell and what was not told.
ToldSoFar ==
    /\ told \cap untold = {}
    /\ \A i \in DOMAIN comments :
          i \in told \cup untold <=> Tells(i) /\ \A c \in Calls : ~Telling(c, i)

\* Only a request that made a comment goes on to notify.
NotifyOfNew == \A c \in Calls : call[c].pc = "notify" => call[c].delta = 1

QuietInv == Inv /\ Owed /\ OneTeller /\ NotifyOfNew /\ ToldSoFar

\* A step of request c.
Alone(c) == \A e \in Calls \ {c} : call'[e] = call[e]

\* What a step of c may change of these sets.
LEMMA CallMoves ==
    ASSUME NEW c \in Calls, Alone(c)
    PROVE  /\ \A e \in Calls \ {c} : \A i : Telling(e, i)' <=> Telling(e, i)
           /\ \A d : Crediting(d)' \ {c} = Crediting(d) \ {c}
           /\ \A d : c \in Crediting(d) <=> call[c].pc = "load" /\ call[c].delta = d
           /\ \A d : c \in Crediting(d)' <=> call'[c].pc = "load" /\ call'[c].delta = d
<1>1. \A e \in Calls \ {c} : \A i : Telling(e, i)' <=> Telling(e, i)
  BY DEF Alone, Telling
<1>2. \A d : Crediting(d)' \ {c} = Crediting(d) \ {c}
  BY DEF Alone, Crediting
<1>3. \A d : c \in Crediting(d) <=> call[c].pc = "load" /\ call[c].delta = d
  BY DEF Crediting
<1>4. \A d : c \in Crediting(d)' <=> call'[c].pc = "load" /\ call'[c].delta = d
  BY DEF Crediting
<1> QED
  BY <1>1, <1>2, <1>3, <1>4

\* An update of one request's locals is a step of that request.
LEMMA UpdateAlone ==
    ASSUME TypeOK, NEW c \in Calls, NEW l, call' = [call EXCEPT ![c] = l]
    PROVE  Alone(c) /\ call'[c] = l
BY DEF TypeOK, Alone

\* A step that leaves to each request what it owes keeps Owed.
LEMMA OwedKept ==
    ASSUME Owed, \A d \in {-1, 1} : Crediting(d)' = Crediting(d),
           LiveComments' = LiveComments, hotScore' = hotScore, missed' = missed
    PROVE  Owed'
BY DEF Owed

\* A step that leaves to each request what it tells keeps the rest.
LEMMA ToldKept ==
    ASSUME OneTeller, ToldSoFar,
           \A e \in Calls : \A i : Telling(e, i)' <=> Telling(e, i),
           DOMAIN comments' = DOMAIN comments,
           \A i \in DOMAIN comments : comments'[i].user = comments[i].user,
           told' = told, untold' = untold
    PROVE  OneTeller' /\ ToldSoFar'
<1>1. OneTeller'
  BY DEF OneTeller
<1>2. \A i \in DOMAIN comments : Tells(i)' <=> Tells(i)
  BY DEF Tells
<1>3. ToldSoFar'
  BY <1>2 DEF ToldSoFar
<1> QED
  BY <1>1, <1>3

\* Before a request has changed a comment it owes nothing.
LEMMA NothingOwedYet ==
    ASSUME QuietInv, NEW c \in Calls, Alone(c),
           call[c].pc \notin {"load", "sync", "notify"},
           call'[c].pc \in {"load", "sync", "notify"} => call'[c].delta = 0,
           UNCHANGED <<comments, creditVars>>
    PROVE  Owed' /\ OneTeller' /\ ToldSoFar'
<1>1. \A d \in {-1, 1} : c \notin Crediting(d) /\ c \notin Crediting(d)'
  BY CallMoves
<1>2. \A d \in {-1, 1} : Crediting(d)' = Crediting(d)
  BY <1>1, CallMoves
<1>3. \A i : ~Telling(c, i) /\ ~Telling(c, i)'
  BY DEF Telling
<1>4. \A e \in Calls : \A i : Telling(e, i)' <=> Telling(e, i)
  BY <1>3, CallMoves
<1>5. LiveComments' = LiveComments
  BY DEF LiveComments
<1>6. Owed'
  BY <1>2, <1>5, OwedKept DEF QuietInv, creditVars
<1>7. OneTeller' /\ ToldSoFar'
  BY <1>4, ToldKept DEF QuietInv, creditVars
<1> QED
  BY <1>6, <1>7

\* A creation owes credit and message of the comment it has made.
LEMMA InsertOwes ==
    ASSUME QuietInv, NEW c \in Calls, Insert(c)
    PROVE  Owed' /\ OneTeller' /\ ToldSoFar'
<1>n. PICK n : n = Len(comments)
  OBVIOUS
<1> DEFINE q == call[c]
           l == [pc |-> "load", id |-> n + 1, count |-> commentCount + 1, delta |-> 1]
<1>0. Inv /\ TypeOK /\ call[c].pc = "insert" /\ q.user \in Users /\ UNCHANGED creditVars
  BY CallShape DEF QuietInv, Inv, Insert, creditVars
<1>1. CASE ~published
  <2>1. call' = [call EXCEPT ![c] = Over] /\ UNCHANGED tableVars
    BY <1>1 DEF Insert
  <2>2. Alone(c) /\ call'[c].pc = "over"
    <3>1. Alone(c) /\ call'[c] = Over
      BY <1>0, <2>1, UpdateAlone
    <3> QED
      BY <3>1 DEF Over
  <2> QED
    BY <1>0, <2>1, <2>2, NothingOwedYet DEF tableVars
<1>2. CASE published /\ Duplicate(q)
  <2> DEFINE m == [q EXCEPT !.pc = "existing"]
  <2>1. call' = [call EXCEPT ![c] = m] /\ UNCHANGED tableVars
    BY <1>2 DEF Insert
  <2>2. m.pc = "existing"
    BY <1>0, CallShape
  <2> HIDE DEF m
  <2>3. Alone(c) /\ call'[c].pc = "existing"
    BY <1>0, <2>1, <2>2, UpdateAlone
  <2> QED
    BY <1>0, <1>2, <2>1, <2>3, NothingOwedYet DEF tableVars
<1>3. CASE published /\ ~Duplicate(q)
  <2>1. /\ comments' = Append(comments, [user |-> q.user, key |-> q.key, status |-> Normal])
        /\ call' = [call EXCEPT ![c] = l] /\ published' = published
    BY <1>n, <1>3 DEF Insert
  <2>2. /\ comments \in Seq(Comment) /\ n \in Nat
        /\ DOMAIN comments = 1..n /\ DOMAIN comments' = 1..(n + 1)
        /\ comments'[n + 1].status = Normal
        /\ \A i \in 1..n : comments'[i] = comments[i]
    BY <1>n, <1>0, <2>1 DEF TypeOK
  <2>3. /\ Alone(c)
        /\ call'[c].pc = "load" /\ call'[c].id = n + 1 /\ call'[c].delta = 1
    <3>1. l.pc = "load" /\ l.id = n + 1 /\ l.delta = 1
      OBVIOUS
    <3> HIDE DEF l
    <3> QED
      BY <1>0, <2>1, <3>1, UpdateAlone
  <2> HIDE DEF l
  <2>4. UNCHANGED <<hotScore, missed, told, untold>>
    BY <1>0 DEF creditVars
  <2>5. Crediting(1)' = Crediting(1) \cup {c} /\ c \notin Crediting(1) /\ Crediting(-1)' = Crediting(-1)
    <3>1. c \in Crediting(1)' /\ c \notin Crediting(1) /\ c \notin Crediting(-1) /\ c \notin Crediting(-1)'
      BY <1>0, <2>3, CallMoves
    <3>2. Crediting(1)' \ {c} = Crediting(1) \ {c} /\ Crediting(-1)' \ {c} = Crediting(-1) \ {c}
      BY <2>3, CallMoves
    <3> QED
      BY <3>1, <3>2
  <2>6. LiveComments' = LiveComments \cup {n + 1} /\ n + 1 \notin LiveComments
    BY <2>2 DEF LiveComments
  <2>7. Owed'
    <3>1. IsFiniteSet(Crediting(1)) /\ IsFiniteSet(Crediting(-1)) /\ IsFiniteSet(LiveComments)
      BY <2>2, LiveFinite DEF QuietInv, Owed
    <3>2. /\ IsFiniteSet(Crediting(1)')
          /\ Cardinality(Crediting(1)') = Cardinality(Crediting(1)) + 1
          /\ Cardinality(LiveComments') = Cardinality(LiveComments) + 1
      BY <2>5, <2>6, <3>1, FS_AddElement
    <3>3. /\ Cardinality(Crediting(1)) \in Nat /\ Cardinality(Crediting(-1)) \in Nat
          /\ Cardinality(LiveComments) \in Nat
      BY <3>1, FS_CardinalityType
    <3> QED
      BY <2>4, <2>5, <3>1, <3>2, <3>3 DEF QuietInv, Owed
  <2>8. \A e \in Calls : \A i \in 1..n : Telling(e, i)' <=> Telling(e, i)
    <3>1. \A i \in 1..n : n + 1 # i
      BY <2>2
    <3>2. \A i \in 1..n : ~Telling(c, i)
      BY <1>0 DEF Telling
    <3>3. \A i \in 1..n : ~Telling(c, i)'
      BY <2>3, <3>1 DEF Telling
    <3> QED
      BY <2>3, <3>2, <3>3, CallMoves
  <2>9. \A e \in Calls : Telling(e, n + 1)' <=> e = c
    <3>1. \A e \in Calls : ~Telling(e, n + 1)
      BY <1>0, <2>2 DEF Inv, CallRows, Telling
    <3>2. Telling(c, n + 1)'
      BY <2>3 DEF Telling
    <3>3. \A e \in Calls \ {c} : Telling(e, n + 1)' <=> Telling(e, n + 1)
      BY <2>3, CallMoves
    <3> QED
      BY <3>1, <3>2, <3>3
  <2>10. OneTeller'
    <3>1. SUFFICES ASSUME NEW c1 \in Calls, NEW c2 \in Calls, NEW i \in 1..(n + 1),
                          Telling(c1, i)', Telling(c2, i)'
                   PROVE  c1 = c2
      BY <2>2 DEF OneTeller
    <3>2. CASE i = n + 1
      BY <2>9, <3>1, <3>2
    <3>3. CASE i \in 1..n
      BY <2>2, <2>8, <3>1, <3>3 DEF QuietInv, OneTeller
    <3> QED
      BY <2>2, <3>2, <3>3
  <2>11. ToldSoFar'
    <3>1. \A i \in 1..n : Tells(i)' <=> Tells(i)
      BY <2>2 DEF Tells
    <3>2. told \subseteq 1..n /\ untold \subseteq 1..n /\ told \cap untold = {}
      BY <1>0, <2>2 DEF TypeOK, QuietInv, ToldSoFar
    <3>3. \A i \in 1..n : i \in told \cup untold <=> Tells(i) /\ \A e \in Calls : ~Telling(e, i)
      BY <2>2 DEF QuietInv, ToldSoFar
    <3>4. \A i \in 1..n : (\A e \in Calls : ~Telling(e, i)') <=> (\A e \in Calls : ~Telling(e, i))
      BY <2>8
    <3>5. n + 1 \notin told \cup untold /\ Telling(c, n + 1)'
      BY <2>2, <2>9, <3>2
    <3>6. \A i \in 1..(n + 1) : i \in told \cup untold <=>
                                  Tells(i)' /\ \A e \in Calls : ~Telling(e, i)'
      <4> TAKE i \in 1..(n + 1)
      <4>1. CASE i \in 1..n
        BY <3>1, <3>3, <3>4, <4>1
      <4>2. CASE i = n + 1
        BY <3>5, <4>2
      <4> QED
        BY <2>2, <4>1, <4>2
    <3> QED
      BY <2>2, <2>4, <3>2, <3>6 DEF ToldSoFar
  <2> QED
    BY <2>7, <2>10, <2>11
<1> QED
  BY <1>1, <1>2, <1>3

\* A deletion owes the credit of the comment it has removed, if it has.
LEMMA RemoveOwes ==
    ASSUME QuietInv, NEW c \in Calls, Remove(c)
    PROVE  Owed' /\ OneTeller' /\ ToldSoFar'
<1> DEFINE i == call[c].id
           d == IF i \in LiveComments THEN -1 ELSE 0
           l == [pc |-> "load", id |-> i, count |-> CountAfterRemoval(i), delta |-> d]
<1>0. /\ Inv /\ TypeOK /\ call[c].pc = "remove" /\ UNCHANGED creditVars
      /\ comments \in Seq(Comment) /\ i \in DOMAIN comments
  BY DEF QuietInv, Inv, Remove, TypeOK, CallRows
<1>1. CASE ~Permitted(call[c].user, i)
  <2>1. call' = [call EXCEPT ![c] = Over] /\ UNCHANGED tableVars
    BY <1>1 DEF Remove
  <2>2. Alone(c) /\ call'[c].pc = "over"
    <3>1. Alone(c) /\ call'[c] = Over
      BY <1>0, <2>1, UpdateAlone
    <3> QED
      BY <3>1 DEF Over
  <2> QED
    BY <1>0, <2>1, <2>2, NothingOwedYet DEF tableVars
<1>2. CASE Permitted(call[c].user, i)
  <2>1. comments' = [comments EXCEPT ![i].status = Deleted] /\ call' = [call EXCEPT ![c] = l]
    BY <1>2 DEF Remove
  <2>2. Alone(c) /\ call'[c].pc = "load" /\ call'[c].delta = d /\ d # 1
    <3>1. l.pc = "load" /\ l.delta = d /\ d # 1
      OBVIOUS
    <3> HIDE DEF l
    <3>2. Alone(c) /\ call'[c] = l
      BY <1>0, <2>1, UpdateAlone
    <3> QED
      BY <3>1, <3>2
  <2> HIDE DEF l
  <2>3. UNCHANGED <<hotScore, missed, told, untold>>
    BY <1>0 DEF creditVars
  <2>4. /\ DOMAIN comments' = DOMAIN comments
        /\ comments'[i] = [comments[i] EXCEPT !.status = Deleted]
        /\ \A j \in DOMAIN comments : j # i => comments'[j] = comments[j]
    BY <1>0, <2>1
  <2>5. /\ \A j \in DOMAIN comments : comments'[j].user = comments[j].user
        /\ comments'[i].status = Deleted /\ Deleted # Normal
    <3>1. comments[i] \in Comment
      BY <1>0
    <3>2. comments'[i].user = comments[i].user /\ comments'[i].status = Deleted
      BY <2>4, <3>1 DEF Comment
    <3> QED
      BY <2>4, <3>2 DEF Deleted, Normal
  <2>6. LiveComments' = LiveComments \ {i}
    BY <2>4, <2>5 DEF LiveComments
  <2>7. Crediting(1)' = Crediting(1) /\ c \notin Crediting(-1)
    <3>1. c \notin Crediting(1)' /\ c \notin Crediting(1) /\ c \notin Crediting(-1)
      BY <1>0, <2>2, CallMoves
    <3> QED
      BY <2>2, <3>1, CallMoves
  <2>8. Owed'
    <3>1. CASE i \notin LiveComments
      <4>1. c \notin Crediting(-1)'
        BY <2>2, <3>1, CallMoves
      <4>2. \A k \in {-1, 1} : Crediting(k)' = Crediting(k)
        BY <2>2, <2>7, <4>1, CallMoves
      <4>3. LiveComments' = LiveComments
        BY <2>6, <3>1
      <4> QED
        BY <2>3, <4>2, <4>3, OwedKept DEF QuietInv
    <3>2. CASE i \in LiveComments
      <4>1. Crediting(-1)' = Crediting(-1) \cup {c}
        <5>1. c \in Crediting(-1)'
          BY <2>2, <3>2, CallMoves
        <5> QED
          BY <2>2, <5>1, CallMoves
      <4>2. IsFiniteSet(Crediting(1)) /\ IsFiniteSet(Crediting(-1)) /\ IsFiniteSet(LiveComments)
        BY <1>0, LiveFinite DEF QuietInv, Owed
      <4>3. /\ IsFiniteSet(Crediting(-1)')
            /\ Cardinality(Crediting(-1)') = Cardinality(Crediting(-1)) + 1
        BY <2>7, <4>1, <4>2, FS_AddElement
      <4>4. Cardinality(LiveComments') = Cardinality(LiveComments) - 1
        BY <2>6, <3>2, <4>2, FS_RemoveElement
      <4>5. /\ Cardinality(Crediting(1)) \in Nat /\ Cardinality(Crediting(-1)) \in Nat
            /\ Cardinality(LiveComments) \in Nat
        BY <4>2, FS_CardinalityType
      <4>6. hotScore \in Int /\ missed \in Int
        BY <1>0 DEF TypeOK
      <4> QED
        BY <2>3, <2>7, <4>2, <4>3, <4>4, <4>5, <4>6 DEF QuietInv, Owed, hotScoreCommentWeight
    <3> QED
      BY <3>1, <3>2
  <2>9. \A e \in Calls : \A j : Telling(e, j)' <=> Telling(e, j)
    <3>1. \A j : ~Telling(c, j) /\ ~Telling(c, j)'
      BY <1>0, <2>2 DEF Telling
    <3> QED
      BY <2>2, <3>1, CallMoves
  <2>10. OneTeller' /\ ToldSoFar'
    BY <2>3, <2>4, <2>5, <2>9, ToldKept DEF QuietInv
  <2> QED
    BY <2>8, <2>10
<1> QED
  BY <1>1, <1>2

\* Requests whose credit is settled, paid or missed, no longer owe it.
LEMMA CreditSettled ==
    ASSUME QuietInv, NEW c \in Calls, call[c].pc = "load", Alone(c), call'[c].pc # "load",
           UNCHANGED comments,
           \/ /\ hotScore' = hotScore + hotScoreCommentWeight * call[c].delta
              /\ missed' = missed
           \/ /\ missed' = missed + call[c].delta
              /\ hotScore' = hotScore
    PROVE  Owed'
<1> DEFINE d == call[c].delta
<1>1. /\ d \in {-1, 0, 1} /\ hotScore \in Int /\ missed \in Int
      /\ comments \in Seq(Comment)
  BY CallShape DEF QuietInv, Inv, TypeOK
<1>2. LiveComments' = LiveComments
  BY DEF LiveComments
<1>3. \A k \in {-1, 1} : Crediting(k)' = Crediting(k) \ {c}
  <2>1. \A k : c \notin Crediting(k)'
    BY CallMoves
  <2> QED
    BY <2>1, CallMoves
<1>4. \A k \in {-1, 1} : c \in Crediting(k) <=> d = k
  BY DEF Crediting
<1>5. \A k \in {-1, 1} : /\ IsFiniteSet(Crediting(k)) /\ IsFiniteSet(Crediting(k)')
                         /\ Cardinality(Crediting(k)) \in Nat
                         /\ Cardinality(Crediting(k)') =
                               Cardinality(Crediting(k)) - (IF d = k THEN 1 ELSE 0)
  <2> TAKE k \in {-1, 1}
  <2>1. IsFiniteSet(Crediting(k))
    BY DEF QuietInv, Owed
  <2>2. Cardinality(Crediting(k)) \in Nat
    BY <2>1, FS_CardinalityType
  <2>3. /\ IsFiniteSet(Crediting(k) \ {c})
        /\ Cardinality(Crediting(k) \ {c}) =
              IF c \in Crediting(k) THEN Cardinality(Crediting(k)) - 1 ELSE Cardinality(Crediting(k))
    BY <2>1, FS_RemoveElement
  <2>4. Crediting(k)' = Crediting(k) \ {c}
    BY <1>3
  <2>5. c \in Crediting(k) <=> d = k
    BY <1>4
  <2> HIDE DEF d
  <2> QED
    BY <2>1, <2>2, <2>3, <2>4, <2>5
<1>6. Cardinality(LiveComments) \in Nat
  BY <1>1, LiveFinite
<1> DEFINE n == Cardinality(LiveComments)
           up == Cardinality(Crediting(1))
           down == Cardinality(Crediting(-1))
<1>7. hotScore = 5 * (n - up + down - missed)
  BY DEF QuietInv, Owed, hotScoreCommentWeight
<1>8. hotScore' = 5 * (n - (up - (IF d = 1 THEN 1 ELSE 0)) + (down - (IF d = -1 THEN 1 ELSE 0))
                         - missed')
  <2>1. n \in Nat /\ up \in Nat /\ down \in Nat
    BY <1>5, <1>6
  <2>2. \/ hotScore' = hotScore + 5 * d /\ missed' = missed
        \/ missed' = missed + d /\ hotScore' = hotScore
    BY DEF hotScoreCommentWeight
  <2> HIDE DEF n, up, down, d
  <2> QED
    BY <1>1, <1>7, <2>1, <2>2
<1>9. /\ Cardinality(Crediting(1)') = up - (IF d = 1 THEN 1 ELSE 0)
      /\ Cardinality(Crediting(-1)') = down - (IF d = -1 THEN 1 ELSE 0)
      /\ Cardinality(LiveComments') = n
  BY <1>2, <1>5
<1>10. \A k \in {-1, 1} : IsFiniteSet(Crediting(k)')
  BY <1>5
<1> HIDE DEF n, up, down, d
<1> QED
  BY <1>8, <1>9, <1>10 DEF Owed, hotScoreCommentWeight

\* Load pays the credit a request owes, or misses it.
LEMMA LoadOwes ==
    ASSUME QuietInv, NEW c \in Calls, Load(c)
    PROVE  Owed' /\ OneTeller' /\ ToldSoFar'
<1> DEFINE l == [call[c] EXCEPT !.pc = "sync"]
<1>0. /\ TypeOK /\ call[c].pc = "load" /\ UNCHANGED <<comments, told, untold>>
      /\ call' = [call EXCEPT ![c] = l]
      /\ \/ /\ hotScore' = hotScore + hotScoreCommentWeight * call[c].delta
            /\ missed' = missed
         \/ /\ missed' = missed + call[c].delta
            /\ hotScore' = hotScore
  BY DEF QuietInv, Inv, Load, tableVars
<1>1. /\ Alone(c)
      /\ call'[c].pc = "sync" /\ call'[c].delta = call[c].delta /\ call'[c].id = call[c].id
  <2>1. l.pc = "sync" /\ l.delta = call[c].delta /\ l.id = call[c].id
    BY <1>0, CallShape
  <2> HIDE DEF l
  <2> QED
    BY <1>0, <2>1, UpdateAlone
<1> HIDE DEF l
<1>2. Owed'
  BY <1>0, <1>1, CreditSettled
<1>3. \A e \in Calls : \A i : Telling(e, i)' <=> Telling(e, i)
  <2>1. \A i : Telling(c, i)' <=> Telling(c, i)
    BY <1>0, <1>1 DEF Telling
  <2> QED
    BY <1>1, <2>1, CallMoves
<1>4. OneTeller' /\ ToldSoFar'
  BY <1>0, <1>3, ToldKept DEF QuietInv
<1> QED
  BY <1>2, <1>4

\* Sync owes no less: what is left is the message of a comment it made.
LEMMA SyncOwes ==
    ASSUME QuietInv, NEW c \in Calls, Sync(c)
    PROVE  Owed' /\ OneTeller' /\ ToldSoFar'
<1> DEFINE m == [call[c] EXCEPT !.pc = "notify"]
           l == IF call[c].delta > 0 THEN m ELSE Over
<1>0. /\ Inv /\ TypeOK /\ call[c].pc = "sync"
      /\ UNCHANGED <<comments, hotScore, missed, told, untold>>
      /\ call' = [call EXCEPT ![c] = l]
  BY DEF QuietInv, Inv, Sync, tableVars, creditVars
<1>1. /\ call[c].delta \in {-1, 0, 1}
      /\ m.pc = "notify" /\ m.delta = call[c].delta /\ m.id = call[c].id
      /\ Over.pc = "over"
  BY <1>0, CallShape DEF Over
<1> HIDE DEF m
<1>2. /\ l.pc \in {"notify", "over"}
      /\ l.pc = "notify" => l.delta = call[c].delta /\ l.id = call[c].id
      /\ l.pc = "notify" <=> call[c].delta = 1
  BY <1>1
<1> HIDE DEF l
<1>3. Alone(c) /\ call'[c] = l
  BY <1>0, UpdateAlone
<1>4. \A e \in Calls : \A i : Telling(e, i)' <=> Telling(e, i)
  <2>1. \A i : Telling(c, i)' <=> Telling(c, i)
    BY <1>0, <1>2, <1>3 DEF Telling
  <2> QED
    BY <1>3, <2>1, CallMoves
<1>5. \A d \in {-1, 1} : Crediting(d)' = Crediting(d)
  <2>1. \A d : c \notin Crediting(d) /\ c \notin Crediting(d)'
    BY <1>0, <1>2, <1>3, CallMoves
  <2> QED
    BY <1>3, <2>1, CallMoves
<1>6. LiveComments' = LiveComments
  BY <1>0 DEF LiveComments
<1>7. Owed'
  BY <1>0, <1>5, <1>6, OwedKept DEF QuietInv
<1>8. OneTeller' /\ ToldSoFar'
  BY <1>0, <1>4, ToldKept DEF QuietInv
<1> QED
  BY <1>7, <1>8

\* A request that ends has told the comment that it made, or never will, and
\* no other is concerned.
LEMMA MessageSettled ==
    ASSUME QuietInv, NEW c \in Calls, Alone(c), call'[c].pc = "over", UNCHANGED comments,
           \/ ~ToTell(c) /\ told' = told /\ untold' = untold
           \/ ToTell(c) /\ told' = told \cup {call[c].id} /\ untold' = untold
           \/ ToTell(c) /\ untold' = untold \cup {call[c].id} /\ told' = told
    PROVE  OneTeller' /\ ToldSoFar'
<1>0. PICK i : i = call[c].id
  OBVIOUS
<1>1. \A e \in Calls : \A j : Telling(e, j)' <=> e # c /\ Telling(e, j)
  <2>1. \A j : ~Telling(c, j)'
    BY DEF Telling
  <2> QED
    BY <2>1, CallMoves
<1>2. OneTeller'
  BY <1>1 DEF QuietInv, OneTeller
<1>3. /\ told \cap untold = {}
      /\ \A j \in DOMAIN comments :
            j \in told \cup untold <=> Tells(j) /\ \A e \in Calls : ~Telling(e, j)
  BY DEF QuietInv, ToldSoFar
<1>4. \A j \in DOMAIN comments : Tells(j)' <=> Tells(j)
  BY DEF Tells
<1>5. CASE ~ToTell(c)
  <2>1. \A j \in DOMAIN comments : Tells(j) => ~Telling(c, j)
    BY <1>5 DEF Telling, ToTell
  <2>2. \A j \in DOMAIN comments :
           Tells(j) => ((\A e \in Calls : ~Telling(e, j)') <=> \A e \in Calls : ~Telling(e, j))
    BY <1>1, <2>1
  <2>3. told' = told /\ untold' = untold
    BY <1>5
  <2> QED
    BY <1>2, <1>3, <1>4, <2>2, <2>3 DEF ToldSoFar
<1>6. CASE ToTell(c)
  <2>1. i \in DOMAIN comments /\ Tells(i) /\ Telling(c, i)
    BY <1>0, <1>6 DEF ToTell, Telling, QuietInv, Inv, CallRows
  <2>2. i \notin told /\ i \notin untold
    BY <1>3, <2>1
  <2>3. \A e \in Calls : ~Telling(e, i)'
    BY <1>1, <2>1 DEF QuietInv, OneTeller
  <2>4. \A j \in DOMAIN comments : j # i =>
           ((\A e \in Calls : ~Telling(e, j)') <=> \A e \in Calls : ~Telling(e, j))
    BY <1>0, <1>1 DEF Telling
  <2>5. told' \cup untold' = (told \cup untold) \cup {i} /\ told' \cap untold' = {}
    BY <1>0, <1>3, <1>6, <2>2
  <2>6. \A j \in DOMAIN comments :
           j \in told' \cup untold' <=> Tells(j)' /\ \A e \in Calls : ~Telling(e, j)'
    <3> TAKE j \in DOMAIN comments
    <3>1. CASE j = i
      BY <1>4, <2>1, <2>3, <2>5, <3>1
    <3>2. CASE j # i
      BY <1>3, <1>4, <2>4, <2>5, <3>2
    <3> QED
      BY <3>1, <3>2
  <2> QED
    BY <1>2, <2>5, <2>6 DEF ToldSoFar
<1> QED
  BY <1>5, <1>6

\* Notify tells the comment that its request made, or fails to.
LEMMA NotifyOwes ==
    ASSUME QuietInv, NEW c \in Calls, Notify(c)
    PROVE  Owed' /\ OneTeller' /\ ToldSoFar'
<1>0. /\ TypeOK /\ call[c].pc = "notify" /\ call[c].delta = 1
      /\ UNCHANGED <<comments, hotScore, missed>> /\ call' = [call EXCEPT ![c] = Over]
  BY DEF QuietInv, Inv, Notify, tableVars, NotifyOfNew
<1>1. Alone(c) /\ call'[c].pc = "over"
  <2>1. Alone(c) /\ call'[c] = Over
    BY <1>0, UpdateAlone
  <2> QED
    BY <2>1 DEF Over
<1>2. \A d \in {-1, 1} : Crediting(d)' = Crediting(d)
  <2>1. \A d : c \notin Crediting(d) /\ c \notin Crediting(d)'
    BY <1>0, <1>1, CallMoves
  <2> QED
    BY <1>1, <2>1, CallMoves
<1>3. LiveComments' = LiveComments
  BY <1>0 DEF LiveComments
<1>4. Owed'
  BY <1>0, <1>2, <1>3, OwedKept DEF QuietInv
<1>5. ToTell(c) <=> Tells(call[c].id)
  BY <1>0 DEF ToTell
<1>6. \/ ~ToTell(c) /\ told' = told /\ untold' = untold
      \/ ToTell(c) /\ told' = told \cup {call[c].id} /\ untold' = untold
      \/ ToTell(c) /\ untold' = untold \cup {call[c].id} /\ told' = told
  BY <1>5 DEF Notify, WithMessage
<1> QED
  BY <1>0, <1>1, <1>4, <1>6, MessageSettled

\* A request that stops half-way misses what it still owed.
LEMMA AbortOwes ==
    ASSUME QuietInv, NEW c \in Calls, Abort(c)
    PROVE  Owed' /\ OneTeller' /\ ToldSoFar'
<1>0. /\ TypeOK /\ UNCHANGED <<comments, hotScore>> /\ call' = [call EXCEPT ![c] = Over]
  BY DEF QuietInv, Inv, Abort, tableVars
<1>1. Alone(c) /\ call'[c].pc = "over"
  <2>1. Alone(c) /\ call'[c] = Over
    BY <1>0, UpdateAlone
  <2> QED
    BY <2>1 DEF Over
<1>2. Owed'
  <2>1. CASE call[c].pc = "load"
    <3>1. missed' = missed + call[c].delta
      BY <2>1 DEF Abort
    <3> QED
      BY <1>0, <1>1, <2>1, <3>1, CreditSettled
  <2>2. CASE call[c].pc # "load"
    <3>1. \A d : c \notin Crediting(d) /\ c \notin Crediting(d)'
      BY <1>1, <2>2, CallMoves
    <3>2. \A d \in {-1, 1} : Crediting(d)' = Crediting(d)
      BY <1>1, <3>1, CallMoves
    <3>3. LiveComments' = LiveComments /\ missed' = missed
      BY <1>0, <2>2 DEF LiveComments, Abort
    <3> QED
      BY <1>0, <3>2, <3>3, OwedKept DEF QuietInv
  <2> QED
    BY <2>1, <2>2
<1>3. \/ ~ToTell(c) /\ told' = told /\ untold' = untold
      \/ ToTell(c) /\ untold' = untold \cup {call[c].id} /\ told' = told
  BY DEF Abort
<1> QED
  BY <1>0, <1>1, <1>2, <1>3, MessageSettled

\* A request that arrives, or looks a comment up, owes nothing.
LEMMA LookupOwes ==
    ASSUME QuietInv, NEW c \in Calls,
           \/ \E u \in Users, key \in Keys \cup {NoKey} : Create(c, u, key)
           \/ \E u \in Users, i \in 1..MaxComments : Delete(c, u, i)
           \/ Find(c) \/ Existing(c)
    PROVE  Owed' /\ OneTeller' /\ ToldSoFar'
<1>0. Inv /\ TypeOK /\ UNCHANGED <<comments, creditVars>>
  BY DEF QuietInv, Inv, Create, Delete, Find, Existing, tableVars
<1>1. /\ Alone(c) /\ call[c].pc \in {"ready", "find", "existing"}
      /\ call'[c].pc \in {"load", "sync", "notify"} => call'[c].delta = 0
  <2>1. CASE \E u \in Users, key \in Keys \cup {NoKey} : Create(c, u, key)
    <3>1. PICK u \in Users, key \in Keys \cup {NoKey} : Create(c, u, key)
      BY <2>1
    <3> DEFINE l == [pc |-> IF key = NoKey THEN "insert" ELSE "find", user |-> u, key |-> key]
    <3>2. call' = [call EXCEPT ![c] = l] /\ call[c] = Ready
      BY <3>1 DEF Create
    <3>3. l.pc \in {"insert", "find"} /\ Ready.pc = "ready"
      BY DEF Ready
    <3> HIDE DEF l
    <3>4. Alone(c) /\ call'[c] = l
      BY <1>0, <3>2, UpdateAlone
    <3> QED
      BY <3>2, <3>3, <3>4
  <2>2. CASE \E u \in Users, i \in 1..MaxComments : Delete(c, u, i)
    <3>1. PICK u \in Users, i \in 1..MaxComments : Delete(c, u, i)
      BY <2>2
    <3> DEFINE l == [pc |-> "remove", user |-> u, id |-> i]
    <3>2. call' = [call EXCEPT ![c] = l] /\ call[c] = Ready
      BY <3>1 DEF Delete
    <3>3. l.pc = "remove" /\ Ready.pc = "ready"
      BY DEF Ready
    <3> HIDE DEF l
    <3>4. Alone(c) /\ call'[c] = l
      BY <1>0, <3>2, UpdateAlone
    <3> QED
      BY <3>2, <3>3, <3>4
  <2>3. CASE Find(c)
    <3> DEFINE m == [call[c] EXCEPT !.pc = "insert"]
               l == IF \E i \in DOMAIN comments : Matches(i, call[c]) THEN Over ELSE m
    <3>1. call' = [call EXCEPT ![c] = l] /\ call[c].pc = "find"
      BY <2>3 DEF Find
    <3>2. m.pc = "insert" /\ Over.pc = "over"
      BY <1>0, <3>1, CallShape DEF Over
    <3> HIDE DEF m
    <3>3. l.pc \in {"insert", "over"}
      BY <3>2
    <3> HIDE DEF l
    <3>4. Alone(c) /\ call'[c] = l
      BY <1>0, <3>1, UpdateAlone
    <3> QED
      BY <3>1, <3>3, <3>4
  <2>4. CASE Existing(c)
    <3>1. PICK i \in DOMAIN comments :
             call' = [call EXCEPT ![c] = [pc |-> "load", id |-> i, count |-> commentCount,
                                          delta |-> DuplicateDelta]]
      BY <2>4 DEF Existing
    <3> DEFINE l == [pc |-> "load", id |-> i, count |-> commentCount, delta |-> DuplicateDelta]
    <3>2. call' = [call EXCEPT ![c] = l] /\ call[c].pc = "existing"
      BY <2>4, <3>1 DEF Existing
    <3>3. l.delta = 0
      BY DEF DuplicateDelta
    <3> HIDE DEF l
    <3>4. Alone(c) /\ call'[c] = l
      BY <1>0, <3>2, UpdateAlone
    <3> QED
      BY <3>2, <3>3, <3>4
  <2> QED
    BY <2>1, <2>2, <2>3, <2>4
<1> QED
  BY <1>0, <1>1, NothingOwedYet

\* A request goes on to notify from Sync, and only after a creation.
LEMMA NotifyStep ==
    ASSUME Inv, NotifyOfNew, NEW c \in Calls, Request(c) \/ Abort(c)
    PROVE  NotifyOfNew'
<1>0. TypeOK
  BY DEF Inv
<1>1. CASE Sync(c)
  <2> DEFINE m == [call[c] EXCEPT !.pc = "notify"]
             l == IF call[c].delta > 0 THEN m ELSE Over
  <2>1. call' = [call EXCEPT ![c] = l] /\ call[c].pc = "sync"
    BY <1>1 DEF Sync
  <2>2. call[c].delta \in {-1, 0, 1} /\ m.delta = call[c].delta /\ Over.pc = "over"
    BY <1>0, <2>1, CallShape DEF Over
  <2> HIDE DEF m
  <2>3. l.pc = "notify" => l.delta = 1
    BY <2>2
  <2> HIDE DEF l
  <2>4. Alone(c) /\ call'[c] = l
    BY <1>0, <2>1, UpdateAlone
  <2> QED
    BY <2>3, <2>4 DEF Alone, NotifyOfNew
<1>2. CASE Find(c) \/ Insert(c) \/ Existing(c) \/ Remove(c) \/ Load(c) \/ Notify(c) \/ Abort(c)
  <2>1. PICK l : call' = [call EXCEPT ![c] = l] /\ l.pc # "notify"
    <3>1. Over.pc # "notify"
      BY DEF Over
    <3>2. CASE Find(c)
      <4> DEFINE m == [call[c] EXCEPT !.pc = "insert"]
      <4>1. call' = [call EXCEPT ![c] = IF \E i \in DOMAIN comments : Matches(i, call[c])
                                          THEN Over ELSE m]
        BY <3>2 DEF Find
      <4>2. m.pc = "insert"
        BY <1>0, <3>2, CallShape DEF Find
      <4> HIDE DEF m
      <4> QED
        BY <3>1, <4>1, <4>2
    <3>3. CASE Insert(c)
      BY <1>0, <3>1, <3>3, CallShape DEF Insert
    <3>4. CASE Existing(c)
      BY <3>4 DEF Existing
    <3>5. CASE Remove(c)
      BY <3>1, <3>5 DEF Remove
    <3>6. CASE Load(c)
      <4> DEFINE m == [call[c] EXCEPT !.pc = "sync"]
      <4>1. call' = [call EXCEPT ![c] = m]
        BY <3>6 DEF Load
      <4>2. m.pc = "sync"
        BY <1>0, <3>6, CallShape DEF Load
      <4> HIDE DEF m
      <4> QED
        BY <4>1, <4>2
    <3>7. CASE Notify(c) \/ Abort(c)
      BY <3>1, <3>7 DEF Notify, Abort
    <3> QED
      BY <1>2, <3>2, <3>3, <3>4, <3>5, <3>6, <3>7
  <2>2. Alone(c) /\ call'[c] = l
    BY <1>0, <2>1, UpdateAlone
  <2> QED
    BY <2>1, <2>2 DEF Alone, NotifyOfNew
<1> QED
  BY <1>1, <1>2 DEF Request

\* Every step keeps what is said of credit and messages.
LEMMA QuietStep == QuietInv /\ [Next]_vars => QuietInv'
<1> SUFFICES ASSUME QuietInv, [Next]_vars PROVE QuietInv'
  OBVIOUS
<1>0. Inv'
  BY NextInv DEF QuietInv
<1> DEFINE Rest == Owed /\ OneTeller /\ NotifyOfNew /\ ToldSoFar
<1>1. ASSUME NEW c \in Calls, NEW u \in Users,
             \/ \E key \in Keys \cup {NoKey} : Create(c, u, key)
             \/ \E i \in 1..MaxComments : Delete(c, u, i)
      PROVE  Rest'
  <2>1. Owed' /\ OneTeller' /\ ToldSoFar'
    BY <1>1, LookupOwes
  <2>2. NotifyOfNew'
    <3>1. PICK l : call' = [call EXCEPT ![c] = l] /\ l.pc # "notify"
      <4>1. ASSUME NEW key \in Keys \cup {NoKey}, Create(c, u, key)
            PROVE  \E l : call' = [call EXCEPT ![c] = l] /\ l.pc # "notify"
        <5> DEFINE l == [pc |-> IF key = NoKey THEN "insert" ELSE "find", user |-> u, key |-> key]
        <5>1. call' = [call EXCEPT ![c] = l]
          BY <4>1 DEF Create
        <5>2. l.pc # "notify"
          OBVIOUS
        <5> HIDE DEF l
        <5> QED
          BY <5>1, <5>2
      <4>2. ASSUME NEW i \in 1..MaxComments, Delete(c, u, i)
            PROVE  \E l : call' = [call EXCEPT ![c] = l] /\ l.pc # "notify"
        <5> DEFINE l == [pc |-> "remove", user |-> u, id |-> i]
        <5>1. call' = [call EXCEPT ![c] = l]
          BY <4>2 DEF Delete
        <5>2. l.pc # "notify"
          OBVIOUS
        <5> HIDE DEF l
        <5> QED
          BY <5>1, <5>2
      <4> QED
        BY <1>1, <4>1, <4>2
    <3>2. Alone(c) /\ call'[c] = l
      BY <3>1, UpdateAlone DEF QuietInv, Inv
    <3> QED
      BY <3>1, <3>2 DEF Alone, QuietInv, NotifyOfNew
  <2> QED
    BY <2>1, <2>2
<1>2. ASSUME NEW c \in Calls, Request(c) \/ Abort(c) PROVE Rest'
  <2>1. Owed' /\ OneTeller' /\ ToldSoFar'
    BY <1>2, LookupOwes, InsertOwes, RemoveOwes, LoadOwes, SyncOwes, NotifyOwes, AbortOwes
       DEF Request
  <2>2. NotifyOfNew'
    BY <1>2, NotifyStep DEF QuietInv
  <2> QED
    BY <2>1, <2>2
<1>3. ASSUME UNCHANGED <<comments, call, creditVars>>
      PROVE  Rest'
  <2>1. /\ \A d \in {-1, 1} : Crediting(d)' = Crediting(d)
        /\ LiveComments' = LiveComments
        /\ \A e \in Calls : \A i : Telling(e, i)' <=> Telling(e, i)
    BY <1>3 DEF Crediting, LiveComments, Telling
  <2>2. Owed'
    BY <1>3, <2>1, OwedKept DEF QuietInv, creditVars
  <2>3. OneTeller' /\ ToldSoFar'
    BY <1>3, <2>1, ToldKept DEF QuietInv, creditVars
  <2>4. NotifyOfNew'
    BY <1>3 DEF QuietInv, NotifyOfNew
  <2> QED
    BY <2>2, <2>3, <2>4
<1>4. ASSUME \/ \E l \in Likers : Like(l) \/ Script(l)
             \/ \E r \in Readers : Miss(r)
             \/ \E p \in Procs : Display(p)
             \/ ExpireJSON \/ ExpireBase \/ Unpublish \/ UNCHANGED vars
      PROVE  Rest'
  <2>1. UNCHANGED <<comments, call, creditVars>>
    BY <1>4 DEF Like, Script, Miss, Display, ReadBase, FallBack, Query, Store, ExpireJSON,
                ExpireBase, Unpublish, vars, tableVars
  <2> HIDE DEF Rest
  <2> QED
    BY <1>3, <2>1
<1>5. Rest'
  <2> HIDE DEF Rest
  <2>1. CASE \E c \in Calls, u \in Users : \E key \in Keys \cup {NoKey} : Create(c, u, key)
    BY <1>1, <2>1
  <2>2. CASE \E c \in Calls, u \in Users, i \in 1..MaxComments : Delete(c, u, i)
    BY <1>1, <2>2
  <2>3. CASE \E c \in Calls : Request(c) \/ Abort(c)
    BY <1>2, <2>3
  <2> QED
    BY <1>4, <2>1, <2>2, <2>3 DEF Next
<1> QED
  BY <1>0, <1>5 DEF QuietInv

\* At first nothing is owed.
LEMMA InitQuiet == Init => QuietInv
<1> SUFFICES ASSUME Init PROVE QuietInv
  OBVIOUS
<1>1. Inv
  BY InitInv
<1>2. \A c \in Calls : call[c].pc \in {"ready", "over"}
  BY DEF Init, Ready, Over
<1>3. Crediting(1) = {} /\ Crediting(-1) = {}
  BY <1>2 DEF Crediting
<1>4. /\ LiveComments = {} /\ DOMAIN comments = {} /\ told = {} /\ untold = {}
      /\ hotScore = 0 /\ missed = 0
  BY DEF Init, LiveComments
<1>5. Owed
  <2>1. /\ \A d \in {-1, 1} : IsFiniteSet(Crediting(d))
        /\ Cardinality(Crediting(1)) = 0 /\ Cardinality(Crediting(-1)) = 0
        /\ Cardinality(LiveComments) = 0
    BY <1>3, <1>4, FS_EmptySet
  <2> QED
    BY <1>4, <2>1 DEF Owed, hotScoreCommentWeight
<1>6. OneTeller /\ NotifyOfNew /\ ToldSoFar
  BY <1>2, <1>4 DEF OneTeller, NotifyOfNew, ToldSoFar, Telling
<1> QED
  BY <1>1, <1>5, <1>6 DEF QuietInv

\* The hot ranking lacks what requests under way owe and what failed, and the
\* author's messages too; nothing is credited or told twice.
THEOREM OwedInvariant == Spec => []QuietInv
BY InitQuiet, QuietStep, PTL DEF Spec

\* Once no request is under way the hot ranking has been credited with the
\* comments that are left, but for the credits that failed (recordHotScore after
\* CreateComment and DeleteComment).
THEOREM CreditExact == Spec => []QuietHotScore
<1>1. QuietInv => QuietHotScore
  <2> SUFFICES ASSUME QuietInv, Quiet
               PROVE  hotScore = hotScoreCommentWeight * (Cardinality(LiveComments) - missed)
    BY DEF QuietHotScore
  <2>1. \A c \in Calls : call[c].pc \in {"ready", "over"}
    BY DEF Quiet, Ready, Over
  <2>2. Crediting(1) = {} /\ Crediting(-1) = {}
    BY <2>1 DEF Crediting
  <2>3. Cardinality(LiveComments) \in Nat /\ missed \in Int
    BY LiveFinite DEF QuietInv, Inv, TypeOK
  <2> QED
    BY <2>2, <2>3, FS_EmptySet DEF QuietInv, Owed, hotScoreCommentWeight
<1> QED
  BY <1>1, OwedInvariant, PTL

\* Then each comment of another user has its message or its one failed attempt,
\* not both, and no comment of the author has either (notifyComment).
THEOREM AuthorTold == Spec => []QuietTold
<1>1. QuietInv => QuietTold
  <2> SUFFICES ASSUME QuietInv, Quiet
               PROVE  /\ told \cup untold = {i \in DOMAIN comments : comments[i].user # Author}
                      /\ told \cap untold = {}
    BY DEF QuietTold
  <2>1. \A c \in Calls : call[c].pc \in {"ready", "over"}
    BY DEF Quiet, Ready, Over
  <2>2. \A i \in DOMAIN comments : \A c \in Calls : ~Telling(c, i)
    BY <2>1 DEF Telling
  <2>3. told \subseteq DOMAIN comments /\ untold \subseteq DOMAIN comments
    BY DEF QuietInv, Inv, TypeOK
  <2> QED
    BY <2>2, <2>3 DEF QuietInv, ToldSoFar, Tells
<1> QED
  BY <1>1, OwedInvariant, PTL

=============================================================================
