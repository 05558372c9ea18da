----------------------------- MODULE PagesProofs -----------------------------
(***************************************************************************)
(* Proofs about Pages, for any lists, page size, readers and processes:    *)
(* what stays in its place in a list that is read page by page is listed   *)
(* exactly once.                                                           *)
(***************************************************************************)
EXTENDS Pages, FiniteSetTheorems, TLAPS

\* Items as they are ordered: only hot lists have scores.
Item == [id : Rows, at : Times, score : IF kind = "hot" THEN Scores ELSE {Absent.score}]
Cursor == Item \cup {First}
Page == [items : SUBSET Item, next : Cursor, more : BOOLEAN, kept : SUBSET Rows]
Reader == [pc : {"idle", "ask", "recheck", "query", "store", "wait", "ended"},
           at : Processes \cup {Idle.at}, cursor : Cursor, page : Page, on : Readers,
           seen : SUBSET Item, again : BOOLEAN, steady : SUBSET Rows]

Types ==
    /\ kind \in AllKinds
    /\ row \in [Rows -> Present \cup {Absent}]
    /\ cache \subseteq [key : Cursor, page : Page]
    /\ reader \in [Readers -> Reader]

Ids(items) == {i.id : i \in items}

\* A page p after the cursor c, as long as its rows are kept: it holds what is
\* behind the cursor up to its own, and all of it when no more follows.
PageRight(p, c) ==
    /\ \A i \in p.items : After(i, c)
    /\ NextCursor(p.items, p.next)
    /\ p.more => p.items # {}
    /\ \A x \in p.kept : /\ row[x].live
                         /\ \/ x \in Ids(p.items)
                            \/ ~After(ItemOf(x), c)
                            \/ p.more /\ Later(ItemOf(x), p.next)

\* A reader in the middle of the list: all that was seen is up to the cursor, and
\* what was steady and is not seen is behind it.
Between(q) ==
    IF q.cursor = First THEN q.seen = {}
    ELSE /\ \A i \in q.seen : i = q.cursor \/ Later(q.cursor, i)
         /\ \A x \in q.steady : /\ row[x].live
                                /\ x \in Ids(q.seen) \/ Later(ItemOf(x), q.cursor)

Reading == {"ask", "recheck", "query", "store", "wait"}

ReaderRight(q) ==
    /\ ~q.again
    /\ q.pc = "ended" => q.steady \subseteq Ids(q.seen)
    /\ q.pc \in Reading => Between(q)
    /\ q.pc = "store" => PageRight(q.page, q.cursor)

ReadersRight == \A r \in Readers : \A q \in {reader[r]} : ReaderRight(q)

CacheRight == \A e \in cache : PageRight(e.page, e.key)

Loading == {"recheck", "query", "store"}

\* Those who wait do so for a request of the same process for the same page.
WaitersRight ==
    \A r \in Readers : reader[r].pc = "wait" =>
        /\ reader[reader[r].on].pc \in Loading
        /\ reader[reader[r].on].cursor = reader[r].cursor
        /\ reader[reader[r].on].at = reader[r].at

PagesInv == Types /\ ReadersRight /\ CacheRight /\ WaitersRight

-----------------------------------------------------------------------------
(* The order of a list.                                                    *)

\* Later is what the condition of each query says, and a strict order.
LEMMA LaterMeans ==
    ASSUME kind \in AllKinds, NEW i \in Item, NEW j \in Item
    PROVE  /\ i.at \in Nat /\ i.id \in Nat /\ j.at \in Nat /\ j.id \in Nat
           /\ kind = "hot" =>
                 /\ i.score \in Nat /\ j.score \in Nat
                 /\ Later(j, i) <=> \/ j.score < i.score
                                    \/ j.score = i.score /\ j.at < i.at
                                    \/ j.score = i.score /\ j.at = i.at /\ j.id < i.id
           /\ kind # "hot" =>
                 (Later(j, i) <=> (j.at < i.at \/ (j.at = i.at /\ j.id < i.id)))
           /\ Where(j, i) <=> Later(j, i)
<1>1. i.at \in Nat /\ i.id \in Nat /\ j.at \in Nat /\ j.id \in Nat
  BY PagesAssumption DEF Item
<1>2. CASE kind = "hot"
  <2>1. i.score \in Nat /\ j.score \in Nat
    BY <1>2, PagesAssumption DEF Item
  <2>2. OrderBy(i) = <<i.score, i.at, i.id>> /\ OrderBy(j) = <<j.score, j.at, j.id>>
    BY <1>2 DEF OrderBy
  <2>3. DOMAIN OrderBy(i) = 1..3
    BY <2>2
  <2>4. /\ OrderBy(i)[1] = i.score /\ OrderBy(i)[2] = i.at /\ OrderBy(i)[3] = i.id
        /\ OrderBy(j)[1] = j.score /\ OrderBy(j)[2] = j.at /\ OrderBy(j)[3] = j.id
    BY <2>2
  <2>5. Later(j, i) <=> \/ j.score < i.score
                        \/ j.score = i.score /\ j.at < i.at
                        \/ j.score = i.score /\ j.at = i.at /\ j.id < i.id
    <3>1. Later(j, i) <=> \E n \in 1..3 : /\ OrderBy(j)[n] < OrderBy(i)[n]
                                          /\ \A m \in 1..n - 1 : OrderBy(j)[m] = OrderBy(i)[m]
      BY <2>3 DEF Later
    <3>2. 1..1-1 = {} /\ 1..2-1 = {1} /\ 1..3-1 = {1, 2} /\ 1..3 = {1, 2, 3}
      OBVIOUS
    <3> QED
      BY <2>4, <3>1, <3>2
  <2>6. Where(j, i) <=> HotWhere(j, i)
    BY <1>2 DEF Where
  <2> QED
    BY <1>1, <1>2, <2>1, <2>5, <2>6 DEF HotWhere
<1>3. CASE kind # "hot"
  <2>2. OrderBy(i) = <<i.at, i.id>> /\ OrderBy(j) = <<j.at, j.id>>
    BY <1>3 DEF OrderBy
  <2>3. DOMAIN OrderBy(i) = 1..2
    BY <2>2
  <2>4. /\ OrderBy(i)[1] = i.at /\ OrderBy(i)[2] = i.id
        /\ OrderBy(j)[1] = j.at /\ OrderBy(j)[2] = j.id
    BY <2>2
  <2>5. Later(j, i) <=> (j.at < i.at \/ (j.at = i.at /\ j.id < i.id))
    <3>1. Later(j, i) <=> \E n \in 1..2 : /\ OrderBy(j)[n] < OrderBy(i)[n]
                                          /\ \A m \in 1..n - 1 : OrderBy(j)[m] = OrderBy(i)[m]
      BY <2>3 DEF Later
    <3>2. 1..1-1 = {} /\ 1..2-1 = {1} /\ 1..2 = {1, 2}
      OBVIOUS
    <3> QED
      BY <2>4, <3>1, <3>2
  <2>6. Where(j, i) <=> (j.at < i.at \/ (j.at = i.at /\ j.id < i.id))
    BY <1>3 DEF Where, TimelineWhere, CommentWhere, MessageWhere, FollowWhere, AllKinds
  <2> QED
    BY <1>1, <1>3, <2>5, <2>6
<1> QED
  BY <1>2, <1>3

LEMMA LaterOrder ==
    ASSUME kind \in AllKinds
    PROVE  /\ \A i \in Item : ~Later(i, i) /\ i # First /\ i.id # 0
           /\ \A i, j, k \in Item : Later(k, j) /\ Later(j, i) => Later(k, i)
           /\ \A i, j \in Item : After(j, i) <=> Later(j, i)
<1>1. ASSUME NEW i \in Item PROVE ~Later(i, i) /\ i # First /\ i.id # 0
  <2>1. i.id # 0
    BY PagesAssumption DEF Item
  <2>2. i # First
    BY <2>1 DEF First
  <2>3. ~Later(i, i)
    BY LaterMeans
  <2> QED
    BY <2>1, <2>2, <2>3
<1>2. ASSUME NEW i \in Item, NEW j \in Item, NEW k \in Item, Later(k, j), Later(j, i)
      PROVE  Later(k, i)
  <2>1. CASE kind = "hot"
    <3>1. /\ i.score \in Nat /\ j.score \in Nat /\ k.score \in Nat
          /\ i.at \in Nat /\ j.at \in Nat /\ k.at \in Nat
          /\ i.id \in Nat /\ j.id \in Nat /\ k.id \in Nat
      BY <2>1, LaterMeans
    <3>2. \/ k.score < j.score
          \/ k.score = j.score /\ k.at < j.at
          \/ k.score = j.score /\ k.at = j.at /\ k.id < j.id
      BY <1>2, <2>1, LaterMeans
    <3>3. \/ j.score < i.score
          \/ j.score = i.score /\ j.at < i.at
          \/ j.score = i.score /\ j.at = i.at /\ j.id < i.id
      BY <1>2, <2>1, LaterMeans
    <3>4. \/ k.score < i.score
          \/ k.score = i.score /\ k.at < i.at
          \/ k.score = i.score /\ k.at = i.at /\ k.id < i.id
      BY <3>1, <3>2, <3>3
    <3> QED
      BY <2>1, <3>4, LaterMeans
  <2>2. CASE kind # "hot"
    <3>1. /\ i.at \in Nat /\ j.at \in Nat /\ k.at \in Nat
          /\ i.id \in Nat /\ j.id \in Nat /\ k.id \in Nat
      BY LaterMeans
    <3>2. k.at < j.at \/ (k.at = j.at /\ k.id < j.id)
      BY <1>2, <2>2, LaterMeans
    <3>3. j.at < i.at \/ (j.at = i.at /\ j.id < i.id)
      BY <1>2, <2>2, LaterMeans
    <3>4. k.at < i.at \/ (k.at = i.at /\ k.id < i.id)
      BY <3>1, <3>2, <3>3
    <3> QED
      BY <2>2, <3>4, LaterMeans
  <2> QED
    BY <2>1, <2>2
<1>3. ASSUME NEW i \in Item, NEW j \in Item PROVE After(j, i) <=> Later(j, i)
  BY <1>1, LaterMeans DEF After
<1> QED
  BY <1>1, <1>2, <1>3

-----------------------------------------------------------------------------
(* Pages and readers.                                                      *)

LEMMA LiveItem ==
    ASSUME Types, NEW x \in Rows, row[x].live
    PROVE  ItemOf(x) \in Item /\ ItemOf(x).id = x
<1>1. row[x] \in Present
  BY DEF Types, Absent
<1> QED
  BY <1>1 DEF Present, Item, ItemOf

\* What is read from MySQL is a page.
LEMMA PageFacts ==
    ASSUME Types, NEW c \in Cursor, NEW p \in PageAt(c)
    PROVE  p \in Page /\ PageRight(p, c)
<1> DEFINE all == Candidates(c)
<1>1. PICK items \in SUBSET all : Cut(items, all)
             /\ \E n \in items \cup {First} : /\ NextCursor(items, n)
                                             /\ p = [items |-> items, next |-> n,
                                                     more |-> items # all, kept |-> Live]
  BY DEF PageAt
<1>2. PICK n \in items \cup {First} : /\ NextCursor(items, n)
                                      /\ p = [items |-> items, next |-> n,
                                              more |-> items # all, kept |-> Live]
  BY <1>1
<1>3. all = {i \in {ItemOf(x) : x \in Live} : After(i, c)}
  BY DEF Candidates
<1>4. all \subseteq Item /\ Live \subseteq Rows /\ \A i \in all : After(i, c)
  BY <1>3, LiveItem DEF Live
<1>5. p \in Page
  BY <1>2, <1>4 DEF Page, Cursor
<1>6. items # all => items # {}
  <2>1. items # all => Cardinality(items) = Limit
    BY <1>1 DEF Cut
  <2>2. Limit # 0 /\ Cardinality({}) = 0
    BY PagesAssumption, FS_EmptySet
  <2> QED
    BY <2>1, <2>2
<1>7. ASSUME NEW x \in Live
      PROVE  /\ row[x].live
             /\ \/ x \in Ids(items)
                \/ ~After(ItemOf(x), c)
                \/ items # all /\ Later(ItemOf(x), n)
  <2>1. row[x].live /\ x \in Rows
    BY DEF Live
  <2>2. ASSUME After(ItemOf(x), c), ItemOf(x) \notin items PROVE items # all /\ Later(ItemOf(x), n)
    <3>1. ItemOf(x) \in all
      BY <1>3, <2>2
    <3>2. items # all /\ items # {}
      BY <1>6, <2>2, <3>1
    <3>3. n \in items
      BY <1>2, <3>2 DEF NextCursor
    <3> HIDE DEF all
    <3>4. Later(ItemOf(x), n)
      BY <1>1, <2>2, <3>1, <3>3 DEF Cut
    <3> QED
      BY <3>2, <3>4
  <2>3. ItemOf(x) \in items => x \in Ids(items)
    BY <2>1, LiveItem DEF Ids
  <2> QED
    BY <2>1, <2>2, <2>3
<1> HIDE DEF all
<1>8. /\ p.items = items /\ p.next = n /\ p.more = (items # all) /\ p.kept = Live
  BY <1>2
<1>9. PageRight(p, c)
  BY <1>2, <1>4, <1>6, <1>7, <1>8 DEF PageRight
<1> QED
  BY <1>5, <1>9

\* A page that fits the cursor of a reader is received without a repetition, and
\* takes the reader on without a gap.
LEMMA WithRight ==
    ASSUME Types, NEW q \in Reader, ReaderRight(q), q.pc \in Reading,
           NEW p \in Page, PageRight(p, q.cursor)
    PROVE  /\ With(q, p) \in Reader /\ ReaderRight(With(q, p))
           /\ With(q, p).pc \in {"ask", "ended"}
<1> DEFINE w == With(q, p)
<1>0. /\ NoPage \in Page /\ Between(q) /\ ~q.again
      /\ q.cursor \in Cursor /\ q.seen \subseteq Item /\ q.steady \subseteq Rows
      /\ p.items \subseteq Item /\ p.next \in Cursor /\ p.kept \subseteq Rows /\ p.more \in BOOLEAN
  BY DEF NoPage, Page, Cursor, ReaderRight, Reader
<1>1. /\ w.pc = IF p.more THEN "ask" ELSE "ended"
      /\ w.cursor = p.next /\ w.page = NoPage /\ w.seen = q.seen \cup p.items
      /\ w.again = (q.again \/ (p.items \cap q.seen # {})) /\ w.steady = q.steady \cap p.kept
      /\ w \in Reader
  BY <1>0 DEF With, Reader
<1> HIDE DEF w
<1>2. /\ \A i \in Item : ~Later(i, i) /\ i # First
      /\ \A i, j, k \in Item : Later(k, j) /\ Later(j, i) => Later(k, i)
      /\ \A i, j \in Item : After(j, i) <=> Later(j, i)
  BY LaterOrder DEF Types
<1>3. CASE q.cursor = First
  <2>1. q.seen = {}
    BY <1>0, <1>3 DEF Between
  <2>2. ~w.again
    BY <1>0, <1>1, <2>1
  <2>3. p.more => Between(w)
    <3> SUFFICES ASSUME p.more PROVE Between(w)
      OBVIOUS
    <3>1. p.next \in p.items /\ \A i \in p.items : i = p.next \/ Later(p.next, i)
      BY DEF PageRight, NextCursor
    <3>2. w.cursor # First
      BY <1>0, <1>1, <1>2, <3>1
    <3>3. \A i \in w.seen : i = w.cursor \/ Later(w.cursor, i)
      BY <1>1, <2>1, <3>1
    <3>4. \A x \in w.steady : row[x].live /\ (x \in Ids(w.seen) \/ Later(ItemOf(x), w.cursor))
      BY <1>1, <1>3, <2>1 DEF PageRight, After
    <3> QED
      BY <3>2, <3>3, <3>4 DEF Between
  <2>4. ~p.more => w.steady \subseteq Ids(w.seen)
    BY <1>1, <1>3, <2>1 DEF PageRight, After
  <2> QED
    BY <1>1, <2>2, <2>3, <2>4 DEF ReaderRight, Reading, w
<1>4. CASE q.cursor # First
  <2>1. /\ q.cursor \in Item
        /\ \A i \in q.seen : i = q.cursor \/ Later(q.cursor, i)
        /\ \A x \in q.steady : row[x].live /\ (x \in Ids(q.seen) \/ Later(ItemOf(x), q.cursor))
    BY <1>0, <1>4 DEF Between, Cursor
  <2>2. \A i \in p.items : Later(i, q.cursor)
    BY <1>0, <1>2, <2>1 DEF PageRight
  <2>3. p.items \cap q.seen = {}
    BY <1>0, <1>2, <2>1, <2>2
  <2>4. ~w.again
    BY <1>0, <1>1, <2>3
  <2>5. ASSUME NEW x \in w.steady
        PROVE  row[x].live /\ (x \in Ids(w.seen) \/ (p.more /\ Later(ItemOf(x), p.next)))
    <3>1. x \in q.steady /\ x \in p.kept /\ x \in Rows
      BY <1>0, <1>1
    <3>2. row[x].live /\ (x \in Ids(p.items) \/ ~After(ItemOf(x), q.cursor)
                          \/ (p.more /\ Later(ItemOf(x), p.next)))
      BY <3>1 DEF PageRight
    <3>3. x \in Ids(q.seen) \/ After(ItemOf(x), q.cursor)
      BY <1>2, <2>1, <3>1, <3>2, LiveItem
    <3>4. Ids(q.seen) \subseteq Ids(w.seen) /\ Ids(p.items) \subseteq Ids(w.seen)
      BY <1>1 DEF Ids
    <3> QED
      BY <3>2, <3>3, <3>4
  <2>6. p.more => Between(w)
    <3> SUFFICES ASSUME p.more PROVE Between(w)
      OBVIOUS
    <3>1. p.next \in p.items /\ \A i \in p.items : i = p.next \/ Later(p.next, i)
      BY DEF PageRight, NextCursor
    <3>2. w.cursor # First
      BY <1>0, <1>1, <1>2, <3>1
    <3>3. ASSUME NEW i \in q.seen PROVE Later(p.next, i)
      <4>1. p.next \in Item /\ i \in Item /\ Later(p.next, q.cursor)
        BY <1>0, <2>2, <3>1
      <4> QED
        BY <1>2, <2>1, <4>1
    <3>4. \A i \in w.seen : i = w.cursor \/ Later(w.cursor, i)
      BY <1>1, <3>1, <3>3
    <3> QED
      BY <1>1, <2>5, <3>2, <3>4 DEF Between
  <2>7. ~p.more => w.steady \subseteq Ids(w.seen)
    BY <2>5
  <2> QED
    BY <1>1, <2>4, <2>6, <2>7 DEF ReaderRight, Reading, w
<1> QED
  BY <1>3, <1>4

\* A reader that starts.
LEMMA IdleReader ==
    ASSUME NEW r \in Readers
    PROVE  /\ Idle \in Reader /\ [Idle EXCEPT !.pc = "ask"] \in Reader
           /\ ReaderRight(Idle) /\ ReaderRight([Idle EXCEPT !.pc = "ask"])
<1> DEFINE a == [Idle EXCEPT !.pc = "ask"]
<1>1. NoPage \in Page /\ First \in Cursor
  BY DEF NoPage, Page, Cursor
<1>2. (CHOOSE q \in Readers : TRUE) \in Readers
  OBVIOUS
<1>3. Idle \in Reader
  BY <1>1, <1>2 DEF Idle, Reader
<1>4. a \in Reader /\ a.pc = "ask" /\ a.cursor = First /\ a.seen = {} /\ a.again = FALSE
  BY <1>1, <1>2 DEF Idle, Reader
<1>5. Idle.pc = "idle" /\ Idle.again = FALSE
  BY DEF Idle
<1> HIDE DEF a
<1>6. ReaderRight(a)
  BY <1>4 DEF ReaderRight, Between
<1>7. ReaderRight(Idle)
  BY <1>5 DEF ReaderRight, Reading
<1> QED
  BY <1>3, <1>4, <1>6, <1>7 DEF a

\* An error sends a reader back to ask for the same page.
LEMMA FailedRight ==
    ASSUME NEW q \in Reader, ReaderRight(q), q.pc \in Reading
    PROVE  /\ Failed(q) \in Reader /\ ReaderRight(Failed(q))
           /\ Failed(q).pc = "ask"
<1> DEFINE w == Failed(q)
<1>1. NoPage \in Page
  BY DEF NoPage, Page, Cursor
<1>2. /\ w \in Reader /\ w.pc = "ask" /\ w.cursor = q.cursor
      /\ w.seen = q.seen /\ w.again = q.again /\ w.steady = q.steady
  BY <1>1 DEF Failed, Reader
<1> HIDE DEF w
<1>3. ReaderRight(w)
  BY <1>2 DEF ReaderRight, Between
<1> QED
  BY <1>2, <1>3 DEF w

-----------------------------------------------------------------------------
(* The rows: what is said of those that do not change still holds.         *)

LEMMA RowMoves ==
    ASSUME UNCHANGED kind, NEW S, \A y \in Rows \ S : row'[y] = row[y]
    PROVE  /\ Item' = Item /\ Cursor' = Cursor /\ Page' = Page /\ Reader' = Reader
           /\ Present' = Present
           /\ \A p, w \in Page : \A c :
                 /\ w.items = p.items /\ w.next = p.next /\ w.more = p.more
                 /\ w.kept \subseteq p.kept \ S
                 /\ PageRight(p, c)
                 => PageRight(w, c)'
           /\ \A q, w \in Reader :
                 /\ w.pc = q.pc /\ w.cursor = q.cursor /\ w.seen = q.seen /\ w.again = q.again
                 /\ w.page.items = q.page.items /\ w.page.next = q.page.next
                 /\ w.page.more = q.page.more /\ w.page.kept \subseteq q.page.kept \ S
                 /\ w.steady \subseteq q.steady \ S
                 /\ ReaderRight(q)
                 => ReaderRight(w)'
<1>1. /\ Item' = Item /\ Cursor' = Cursor /\ Page' = Page /\ Reader' = Reader
      /\ Present' = Present
  BY DEF Item, Cursor, Page, Reader, Present
<1>2. \A i, j : Later(j, i)' <=> Later(j, i)
  BY DEF Later, OrderBy
<1>3. \A i, c : After(i, c)' <=> After(i, c)
  BY DEF After, Where, TimelineWhere, HotWhere, CommentWhere, MessageWhere, FollowWhere
<1>4. \A items, n : NextCursor(items, n)' <=> NextCursor(items, n)
  BY <1>2 DEF NextCursor
<1>5. \A y \in Rows \ S : ItemOf(y)' = ItemOf(y)
  BY DEF ItemOf
<1>6. ASSUME NEW p \in Page, NEW w \in Page, NEW c,
             w.items = p.items, w.next = p.next, w.more = p.more,
             w.kept \subseteq p.kept \ S, PageRight(p, c)
      PROVE  PageRight(w, c)'
  <2>1. \A i \in w.items : After(i, c)'
    BY <1>3, <1>6 DEF PageRight
  <2>2. NextCursor(w.items, w.next)' /\ (w.more => w.items # {})
    BY <1>4, <1>6 DEF PageRight
  <2>3. ASSUME NEW x \in w.kept
        PROVE  /\ row'[x].live
               /\ \/ x \in Ids(w.items)
                  \/ ~After(ItemOf(x), c)'
                  \/ w.more /\ Later(ItemOf(x), w.next)'
    <3>1. x \in Rows \ S /\ x \in p.kept
      BY <1>6 DEF Page
    <3>2. row'[x] = row[x] /\ ItemOf(x)' = ItemOf(x)
      BY <1>5, <3>1
    <3>3. PICK i : i = ItemOf(x)
      OBVIOUS
    <3>4. /\ row[x].live
          /\ x \in Ids(p.items) \/ ~After(i, c) \/ (p.more /\ Later(i, p.next))
      BY <1>6, <3>1, <3>3 DEF PageRight
    <3>5. ItemOf(x)' = i
      BY <3>2, <3>3
    <3>6. After(i, c)' <=> After(ItemOf(x), c)'
      BY <3>5 DEF After, Where, TimelineWhere, HotWhere, CommentWhere, MessageWhere, FollowWhere
    <3>7. Later(i, w.next)' <=> Later(ItemOf(x), w.next)'
      BY <3>5 DEF Later, OrderBy
    <3> QED
      BY <1>2, <1>3, <1>6, <3>2, <3>4, <3>6, <3>7
  <2> QED
    BY <2>1, <2>2, <2>3 DEF PageRight
<1>7. ASSUME NEW q \in Reader, NEW w \in Reader,
             w.pc = q.pc, w.cursor = q.cursor, w.seen = q.seen, w.again = q.again,
             w.page.items = q.page.items, w.page.next = q.page.next,
             w.page.more = q.page.more, w.page.kept \subseteq q.page.kept \ S,
             w.steady \subseteq q.steady \ S, ReaderRight(q)
      PROVE  ReaderRight(w)'
  <2>1. ASSUME w.pc \in Reading, w.cursor # First PROVE Between(w)'
    <3>1. /\ \A i \in q.seen : i = q.cursor \/ Later(q.cursor, i)
          /\ \A x \in q.steady : row[x].live /\ (x \in Ids(q.seen) \/ Later(ItemOf(x), q.cursor))
      BY <1>7, <2>1 DEF ReaderRight, Between
    <3>2. \A i \in w.seen : i = w.cursor \/ Later(w.cursor, i)'
      BY <1>2, <1>7, <3>1
    <3>3. ASSUME NEW x \in w.steady
          PROVE  row'[x].live /\ (x \in Ids(w.seen) \/ Later(ItemOf(x), w.cursor)')
      <4>1. x \in Rows \ S /\ x \in q.steady
        BY <1>7 DEF Reader
      <4>2. row'[x] = row[x] /\ ItemOf(x)' = ItemOf(x)
        BY <1>5, <4>1
      <4>3. PICK i : i = ItemOf(x)
        OBVIOUS
      <4>4. row[x].live /\ (x \in Ids(q.seen) \/ Later(i, q.cursor))
        BY <3>1, <4>1, <4>3
      <4>5. Later(i, w.cursor)' <=> Later(ItemOf(x), w.cursor)'
        BY <4>2, <4>3 DEF Later, OrderBy
      <4> QED
        BY <1>2, <1>7, <4>2, <4>4, <4>5
    <3> QED
      BY <2>1, <3>2, <3>3 DEF Between
  <2>2. w.cursor = First /\ w.pc \in Reading => Between(w)'
    BY <1>7 DEF ReaderRight, Between
  <2>3. ~w.again /\ (w.pc = "ended" => w.steady \subseteq Ids(w.seen))
    BY <1>7 DEF ReaderRight
  <2>4. w.pc = "store" => PageRight(w.page, w.cursor)'
    <3> SUFFICES ASSUME w.pc = "store" PROVE PageRight(w.page, w.cursor)'
      OBVIOUS
    <3>1. q.page \in Page /\ w.page \in Page /\ PageRight(q.page, q.cursor)
      BY <1>7 DEF Reader, ReaderRight
    <3> QED
      BY <1>6, <1>7, <3>1
  <2> QED
    BY <2>1, <2>2, <2>3, <2>4 DEF ReaderRight
<1> QED
  BY <1>1, <1>6, <1>7

-----------------------------------------------------------------------------
(* The steps.                                                              *)

\* A row changes: no cached page and no reader counts on it any more.
LEMMA ShakenKeeps ==
    ASSUME PagesInv, NEW x \in Rows, Shaken(x), UNCHANGED kind,
           row' \in [Rows -> Present \cup {Absent}], \A y \in Rows \ {x} : row'[y] = row[y]
    PROVE  PagesInv'
<1>1. /\ Cursor' = Cursor /\ Page' = Page /\ Reader' = Reader /\ Present' = Present
      /\ \A p, w \in Page : \A c :
            /\ w.items = p.items /\ w.next = p.next /\ w.more = p.more
            /\ w.kept \subseteq p.kept \ {x}
            /\ PageRight(p, c)
            => PageRight(w, c)'
      /\ \A q, w \in Reader :
            /\ w.pc = q.pc /\ w.cursor = q.cursor /\ w.seen = q.seen /\ w.again = q.again
            /\ w.page.items = q.page.items /\ w.page.next = q.page.next
            /\ w.page.more = q.page.more /\ w.page.kept \subseteq q.page.kept \ {x}
            /\ w.steady \subseteq q.steady \ {x}
            /\ ReaderRight(q)
            => ReaderRight(w)'
  BY RowMoves
<1>2. ASSUME NEW p \in Page PROVE [p EXCEPT !.kept = @ \ {x}] \in Page
  BY DEF Page
<1>3. ASSUME NEW e \in cache
      PROVE  /\ [e EXCEPT !.page.kept = @ \ {x}] \in [key : Cursor, page : Page]
             /\ PageRight([e EXCEPT !.page.kept = @ \ {x}].page, [e EXCEPT !.page.kept = @ \ {x}].key)'
  <2>1. e.page \in Page /\ e.key \in Cursor /\ e \in [key : Cursor, page : Page]
    BY DEF PagesInv, Types
  <2>2. PICK p : p = [e.page EXCEPT !.kept = @ \ {x}]
    OBVIOUS
  <2>3. p \in Page
    BY <1>2, <2>1, <2>2
  <2>4. /\ p.items = e.page.items /\ p.next = e.page.next /\ p.more = e.page.more
        /\ p.kept = e.page.kept \ {x}
    BY <2>1, <2>2 DEF Page
  <2>5. PICK f : f = [e EXCEPT !.page.kept = @ \ {x}]
    OBVIOUS
  <2>6. f = [key |-> e.key, page |-> p]
    BY <2>1, <2>2, <2>5
  <2>7. PICK b \in Page, c \in Cursor : b = e.page /\ c = e.key
    BY <2>1
  <2>8. PageRight(b, c)
    BY <2>7 DEF PagesInv, CacheRight
  <2>9. PageRight(p, c)'
    BY <1>1, <2>3, <2>4, <2>7, <2>8
  <2>10. f.page = p /\ f.key = c /\ f \in [key : Cursor, page : Page]
    BY <2>1, <2>3, <2>6, <2>7
  <2>11. PageRight(f.page, f.key)'
    BY <2>9, <2>10
  <2> QED
    BY <2>5, <2>10, <2>11
<1>4. cache' \subseteq [key : Cursor, page : Page] /\ \A e \in cache' : PageRight(e.page, e.key)'
  <2>1. cache' = {[e EXCEPT !.page.kept = @ \ {x}] : e \in cache}
    BY DEF Shaken
  <2> QED
    BY <1>3, <2>1
<1>5. ASSUME NEW r \in Readers
      PROVE  /\ reader'[r] \in Reader
             /\ \A w \in {reader'[r]} : ReaderRight(w)'
             /\ reader'[r].pc = reader[r].pc /\ reader'[r].on = reader[r].on
             /\ reader'[r].at = reader[r].at /\ reader'[r].cursor = reader[r].cursor
  <2>1. PICK q \in Reader : q = reader[r]
    BY DEF PagesInv, Types
  <2>2. ReaderRight(q)
    BY <2>1 DEF PagesInv, ReadersRight
  <2>3. reader'[r] = [q EXCEPT !.page.kept = @ \ {x}, !.steady = @ \ {x}]
    BY <2>1 DEF Shaken
  <2>4. PICK p \in Page : p = [q.page EXCEPT !.kept = @ \ {x}]
    BY <1>2 DEF Reader
  <2>5. /\ p.items = q.page.items /\ p.next = q.page.next /\ p.more = q.page.more
        /\ p.kept = q.page.kept \ {x}
    BY <2>4 DEF Reader, Page
  <2>6. PICK w : w = [q EXCEPT !.page = p, !.steady = @ \ {x}]
    OBVIOUS
  <2>7. reader'[r] = w
    BY <2>3, <2>4, <2>6 DEF Reader
  <2>8. /\ w \in Reader /\ w.pc = q.pc /\ w.cursor = q.cursor /\ w.seen = q.seen
        /\ w.again = q.again /\ w.page = p /\ w.steady = q.steady \ {x}
        /\ w.on = q.on /\ w.at = q.at
    BY <2>6 DEF Reader
  <2>9. ReaderRight(w)'
    BY <1>1, <2>2, <2>5, <2>8
  <2> QED
    BY <2>1, <2>7, <2>8, <2>9
<1>6. reader' \in [Readers -> Reader]
  BY <1>5 DEF Shaken
<1>7. Types'
  BY <1>1, <1>4, <1>6 DEF PagesInv, Types
<1>8. ReadersRight'
  BY <1>5 DEF ReadersRight
<1>9. CacheRight'
  BY <1>4 DEF CacheRight
<1>10. WaitersRight'
  <2>1. ASSUME NEW r \in Readers PROVE reader[r].on \in Readers
    BY DEF PagesInv, Types, Reader
  <2> QED
    BY <1>5, <2>1 DEF PagesInv, WaitersRight
<1> QED
  BY <1>7, <1>8, <1>9, <1>10 DEF PagesInv

\* The list stays as it is, and what changes of the readers and the cache is right.
LEMMA QuietStep ==
    ASSUME PagesInv, UNCHANGED <<kind, row>>, reader' \in [Readers -> Reader],
           \A r \in Readers : ReaderRight(reader'[r]),
           cache' \subseteq [key : Cursor, page : Page],
           \A e \in cache' : PageRight(e.page, e.key),
           WaitersRight'
    PROVE  PagesInv'
<1>1. /\ Cursor' = Cursor /\ Page' = Page /\ Reader' = Reader /\ Present' = Present
      /\ \A p, w \in Page : \A c :
            /\ w.items = p.items /\ w.next = p.next /\ w.more = p.more
            /\ w.kept \subseteq p.kept \ {}
            /\ PageRight(p, c)
            => PageRight(w, c)'
      /\ \A q, w \in Reader :
            /\ w.pc = q.pc /\ w.cursor = q.cursor /\ w.seen = q.seen /\ w.again = q.again
            /\ w.page.items = q.page.items /\ w.page.next = q.page.next
            /\ w.page.more = q.page.more /\ w.page.kept \subseteq q.page.kept \ {}
            /\ w.steady \subseteq q.steady \ {}
            /\ ReaderRight(q)
            => ReaderRight(w)'
  BY RowMoves
<1>2. ASSUME NEW r \in Readers, NEW q \in {reader'[r]} PROVE ReaderRight(q)'
  <2>1. q \in Reader /\ ReaderRight(q)
    BY <1>2
  <2> QED
    BY <1>1, <2>1
<1>3. ASSUME NEW e \in cache' PROVE PageRight(e.page, e.key)'
  <2>1. e.page \in Page /\ PageRight(e.page, e.key)
    BY <1>3
  <2> QED
    BY <1>1, <2>1
<1>4. Types'
  BY <1>1 DEF PagesInv, Types
<1> QED
  BY <1>2, <1>3, <1>4 DEF PagesInv, ReadersRight, CacheRight

\* Some readers get an answer; none is left that waits for one of them.
LEMMA Answered ==
    ASSUME PagesInv, UNCHANGED <<kind, row>>, NEW S \in SUBSET Readers,
           reader' \in [Readers -> Reader],
           \A q \in Readers \ S : /\ reader'[q] = reader[q]
                                  /\ reader[q].pc = "wait" => reader[q].on \notin S,
           \A q \in S : ReaderRight(reader'[q]) /\ reader'[q].pc # "wait",
           cache' \subseteq [key : Cursor, page : Page],
           \A e \in cache' : PageRight(e.page, e.key)
    PROVE  PagesInv'
<1>1. ASSUME NEW r \in Readers PROVE ReaderRight(reader'[r])
  BY DEF PagesInv, ReadersRight
<1>2. WaitersRight'
  <2> SUFFICES ASSUME NEW r \in Readers, reader'[r].pc = "wait"
               PROVE  /\ reader'[reader'[r].on].pc \in Loading
                      /\ reader'[reader'[r].on].cursor = reader'[r].cursor
                      /\ reader'[reader'[r].on].at = reader'[r].at
    BY DEF WaitersRight
  <2>1. r \notin S /\ reader'[r] = reader[r] /\ reader[r].on \notin S /\ reader[r].on \in Readers
    BY DEF PagesInv, Types, Reader
  <2>2. reader'[reader[r].on] = reader[reader[r].on]
    BY <2>1
  <2> QED
    BY <2>1, <2>2 DEF PagesInv, WaitersRight
<1> QED
  BY <1>1, <1>2, QuietStep

\* What is known of one reader.
LEMMA OneReader ==
    ASSUME PagesInv, NEW r \in Readers
    PROVE  /\ reader[r] \in Reader /\ ReaderRight(reader[r])
           /\ reader[r].cursor \in Cursor /\ reader[r].page \in Page /\ reader[r].on \in Readers
  BY DEF PagesInv, Types, ReadersRight, Reader

\* Those who share a load wait for its leader, at its page.
LEMMA Sharing ==
    ASSUME PagesInv, NEW r \in Readers, reader[r].pc \in Loading
    PROVE  /\ Sharers(r) \in SUBSET Readers
           /\ \A q \in Sharers(r) : reader[q].cursor = reader[r].cursor /\ reader[q].pc \in Reading
           /\ \A q \in Readers \ Sharers(r) :
                 reader[q].pc = "wait" => reader[q].on \notin Sharers(r)
<1>1. ASSUME NEW q \in Sharers(r)
      PROVE  reader[q].cursor = reader[r].cursor /\ reader[q].pc \in Reading
  BY DEF Sharers, PagesInv, WaitersRight, Reading, Loading
<1>2. ASSUME NEW q \in Readers \ Sharers(r), reader[q].pc = "wait", reader[q].on \in Sharers(r)
      PROVE  FALSE
  <2>1. reader[reader[q].on].pc \in Loading
    BY <1>2 DEF PagesInv, WaitersRight
  <2>2. reader[q].on # r
    BY <1>2 DEF Sharers
  <2>3. reader[reader[q].on].pc = "wait"
    BY <1>2, <2>2 DEF Sharers
  <2> QED
    BY <2>1, <2>3 DEF Loading
<1> QED
  BY <1>1, <1>2 DEF Sharers

\* The outcome of a load is right for all that share it.
LEMMA DeliverKeeps ==
    ASSUME PagesInv, NEW r \in Readers, reader[r].pc \in Loading, UNCHANGED <<kind, row>>,
           NEW p \in Page, PageRight(p, reader[r].cursor), Deliver(r, p),
           cache' \subseteq [key : Cursor, page : Page],
           \A e \in cache' : PageRight(e.page, e.key)
    PROVE  PagesInv'
<1>1. PICK S : S = Sharers(r)
  OBVIOUS
<1>2. S \in SUBSET Readers
  BY <1>1, Sharing
<1>3. ASSUME NEW q \in S
      PROVE  /\ reader'[q] \in Reader /\ ReaderRight(reader'[q]) /\ reader'[q].pc # "wait"
  <2>1. q \in Readers /\ reader[q].cursor = reader[r].cursor /\ reader[q].pc \in Reading
    BY <1>1, <1>2, Sharing
  <2>2. reader'[q] = With(reader[q], p)
    BY <1>1, <2>1 DEF Deliver
  <2>3. PICK o \in Reader : o = reader[q]
    BY <2>1, OneReader
  <2>4. ReaderRight(o) /\ PageRight(p, o.cursor) /\ o.pc \in Reading
    BY <2>1, <2>3, OneReader
  <2>5. With(o, p) \in Reader /\ ReaderRight(With(o, p)) /\ With(o, p).pc \in {"ask", "ended"}
    BY <2>4, WithRight DEF PagesInv
  <2> QED
    BY <2>2, <2>3, <2>5
<1>4. ASSUME NEW q \in Readers \ S
      PROVE  /\ reader'[q] = reader[q]
             /\ reader[q].pc = "wait" => reader[q].on \notin S
  BY <1>1, Sharing DEF Deliver
<1>5. reader' \in [Readers -> Reader]
  <2>1. \A q \in Readers : reader'[q] \in Reader
    BY <1>3, <1>4, OneReader
  <2> QED
    BY <2>1 DEF Deliver
<1> QED
  BY <1>2, <1>3, <1>4, <1>5, Answered

\* A reader that asks gets page p at once.
LEMMA AloneKeeps ==
    ASSUME PagesInv, NEW r \in Readers, reader[r].pc = "ask", UNCHANGED <<kind, row, cache>>,
           NEW p \in Page, PageRight(p, reader[r].cursor),
           reader' = [reader EXCEPT ![r] = With(@, p)]
    PROVE  PagesInv'
<1>1. PICK o \in Reader : o = reader[r]
  BY OneReader
<1>2. ReaderRight(o) /\ PageRight(p, o.cursor) /\ o.pc \in Reading
  BY <1>1, OneReader DEF Reading
<1>3. With(o, p) \in Reader /\ ReaderRight(With(o, p)) /\ With(o, p).pc \in {"ask", "ended"}
  BY <1>2, WithRight DEF PagesInv
<1>4. reader' = [reader EXCEPT ![r] = With(o, p)] /\ reader \in [Readers -> Reader]
  BY <1>1 DEF PagesInv, Types
<1>5. reader' \in [Readers -> Reader] /\ reader'[r] = With(o, p)
  BY <1>3, <1>4
<1>6. \A q \in Readers \ {r} : /\ reader'[q] = reader[q]
                               /\ reader[q].pc = "wait" => reader[q].on \notin {r}
  BY <1>4 DEF PagesInv, WaitersRight, Loading
<1>7. /\ cache' \subseteq [key : Cursor, page : Page]
      /\ \A e \in cache' : PageRight(e.page, e.key)
  BY DEF PagesInv, Types, CacheRight
<1> QED
  BY <1>3, <1>5, <1>6, <1>7, Answered

\* A reader goes on with its load; those who wait for it still do.
LEMMA LoadKeeps ==
    ASSUME PagesInv, NEW r \in Readers, reader[r].pc \in Reading, reader[r].pc # "wait",
           UNCHANGED <<kind, row, cache>>,
           NEW w \in Reader, ReaderRight(w), reader' = [reader EXCEPT ![r] = w],
           w.pc \in Loading,
           reader[r].pc \in Loading => w.at = reader[r].at /\ w.cursor = reader[r].cursor
    PROVE  PagesInv'
<1>1. reader \in [Readers -> Reader]
  BY DEF PagesInv, Types
<1>2. reader' \in [Readers -> Reader] /\ reader'[r] = w
  BY <1>1
<1>3. \A q \in Readers \ {r} : reader'[q] = reader[q]
  BY <1>1
<1>4. \A q \in Readers : ReaderRight(reader'[q])
  BY <1>2, <1>3, OneReader
<1>5. WaitersRight'
  <2> SUFFICES ASSUME NEW q \in Readers, reader'[q].pc = "wait"
               PROVE  /\ reader'[reader'[q].on].pc \in Loading
                      /\ reader'[reader'[q].on].cursor = reader'[q].cursor
                      /\ reader'[reader'[q].on].at = reader'[q].at
    BY DEF WaitersRight
  <2>1. q # r
    BY <1>2 DEF Loading
  <2>2. PICK n \in Readers : n = reader[q].on
    BY OneReader
  <2>3. reader'[q] = reader[q] /\ reader[q].pc = "wait"
    BY <1>3, <2>1
  <2>4. reader[n].pc \in Loading /\ reader[n].cursor = reader[q].cursor /\ reader[n].at = reader[q].at
    BY <2>2, <2>3 DEF PagesInv, WaitersRight
  <2>5. CASE n = r
    BY <1>2, <2>2, <2>3, <2>4, <2>5
  <2>6. CASE n # r
    BY <1>3, <2>2, <2>3, <2>4, <2>6
  <2> QED
    BY <2>5, <2>6
<1>6. /\ cache' \subseteq [key : Cursor, page : Page]
      /\ \A e \in cache' : PageRight(e.page, e.key)
  BY DEF PagesInv, Types, CacheRight
<1> QED
  BY <1>2, <1>4, <1>5, <1>6, QuietStep

\* A load fails, or a process dies: all those of S have to ask again.
LEMMA FailKeeps ==
    ASSUME PagesInv, NEW S \in SUBSET Readers, UNCHANGED <<kind, row, cache>>,
           reader' = [q \in Readers |-> IF q \in S THEN Failed(reader[q]) ELSE reader[q]],
           \A q \in S : reader[q].pc \in Reading,
           \A q \in Readers \ S : reader[q].pc = "wait" => reader[q].on \notin S
    PROVE  PagesInv'
<1>1. ASSUME NEW q \in S
      PROVE  /\ reader'[q] \in Reader /\ ReaderRight(reader'[q]) /\ reader'[q].pc # "wait"
  <2>1. PICK o \in Reader : o = reader[q]
    BY OneReader
  <2>2. ReaderRight(o) /\ o.pc \in Reading
    BY <2>1, OneReader
  <2>3. Failed(o) \in Reader /\ ReaderRight(Failed(o)) /\ Failed(o).pc = "ask"
    BY <2>2, FailedRight
  <2> QED
    BY <2>1, <2>3
<1>2. \A q \in Readers \ S : reader'[q] = reader[q]
  OBVIOUS
<1>3. reader' \in [Readers -> Reader]
  BY <1>1, <1>2, OneReader
<1>4. /\ cache' \subseteq [key : Cursor, page : Page]
      /\ \A e \in cache' : PageRight(e.page, e.key)
  BY DEF PagesInv, Types, CacheRight
<1> QED
  BY <1>1, <1>2, <1>3, <1>4, Answered

-----------------------------------------------------------------------------
LEMMA PagesInitially == Init => PagesInv
<1> SUFFICES ASSUME Init PROVE PagesInv
  OBVIOUS
<1>1. \A r \in Readers : reader[r] = Idle
  BY DEF Init
<1>2. Types
  <2>1. kind \in AllKinds /\ row \in [Rows -> Present \cup {Absent}] /\ cache = {}
    BY PagesAssumption DEF Init
  <2>2. \A r \in Readers : Idle \in Reader
    BY IdleReader
  <2>3. reader \in [Readers -> Reader]
    BY <2>2 DEF Init
  <2> QED
    BY <2>1, <2>3 DEF Types
<1>3. ReadersRight
  BY <1>1, IdleReader DEF ReadersRight
<1>4. CacheRight
  BY DEF Init, CacheRight
<1>5. WaitersRight
  <2>1. Idle.pc # "wait"
    BY DEF Idle
  <2> QED
    BY <1>1, <2>1 DEF WaitersRight
<1> QED
  BY <1>2, <1>3, <1>4, <1>5 DEF PagesInv

LEMMA PagesStep == PagesInv /\ [Next]_vars => PagesInv'
<1> SUFFICES ASSUME PagesInv, [Next]_vars PROVE PagesInv'
  OBVIOUS
<1>0. /\ kind \in AllKinds /\ row \in [Rows -> Present \cup {Absent}]
      /\ reader \in [Readers -> Reader]
      /\ cache \subseteq [key : Cursor, page : Page]
      /\ \A e \in cache : PageRight(e.page, e.key)
  BY DEF PagesInv, Types, CacheRight
<1>1. ASSUME NEW x \in Rows, Appear(x) PROVE PagesInv'
  <2>1. PICK p \in Present : row' = [row EXCEPT ![x] = p]
    BY <1>1 DEF Appear
  <2>2. row' \in [Rows -> Present \cup {Absent}] /\ \A y \in Rows \ {x} : row'[y] = row[y]
    BY <1>0, <2>1
  <2> QED
    BY <1>1, <2>2, ShakenKeeps DEF Appear
<1>2. ASSUME NEW x \in Rows, Vanish(x) PROVE PagesInv'
  <2>1. row' = [row EXCEPT ![x] = Absent]
    BY <1>2 DEF Vanish
  <2>2. row' \in [Rows -> Present \cup {Absent}] /\ \A y \in Rows \ {x} : row'[y] = row[y]
    BY <1>0, <2>1
  <2> QED
    BY <1>2, <2>2, ShakenKeeps DEF Vanish
<1>3. ASSUME NEW x \in Rows, Move(x) PROVE PagesInv'
  <2>1. row[x] \in Present
    BY <1>0, <1>3 DEF Move, Absent
  <2>2. CASE kind = "hot" /\ \E s \in Scores \ {row[x].score} : row' = [row EXCEPT ![x].score = s]
    <3>1. PICK s \in Scores : row' = [row EXCEPT ![x].score = s]
      BY <2>2
    <3>2. [row[x] EXCEPT !.score = s] \in Present
      BY <2>1, <2>2 DEF Present
    <3>3. row' \in [Rows -> Present \cup {Absent}] /\ \A y \in Rows \ {x} : row'[y] = row[y]
      BY <1>0, <3>1, <3>2
    <3> QED
      BY <1>3, <3>3, ShakenKeeps DEF Move
  <2>3. CASE kind = "follows" /\ \E t \in Times \ {row[x].at} : row' = [row EXCEPT ![x].at = t]
    <3>1. PICK t \in Times : row' = [row EXCEPT ![x].at = t]
      BY <2>3
    <3>2. [row[x] EXCEPT !.at = t] \in Present
      BY <2>1 DEF Present
    <3>3. row' \in [Rows -> Present \cup {Absent}] /\ \A y \in Rows \ {x} : row'[y] = row[y]
      BY <1>0, <3>1, <3>2
    <3> QED
      BY <1>3, <3>3, ShakenKeeps DEF Move
  <2> QED
    BY <1>3, <2>2, <2>3 DEF Move
<1>4. ASSUME NEW r \in Readers, Open(r) PROVE PagesInv'
  <2>1. PICK w : w = [Idle EXCEPT !.pc = "ask"]
    OBVIOUS
  <2>2. w \in Reader /\ ReaderRight(w) /\ w.pc # "wait"
    BY <2>1, IdleReader DEF Idle
  <2>3. reader' = [reader EXCEPT ![r] = w] /\ UNCHANGED <<kind, row, cache>>
    BY <1>4, <2>1 DEF Open
  <2>4. reader' \in [Readers -> Reader] /\ reader'[r] = w
    BY <1>0, <2>2, <2>3
  <2>5. \A q \in Readers \ {r} : /\ reader'[q] = reader[q]
                                 /\ reader[q].pc = "wait" => reader[q].on \notin {r}
    BY <1>0, <1>4, <2>3 DEF Open, PagesInv, WaitersRight, Loading
  <2> QED
    BY <1>0, <2>2, <2>3, <2>4, <2>5, Answered
<1>5. ASSUME NEW r \in Readers, NEW k, ReadList(r, k) PROVE PagesInv'
  <2>1. PICK p \in PageAt(reader[r].cursor) : reader' = [reader EXCEPT ![r] = With(@, p)]
    BY <1>5 DEF ReadList
  <2>2. p \in Page /\ PageRight(p, reader[r].cursor)
    BY <2>1, OneReader, PageFacts DEF PagesInv
  <2> QED
    BY <1>5, <2>1, <2>2, AloneKeeps DEF ReadList
<1>6. ASSUME NEW r \in Readers, NEW p \in Cached(reader[r].cursor)
      PROVE  p \in Page /\ PageRight(p, reader[r].cursor)
  <2>1. PICK e \in cache : e.key = reader[r].cursor /\ p = e.page
    BY <1>6 DEF Cached
  <2> QED
    BY <1>0, <2>1
<1>7. ASSUME NEW r \in Readers, Hit(r) PROVE PagesInv'
  BY <1>6, <1>7, AloneKeeps DEF Hit
<1>8. ASSUME NEW r \in Readers, NEW a \in Processes, Join(r, a) PROVE PagesInv'
  <2> DEFINE leaders == {q \in Readers : Leading(q) /\ reader[q].at = a
                                           /\ reader[q].cursor = reader[r].cursor}
  <2>1. reader[r].pc = "ask" /\ UNCHANGED <<kind, row, cache>>
    BY <1>8 DEF Join
  <2>2. CASE leaders = {}
    <3>0. PICK o \in Reader : o = reader[r]
      BY OneReader
    <3>1. PICK w : w = [o EXCEPT !.pc = "recheck", !.at = a]
      OBVIOUS
    <3>2. reader' = [reader EXCEPT ![r] = w]
      BY <1>0, <1>8, <2>2, <3>0, <3>1 DEF Join
    <3>3. /\ w \in Reader /\ w.pc = "recheck" /\ w.cursor = reader[r].cursor
          /\ w.seen = reader[r].seen /\ w.again = reader[r].again /\ w.steady = reader[r].steady
      BY <3>0, <3>1 DEF Reader
    <3>4. ReaderRight(w)
      BY <2>1, <3>3, OneReader DEF ReaderRight, Reading, Between
    <3> QED
      BY <2>1, <3>2, <3>3, <3>4, LoadKeeps DEF Reading, Loading
  <2>3. CASE leaders # {}
    <3>1. PICK n \in leaders : reader' = [reader EXCEPT ![r].pc = "wait", ![r].at = a, ![r].on = n]
      BY <1>8, <2>3 DEF Join
    <3>2. /\ n \in Readers /\ reader[n].pc \in Loading /\ reader[n].at = a
          /\ reader[n].cursor = reader[r].cursor
      BY <3>1 DEF Leading, Loading
    <3>0. PICK o \in Reader : o = reader[r]
      BY OneReader
    <3>3. PICK w : w = [o EXCEPT !.pc = "wait", !.at = a, !.on = n]
      OBVIOUS
    <3>4. reader' = [reader EXCEPT ![r] = w]
      BY <1>0, <3>0, <3>1, <3>3
    <3>5. /\ w \in Reader /\ w.pc = "wait" /\ w.cursor = reader[r].cursor /\ w.at = a /\ w.on = n
          /\ w.seen = reader[r].seen /\ w.again = reader[r].again /\ w.steady = reader[r].steady
      BY <3>0, <3>2, <3>3 DEF Reader
    <3>6. ReaderRight(w)
      BY <2>1, <3>5, OneReader DEF ReaderRight, Reading, Between
    <3>7. /\ reader' \in [Readers -> Reader] /\ reader'[r] = w
          /\ \A q \in Readers \ {r} : reader'[q] = reader[q]
      BY <1>0, <3>4, <3>5
    <3>8. \A q \in Readers : ReaderRight(reader'[q])
      BY <3>6, <3>7, OneReader
    <3>9. WaitersRight'
      <4> SUFFICES ASSUME NEW q \in Readers, reader'[q].pc = "wait"
                   PROVE  /\ reader'[reader'[q].on].pc \in Loading
                          /\ reader'[reader'[q].on].cursor = reader'[q].cursor
                          /\ reader'[reader'[q].on].at = reader'[q].at
        BY DEF WaitersRight
      <4>1. n # r
        BY <2>1, <3>2 DEF Loading
      <4>2. CASE q = r
        BY <3>2, <3>5, <3>7, <4>1, <4>2
      <4>3. CASE q # r
        <5>1. PICK k \in Readers : k = reader[q].on
          BY OneReader
        <5>2. reader'[q] = reader[q]
          BY <3>7, <4>3
        <5>3. reader[k].pc \in Loading /\ reader[k].cursor = reader[q].cursor
              /\ reader[k].at = reader[q].at
          BY <5>1, <5>2 DEF PagesInv, WaitersRight
        <5>4. k # r
          BY <2>1, <5>3 DEF Loading
        <5> QED
          BY <3>7, <5>1, <5>2, <5>3, <5>4
      <4> QED
        BY <4>2, <4>3
    <3> QED
      BY <1>0, <2>1, <3>7, <3>8, <3>9, QuietStep
  <2> QED
    BY <2>2, <2>3
<1>9. ASSUME NEW r \in Readers, Recheck(r) PROVE PagesInv'
  <2>1. reader[r].pc = "recheck" /\ UNCHANGED <<kind, row, cache>>
    BY <1>9 DEF Recheck
  <2>2. CASE Cached(reader[r].cursor) # {}
    <3>1. PICK p \in Cached(reader[r].cursor) : Deliver(r, p)
      BY <1>9, <2>2 DEF Recheck
    <3> QED
      BY <1>0, <1>6, <2>1, <3>1, DeliverKeeps DEF Loading
  <2>3. CASE Cached(reader[r].cursor) = {}
    <3>1. PICK w : w = [reader[r] EXCEPT !.pc = "query"]
      OBVIOUS
    <3>2. reader' = [reader EXCEPT ![r] = w]
      BY <1>0, <1>9, <2>3, <3>1 DEF Recheck
    <3>3. /\ w \in Reader /\ w.pc = "query" /\ w.cursor = reader[r].cursor /\ w.at = reader[r].at
          /\ w.seen = reader[r].seen /\ w.again = reader[r].again /\ w.steady = reader[r].steady
      BY <3>1, OneReader DEF Reader
    <3>4. ReaderRight(w)
      BY <2>1, <3>3, OneReader DEF ReaderRight, Reading, Between
    <3> QED
      BY <2>1, <3>2, <3>3, <3>4, LoadKeeps DEF Reading, Loading
  <2> QED
    BY <2>2, <2>3
<1>10. ASSUME NEW r \in Readers, Query(r) PROVE PagesInv'
  <2>0. PICK o \in Reader : o = reader[r]
    BY OneReader
  <2>1. reader[r].pc = "query" /\ UNCHANGED <<kind, row, cache>>
    BY <1>10 DEF Query
  <2>2. PICK p \in PageAt(reader[r].cursor) :
          reader' = [reader EXCEPT ![r].pc = "store", ![r].page = p]
    BY <1>10 DEF Query
  <2>3. p \in Page /\ PageRight(p, reader[r].cursor)
    BY <2>2, OneReader, PageFacts DEF PagesInv
  <2>4. PICK w : w = [o EXCEPT !.pc = "store", !.page = p]
    OBVIOUS
  <2>5. reader' = [reader EXCEPT ![r] = w]
    BY <1>0, <2>0, <2>2, <2>4
  <2>6. /\ w \in Reader /\ w.pc = "store" /\ w.cursor = reader[r].cursor /\ w.at = reader[r].at
        /\ w.seen = reader[r].seen /\ w.again = reader[r].again /\ w.steady = reader[r].steady
        /\ w.page = p
    BY <2>0, <2>3, <2>4 DEF Reader
  <2>7. ReaderRight(w)
    BY <2>1, <2>3, <2>6, OneReader DEF ReaderRight, Reading, Between
  <2> QED
    BY <2>1, <2>5, <2>6, <2>7, LoadKeeps DEF Reading, Loading
<1>11. ASSUME NEW r \in Readers, Store(r) \/ StoreFails(r) PROVE PagesInv'
  <2>1. reader[r].pc = "store" /\ UNCHANGED <<kind, row>> /\ Deliver(r, reader[r].page)
    BY <1>11 DEF Store, StoreFails
  <2>2. PICK p \in Page : p = reader[r].page
    BY OneReader
  <2>3. PageRight(p, reader[r].cursor)
    BY <2>1, <2>2, OneReader DEF ReaderRight
  <2>4. \A e \in cache' : e \in cache \/ e = [key |-> reader[r].cursor, page |-> p]
    BY <1>11, <2>2 DEF Store, StoreFails, Key
  <2>5. \A e \in cache' : e \in [key : Cursor, page : Page] /\ PageRight(e.page, e.key)
    BY <1>0, <2>3, <2>4, OneReader
  <2> QED
    BY <2>1, <2>2, <2>3, <2>5, DeliverKeeps DEF Loading
<1>12. ASSUME NEW r \in Readers, LoadFails(r) PROVE PagesInv'
  <2>1. PICK S : S = Sharers(r)
    OBVIOUS
  <2>2. reader[r].pc \in Loading
    BY <1>12 DEF LoadFails, Loading
  <2>3. /\ S \in SUBSET Readers /\ \A q \in S : reader[q].pc \in Reading
        /\ \A q \in Readers \ S : reader[q].pc = "wait" => reader[q].on \notin S
    BY <2>1, <2>2, Sharing
  <2>4. /\ UNCHANGED <<kind, row, cache>>
        /\ reader' = [q \in Readers |-> IF q \in S THEN Failed(reader[q]) ELSE reader[q]]
    BY <1>12, <2>1 DEF LoadFails
  <2> QED
    BY <2>3, <2>4, FailKeeps
<1>13. ASSUME NEW a \in Processes, Crash(a) PROVE PagesInv'
  <2>1. PICK S : S = {r \in Readers : (Leading(r) \/ reader[r].pc = "wait") /\ reader[r].at = a}
    OBVIOUS
  <2>2. S \in SUBSET Readers /\ \A q \in S : reader[q].pc \in Reading
    BY <2>1 DEF Leading, Reading
  <2>3. \A q \in Readers \ S : reader[q].pc = "wait" => reader[q].on \notin S
    BY <2>1 DEF PagesInv, WaitersRight
  <2>4. /\ UNCHANGED <<kind, row, cache>>
        /\ reader' = [q \in Readers |-> IF q \in S THEN Failed(reader[q]) ELSE reader[q]]
    BY <1>13, <2>1 DEF Crash
  <2> QED
    BY <2>2, <2>3, <2>4, FailKeeps
<1>14. ASSUME UNCHANGED <<kind, row, reader>>, cache' \subseteq cache PROVE PagesInv'
  <2>1. reader' \in [Readers -> Reader] /\ WaitersRight'
    BY <1>0, <1>14 DEF PagesInv, WaitersRight
  <2> QED
    BY <1>0, <1>14, <2>1, OneReader, QuietStep
<1>15. CASE UNCHANGED vars
  BY <1>14, <1>15 DEF vars
<1>16. CASE Next
  BY <1>1, <1>2, <1>3, <1>4, <1>5, <1>7, <1>8, <1>9, <1>10, <1>11, <1>12, <1>13, <1>14, <1>16
     DEF Next, ListHot, ListComments, ListMessages, ListFollowing, Expire
<1> QED
  BY <1>15, <1>16

\* What stays in its place in a list is listed exactly once in every reading of it:
\* of any of the lists, with pages of any size, while other rows come, go and move,
\* with old pages from the cache, shared loads, errors and processes that die.
THEOREM StaysAreListedOnce == Spec => []ListedOnce
<1>1. PagesInv => ListedOnce
  <2> SUFFICES ASSUME PagesInv, NEW r \in Readers
               PROVE  /\ ~reader[r].again
                      /\ reader[r].pc = "ended" => reader[r].steady \subseteq {i.id : i \in reader[r].seen}
    BY DEF ListedOnce, NoneTwice, NoneSkipped
  <2> QED
    BY OneReader DEF ReaderRight, Ids
<1> QED
  BY <1>1, PagesInitially, PagesStep, PTL DEF Spec
=============================================================================
