--------------------------- MODULE RecommendProofs ---------------------------
(***************************************************************************)
(* Proofs about Recommend, for any videos, limits and timeouts: the wait   *)
(* is bounded, nothing that came in time is lost, and what may come again  *)
(* on a later page.                                                        *)
(***************************************************************************)
EXTENDS Recommend, FiniteSetTheorems, WellFoundedInduction, TLAPS

Asks == [pc : {"idle", "wait", "collect", "exclude", "rank"}, age : Nat, waited : Nat,
         vector : BOOLEAN, got : SUBSET Routes, onTime : SUBSET Routes, late : BOOLEAN,
         before : SUBSET Videos, pool : SUBSET Videos]

Goroutines == [pc : {"off", "running", "sent", "received", "failed"}, found : SUBSET Videos]

Types ==
    /\ published \in SUBSET Videos /\ exposed \in SUBSET Videos /\ watched \in BOOLEAN
    /\ minute \in Nat
    /\ ask \in Asks
    /\ route \in [Routes -> Goroutines]

\* While routes run: the age of a request that waits is what it has waited; one
\* that collects has waited for all, and then for a result after each it got.
\* Without an overrun nothing can come once it waits for a missing result.
Timing ==
    /\ ask.pc = "wait" =>
        /\ ask.age = ask.waited /\ ask.waited <= WaitTime
        /\ ask.late \/ ask.age <= RouteTime
    /\ ask.pc = "collect" =>
        /\ ask.got # Routes /\ ask.waited <= CollectTime
        /\ ask.age <= WaitTime + Cardinality(ask.got) * CollectTime + ask.waited
        /\ AllReturned \/ ask.age >= RouteTime
        /\ ask.late \/ ask.age <= RouteTime + ask.waited
        /\ ask.late \/ ask.waited = 0 \/ (AllReturned /\ Waiting = {})

\* What came in time is in the channel or received, and is received before the
\* request waits for what is missing.
Channel ==
    /\ ask.pc = "wait" =>
        /\ ask.got = {}
        /\ \A r \in Routes : route[r].pc # "received"
        /\ \A r \in ask.onTime : route[r].pc = "sent"
    /\ ask.pc = "collect" =>
        /\ \A r \in Routes : route[r].pc = "received" <=> r \in ask.got
        /\ \A r \in ask.onTime : route[r].pc = "received" \/ (route[r].pc = "sent" /\ ask.waited = 0)
    /\ ask.pc = "exclude" => ask.onTime \subseteq ask.got

\* The cursor is at or behind the limit of all that was shown.
Cursor ==
    LET c == reading.cursor
        shown == reading.shown
    IN  /\ c.score \in Int /\ c.id \in Nat
        /\ DOMAIN shown \subseteq Videos
        /\ c = NoCursor => DOMAIN shown = {}
        /\ \A v \in DOMAIN shown :
            /\ shown[v] \in Int
            /\ c.score < shown[v] \/ (c.score = shown[v] /\ c.id <= v)

\* The pool has nothing that was exposed before the request.
Fresh ==
    /\ ask.before \subseteq exposed
    /\ ask.pc = "rank" => ask.pool \cap ask.before = {}

Inv == Types /\ Timing /\ Channel /\ Cursor /\ Fresh

-----------------------------------------------------------------------------
(* Types.                                                                  *)

\* What a route finds are videos.
LEMMA RecallType ==
    ASSUME Types, NEW r \in Routes
    PROVE  Recall(r) \in SUBSET Videos
<1>1. \A S, f, n : FirstBy(S, f, n) \subseteq S
  BY DEF FirstBy
<1>2. CASE r = "hot"
  BY <1>1, <1>2 DEF Recall, Types
<1>3. CASE r = "following"
  BY <1>1, <1>3 DEF Recall, Types
<1>4. CASE r = "vector"
  BY <1>4 DEF Recall, Types
<1> QED
  BY <1>2, <1>3, <1>4 DEF Routes

\* A pool is made of what the routes found.
LEMMA MergeType ==
    ASSUME Types, NEW pool, Merges(pool)
    PROVE  pool \subseteq Videos /\ pool \cap exposed = {}
<1>1. pool \subseteq UNION {FoundBy(r) : r \in Routes} /\ pool \cap exposed = {}
  BY DEF Merges, RecentlyExposed
<1>2. \A r \in Routes : FoundBy(r) \subseteq Videos
  BY DEF FoundBy, Types, Goroutines
<1> QED
  BY <1>1, <1>2

\* Nothing is asked at first.
LEMMA InitInv == Init => Inv
<1> SUFFICES ASSUME Init PROVE Inv
  OBVIOUS
<1>1. Types
  BY DEF Init, Types, Asks, Goroutines, NoAsk, Off
<1>2. ask.pc = "idle" /\ ask.before = {}
  BY DEF Init, NoAsk
<1>3. Timing /\ Channel /\ Fresh
  BY <1>2 DEF Timing, Channel, Fresh
<1>4. Cursor
  BY DEF Init, Cursor, NoCursor, Nothing
<1> QED
  BY <1>1, <1>3, <1>4 DEF Inv

\* Types are kept.
LEMMA TypeStep == Inv /\ [Next]_vars => Types'
<1> SUFFICES ASSUME Inv, [Next]_vars PROVE Types'
  OBVIOUS
<1>0. Types /\ NoAsk \in Asks /\ Off \in Goroutines
  BY DEF Inv, NoAsk, Off, Asks, Goroutines
<1>1. CASE (\E v \in Videos : Publish(v) \/ Delete(v) \/ RecordExposed(v) \/ RecordPlay(v))
           \/ (\E S \in SUBSET Videos : SaveExposures(S)) \/ NextMinute
  <2>1. ask' = ask /\ route' = route
    BY <1>1 DEF Publish, Delete, RecordExposed, RecordPlay, SaveExposures, NextMinute, Changes
  <2>2. minute' \in Nat
    BY <1>0, <1>1
       DEF Publish, Delete, RecordExposed, RecordPlay, SaveExposures, NextMinute, Changes, Types
  <2>3. published' \in SUBSET Videos /\ exposed' \in SUBSET Videos
    BY <1>0, <1>1
       DEF Publish, Delete, RecordExposed, RecordPlay, SaveExposures, NextMinute, Changes, Types
  <2>4. watched' \in BOOLEAN
    BY <1>0, <1>1
       DEF Publish, Delete, RecordExposed, RecordPlay, SaveExposures, NextMinute, Changes, Types
  <2> QED
    BY <1>0, <2>1, <2>2, <2>3, <2>4 DEF Types
<1>2. ASSUME Rest, ask' \in Asks, route' \in [Routes -> Goroutines] PROVE Types'
  BY <1>0, <1>2 DEF Rest, Types
<1>3. CASE Ask
  <2>1. ask' \in Asks
    BY <1>0, <1>3 DEF Ask, NoAsk, Asks, Types, UserVector
  <2>2. route' \in [Routes -> Goroutines]
    BY <1>3 DEF Ask, Off, Goroutines
  <2> QED
    BY <1>2, <1>3, <2>1, <2>2 DEF Ask
<1>4. ASSUME NEW r \in Routes, Send(r) PROVE Types'
  <2>1. ask' \in Asks
    BY <1>0, <1>4 DEF Send, Asks, Types
  <2>2. [pc |-> "sent", found |-> Recall(r)] \in Goroutines /\ [Off EXCEPT !.pc = "failed"] \in Goroutines
    BY <1>0, RecallType DEF Goroutines, Off
  <2>3. route' \in [Routes -> Goroutines]
    BY <1>0, <1>4, <2>2 DEF Send, Types
  <2> QED
    BY <1>2, <1>4, <2>1, <2>3 DEF Send
<1>5. ASSUME NEW r \in Routes, RouteFails(r) PROVE Types'
  <2>1. [Off EXCEPT !.pc = "failed"] \in Goroutines
    BY DEF Goroutines, Off
  <2>2. route' \in [Routes -> Goroutines] /\ ask' \in Asks
    BY <1>0, <1>5, <2>1 DEF RouteFails, Types
  <2> QED
    BY <1>2, <1>5, <2>2 DEF RouteFails
<1>6. ASSUME NEW G \in SUBSET Routes, Collected(G), Rest PROVE Types'
  <2>1. ask' \in Asks
    BY <1>0, <1>6 DEF Collected, Asks, Types
  <2>2. \A r \in Routes : [route[r] EXCEPT !.pc = "received"] \in Goroutines
    BY <1>0 DEF Types, Goroutines
  <2>3. route' \in [Routes -> Goroutines]
    BY <1>0, <1>6, <2>2 DEF Collected
  <2> QED
    BY <1>2, <1>6, <2>1, <2>3
<1>7. ASSUME NEW r \in Routes, Receive(r) PROVE Types'
  <2>1. ask.got \cup {r} \in SUBSET Routes
    BY <1>0 DEF Types, Asks
  <2>2. CASE ask.got \cup {r} = Routes
    BY <1>6, <1>7, <2>2 DEF Receive
  <2>3. CASE ask.got \cup {r} # Routes
    <3>1. ask' \in Asks
      <4>1. ask' = [ask EXCEPT !.got = ask.got \cup {r}, !.waited = 0]
        BY <1>7, <2>3 DEF Receive
      <4> QED
        BY <1>0, <2>1, <4>1 DEF Asks, Types
    <3>2. [route[r] EXCEPT !.pc = "received"] \in Goroutines
      BY <1>0 DEF Types, Goroutines
    <3>3. route' \in [Routes -> Goroutines]
      BY <1>0, <1>7, <2>3, <3>2 DEF Receive, Types
    <3> QED
      BY <1>2, <1>7, <3>1, <3>3 DEF Receive
  <2> QED
    BY <2>2, <2>3
<1>8. CASE Tick \/ EndWait
  <2>1. CASE Tick
    <3>1. PICK late \in BOOLEAN :
             ask' = [ask EXCEPT !.age = ask.age + 1, !.waited = ask.waited + 1, !.late = late]
      BY <1>0, <2>1 DEF Tick, Types, Asks
    <3>2. ask' \in Asks
      <4>1. ask.age \in Nat /\ ask.waited \in Nat
        BY <1>0 DEF Types, Asks
      <4>2. ask.age + 1 \in Nat /\ ask.waited + 1 \in Nat
        BY <4>1
      <4> QED
        BY <1>0, <3>1, <4>2 DEF Types, Asks
    <3> QED
      BY <1>0, <1>2, <2>1, <3>2 DEF Tick, Types
  <2>2. CASE EndWait
    <3>1. ask' \in Asks
      BY <1>0, <2>2 DEF EndWait, Types, Asks
    <3> QED
      BY <1>0, <1>2, <2>2, <3>1 DEF EndWait, Types
  <2> QED
    BY <1>8, <2>1, <2>2
<1>9. CASE GiveUp
  <2>1. ask.got \in SUBSET Routes
    BY <1>0 DEF Types, Asks
  <2> QED
    BY <1>6, <1>9, <2>1 DEF GiveUp
<1>10. ASSUME NEW pool \in SUBSET Videos, Exclude(pool) PROVE Types'
  <2>1. ask' \in Asks /\ route' \in [Routes -> Goroutines]
    BY <1>0, <1>10 DEF Exclude, Asks, Types
  <2> QED
    BY <1>2, <1>10, <2>1 DEF Exclude
<1>11. CASE Answer \/ AskFails
  BY <1>0, <1>2, <1>11 DEF Answer, AskFails
<1>12. CASE UNCHANGED vars
  BY <1>0, <1>12 DEF vars, Types
<1> QED
  BY <1>1, <1>3, <1>4, <1>5, <1>7, <1>8, <1>9, <1>10, <1>11, <1>12 DEF Next

-----------------------------------------------------------------------------
(* The wait for the routes.                                                *)

\* Numbers of routes.
LEMMA RouteCount ==
    /\ IsFiniteSet(Routes) /\ Cardinality(Routes) = 3
    /\ \A S \in SUBSET Routes : /\ IsFiniteSet(S) /\ Cardinality(S) \in 0..3
                                /\ S # Routes => Cardinality(S) \in 0..2
<1>1. IsFiniteSet(Routes) /\ Cardinality(Routes) = 3
  <2>1. IsFiniteSet({}) /\ Cardinality({}) = 0
    BY FS_EmptySet
  <2>2. IsFiniteSet({"vector"}) /\ Cardinality({"vector"}) = 1
    BY FS_Singleton
  <2>3. IsFiniteSet({"vector"} \cup {"following"})
        /\ Cardinality({"vector"} \cup {"following"}) = 2
    BY <2>2, FS_AddElement
  <2>4. IsFiniteSet(({"vector"} \cup {"following"}) \cup {"hot"})
        /\ Cardinality(({"vector"} \cup {"following"}) \cup {"hot"}) = 3
    BY <2>3, FS_AddElement
  <2>5. Routes = ({"vector"} \cup {"following"}) \cup {"hot"}
    BY DEF Routes
  <2> QED
    BY <2>4, <2>5
<1>2. ASSUME NEW S \in SUBSET Routes
      PROVE  /\ IsFiniteSet(S) /\ Cardinality(S) \in 0..3
             /\ S # Routes => Cardinality(S) \in 0..2
  <2>1. /\ IsFiniteSet(S) /\ Cardinality(S) <= Cardinality(Routes)
        /\ Cardinality(S) = Cardinality(Routes) => S = Routes
    BY <1>1, FS_Subset
  <2>2. Cardinality(S) \in Nat
    BY <2>1, FS_CardinalityType
  <2> QED
    BY <1>1, <2>1, <2>2
<1> QED
  BY <1>1, <1>2

\* A route that runs has a place in the channel.
LEMMA Room ==
    ASSUME NEW r \in Routes, route[r].pc = "running"
    PROVE  Cardinality(Waiting) < Capacity
<1>1. Waiting \subseteq Routes /\ Waiting # Routes
  BY DEF Waiting
<1>2. Cardinality(Waiting) \in 0..2
  BY <1>1, RouteCount
<1> QED
  BY <1>2, RouteCount DEF Capacity

\* The bounds on the wait are kept.
LEMMA TimingStep == Inv /\ [Next]_vars => Timing'
<1> SUFFICES ASSUME Inv, [Next]_vars PROVE Timing'
  OBVIOUS
<1>0. Types /\ Timing /\ Channel /\ ask \in Asks /\ route \in [Routes -> Goroutines]
  BY DEF Inv, Types
<1>a. /\ RouteTime \in Nat /\ WaitTime \in Nat /\ CollectTime \in Nat /\ CollectTime > 0
      /\ RouteTime <= WaitTime
  BY RecommendAssumption
<1>1. ASSUME ask' = ask, \A r \in Routes : route'[r].pc = route[r].pc PROVE Timing'
  <2>1. Waiting' = Waiting /\ (AllReturned' <=> AllReturned)
    BY <1>1 DEF Waiting, AllReturned
  <2> QED
    BY <1>0, <1>1, <2>1 DEF Timing
<1>2. ASSUME ask'.pc \notin {"wait", "collect"} PROVE Timing'
  BY <1>2 DEF Timing
<1>3. CASE Ask
  <2>1. ask' = [NoAsk EXCEPT !.pc = "wait", !.vector = UserVector, !.before = exposed]
    BY <1>3 DEF Ask
  <2>2. ask'.pc = "wait" /\ ask'.age = 0 /\ ask'.waited = 0
    BY <2>1 DEF NoAsk
  <2> QED
    BY <1>a, <2>2 DEF Timing
<1>4. ASSUME NEW r \in Routes, Send(r) \/ RouteFails(r) PROVE Timing'
  <2>1. /\ ask'.pc = ask.pc /\ ask'.age = ask.age /\ ask'.waited = ask.waited
        /\ ask'.got = ask.got /\ ask'.late = ask.late
    BY <1>0, <1>4 DEF Send, RouteFails, Asks
  <2>2. route[r].pc = "running" /\ ~AllReturned
    BY <1>4 DEF Send, RouteFails, AllReturned
  <2> QED
    BY <1>0, <2>1, <2>2 DEF Timing
<1>5. CASE Tick
  <2>1. /\ ask'.pc = ask.pc /\ ask'.age = ask.age + 1 /\ ask'.waited = ask.waited + 1
        /\ ask'.got = ask.got /\ route' = route
        /\ ask'.late = (ask.late \/ (ask.age >= RouteTime /\ ~AllReturned))
    BY <1>0, <1>5 DEF Tick, Asks
  <2>2. Waiting' = Waiting /\ (AllReturned' <=> AllReturned)
    BY <2>1 DEF Waiting, AllReturned
  <2>3. ask.age \in Nat /\ ask.waited \in Nat /\ ask.late \in BOOLEAN /\ ask.got \in SUBSET Routes
    BY <1>0 DEF Asks
  <2>4. CASE ask.pc = "wait"
    <3>1. ~AllReturned /\ ask.waited # WaitTime
      BY <1>5, <2>4 DEF Tick, WaitOver
    <3>2. ask.age = ask.waited /\ ask.waited <= WaitTime /\ (ask.late \/ ask.age <= RouteTime)
      BY <1>0, <2>4 DEF Timing
    <3>3. ask'.age = ask'.waited /\ ask'.waited <= WaitTime
      BY <1>a, <2>1, <2>3, <3>1, <3>2
    <3>4. ask'.late \/ ask'.age <= RouteTime
      <4>1. CASE ask.age >= RouteTime
        BY <2>1, <3>1, <4>1
      <4>2. CASE ask.age < RouteTime
        BY <1>a, <2>1, <2>3, <4>2
      <4> QED
        BY <1>a, <2>3, <4>1, <4>2
    <3> QED
      BY <2>1, <2>4, <3>3, <3>4 DEF Timing
  <2>5. CASE ask.pc = "collect"
    <3>1. Waiting = {} /\ ask.waited < CollectTime
      BY <1>5, <2>5 DEF Tick
    <3>2. Cardinality(ask.got) * CollectTime \in Nat
      <4>1. Cardinality(ask.got) \in Nat
        BY <2>3, RouteCount
      <4> QED
        BY <1>a, <4>1
    <3> DEFINE k == Cardinality(ask.got) * CollectTime
    <3>3. Cardinality(ask'.got) * CollectTime = k
      BY <2>1
    <3> HIDE DEF k
    <3>4. ask.age <= WaitTime + k + ask.waited
      BY <1>0, <2>5 DEF Timing, k
    <3>5. ask'.age <= WaitTime + k + ask'.waited
      BY <1>a, <2>1, <2>3, <3>2, <3>4 DEF k
    <3>6. ask'.got # Routes /\ ask'.waited <= CollectTime /\ (AllReturned' \/ ask'.age >= RouteTime)
      BY <1>0, <1>a, <2>1, <2>2, <2>3, <2>5, <3>1 DEF Timing
    <3>7. /\ ask'.late \/ ask'.age <= RouteTime + ask'.waited
          /\ ask'.late \/ ask'.waited = 0 \/ (AllReturned' /\ Waiting' = {})
      <4>1. /\ AllReturned \/ ask.age >= RouteTime
            /\ ask.late \/ ask.age <= RouteTime + ask.waited
        BY <1>0, <2>5 DEF Timing
      <4>2. CASE ask.late
        BY <2>1, <4>2
      <4>3. CASE ~AllReturned
        BY <2>1, <4>1, <4>3
      <4>4. CASE AllReturned /\ ~ask.late
        BY <1>a, <2>1, <2>2, <2>3, <3>1, <4>1, <4>4
      <4> QED
        BY <4>2, <4>3, <4>4
    <3> QED
      BY <2>1, <2>5, <3>3, <3>5, <3>6, <3>7 DEF Timing
  <2> QED
    BY <1>5, <2>4, <2>5 DEF Tick
<1>6. CASE EndWait
  <2>1. /\ ask'.pc = "collect" /\ ask'.age = ask.age /\ ask'.waited = 0
        /\ ask'.got = {} /\ route' = route /\ ask'.late = ask.late /\ ask.pc = "wait"
    BY <1>0, <1>6 DEF EndWait, Asks, Channel
  <2>2. AllReturned' <=> AllReturned
    BY <2>1 DEF AllReturned
  <2>3. ask.age \in Nat /\ ask.waited \in Nat
    BY <1>0 DEF Asks
  <2>4. Cardinality(ask'.got) * CollectTime = 0 /\ {} # Routes
    <3>1. Cardinality(ask'.got) = 0
      BY <2>1, FS_EmptySet
    <3> QED
      BY <1>a, <3>1 DEF Routes
  <2>5. AllReturned \/ ask.age = WaitTime
    BY <1>0, <1>6, <2>1 DEF EndWait, WaitOver, Timing
  <2>6. ask.age <= WaitTime /\ (ask.late \/ ask.age <= RouteTime)
    BY <1>0, <2>1 DEF Timing
  <2> QED
    BY <1>a, <2>1, <2>2, <2>3, <2>4, <2>5, <2>6 DEF Timing
<1>7. ASSUME NEW r \in Routes, Receive(r) PROVE Timing'
  <2>1. ask.pc = "collect" /\ route[r].pc = "sent" /\ r \notin ask.got
    BY <1>0, <1>7 DEF Receive, Channel
  <2>2. CASE ask.got \cup {r} = Routes
    <3>1. ask'.pc = "exclude"
      BY <1>0, <1>7, <2>2 DEF Receive, Collected, Asks
    <3> QED
      BY <1>2, <3>1
  <2>3. CASE ask.got \cup {r} # Routes
    <3>1. /\ ask'.pc = "collect" /\ ask'.age = ask.age /\ ask'.waited = 0 /\ ask'.late = ask.late
          /\ ask'.got = ask.got \cup {r}
          /\ route' = [route EXCEPT ![r].pc = "received"]
      BY <1>0, <1>7, <2>1, <2>3 DEF Receive, Asks
    <3>2. ask.age \in Nat /\ ask.waited \in Nat /\ ask.late \in BOOLEAN /\ ask.got \in SUBSET Routes
      BY <1>0 DEF Asks
    <3>3. /\ Cardinality(ask.got) \in Nat /\ Cardinality(ask'.got) = Cardinality(ask.got) + 1
      BY <2>1, <3>1, <3>2, RouteCount, FS_AddElement
    <3> DEFINE n == Cardinality(ask.got)
               m == Cardinality(ask'.got)
    <3>4. n * CollectTime \in Nat /\ m * CollectTime = n * CollectTime + CollectTime
      <4>1. n \in Nat /\ m = n + 1
        BY <3>3
      <4> HIDE DEF n, m
      <4> QED
        BY <1>a, <4>1
    <3>5. ask.age <= WaitTime + n * CollectTime + ask.waited /\ ask.waited <= CollectTime
      BY <1>0, <2>1 DEF Timing
    <3>6. ask'.age <= WaitTime + m * CollectTime + ask'.waited
      <4> HIDE DEF n, m
      <4> QED
        BY <1>a, <3>1, <3>2, <3>4, <3>5
    <3>7. r \in Waiting
      BY <2>1 DEF Waiting
    <3>8. ask.late \/ ask.waited = 0
      BY <1>0, <2>1, <3>7 DEF Timing
    <3>9. ask.late \/ ask.age <= RouteTime
      BY <1>0, <1>a, <2>1, <3>2, <3>8 DEF Timing
    <3>10. AllReturned' \/ ask.age >= RouteTime
      <4>1. AllReturned => AllReturned'
        BY <1>0, <3>1 DEF AllReturned, Goroutines
      <4> QED
        BY <1>0, <2>1, <4>1 DEF Timing
    <3> QED
      BY <1>a, <2>3, <3>1, <3>2, <3>6, <3>9, <3>10 DEF Timing
  <2> QED
    BY <2>2, <2>3
<1>8. CASE GiveUp
  <2>1. ask'.pc = "exclude"
    BY <1>0, <1>8 DEF GiveUp, Collected, Asks
  <2> QED
    BY <1>2, <2>1
<1>9. CASE (\E pool \in SUBSET Videos : Exclude(pool)) \/ Answer \/ AskFails
  <2>1. ask'.pc \in {"rank", "idle"}
    <3>1. ASSUME NEW pool, Exclude(pool) PROVE ask'.pc = "rank"
      BY <1>0, <3>1 DEF Exclude, Asks
    <3>2. CASE Answer \/ AskFails
      BY <3>2 DEF Answer, AskFails, NoAsk
    <3> QED
      BY <1>9, <3>1, <3>2
  <2> QED
    BY <1>2, <2>1
<1>10. CASE (\E v \in Videos : Publish(v) \/ Delete(v) \/ RecordExposed(v) \/ RecordPlay(v))
            \/ (\E S \in SUBSET Videos : SaveExposures(S)) \/ NextMinute \/ UNCHANGED vars
  <2>1. ask' = ask /\ route' = route
    BY <1>10 DEF Publish, Delete, RecordExposed, RecordPlay, SaveExposures, NextMinute, Changes, vars
  <2> QED
    BY <1>1, <2>1
<1> QED
  BY <1>3, <1>4, <1>5, <1>6, <1>7, <1>8, <1>9, <1>10 DEF Next

-----------------------------------------------------------------------------
(* What came in time.                                                      *)

\* What came in time stays in the channel until it is received.
LEMMA ChannelStep == Inv /\ [Next]_vars => Channel'
<1> SUFFICES ASSUME Inv, [Next]_vars PROVE Channel'
  OBVIOUS
<1>0. Types /\ Timing /\ Channel /\ ask \in Asks /\ route \in [Routes -> Goroutines]
  BY DEF Inv, Types
<1>a. ask.onTime \subseteq Routes /\ ask.waited \in Nat
  BY <1>0 DEF Asks
<1>1. ASSUME ask' = ask, route' = route PROVE Channel'
  BY <1>0, <1>1 DEF Channel
<1>2. ASSUME ask'.pc \notin {"wait", "collect", "exclude"} PROVE Channel'
  BY <1>2 DEF Channel
<1>3. CASE Ask
  <2>1. ask'.pc = "wait" /\ ask'.got = {} /\ ask'.onTime = {}
    BY <1>3 DEF Ask, NoAsk
  <2>2. \A q \in Routes : route'[q].pc = "running"
    BY <1>3 DEF Ask, Off
  <2> QED
    BY <2>1, <2>2 DEF Channel
<1>4. ASSUME NEW r \in Routes, Send(r) PROVE Channel'
  <2>1. /\ route[r].pc = "running" /\ route'[r].pc = "sent"
        /\ \A q \in Routes : q # r => route'[q] = route[q]
    BY <1>0, <1>4, Room DEF Send
  <2>2. /\ ask'.pc = ask.pc /\ ask'.waited = ask.waited /\ ask'.got = ask.got
        /\ ask'.onTime = IF ask.pc = "wait" THEN ask.onTime \cup {r} ELSE ask.onTime
    BY <1>0, <1>4 DEF Send, Asks
  <2> QED
    BY <1>0, <1>a, <2>1, <2>2 DEF Channel
<1>5. ASSUME NEW r \in Routes, RouteFails(r) PROVE Channel'
  <2>1. /\ route[r].pc = "running" /\ route'[r].pc = "failed" /\ ask' = ask
        /\ \A q \in Routes : q # r => route'[q] = route[q]
    BY <1>0, <1>5 DEF RouteFails, Off
  <2> QED
    BY <1>0, <1>a, <2>1 DEF Channel
<1>6. CASE Tick
  <2>1. /\ ask'.pc = ask.pc /\ ask'.onTime = ask.onTime /\ ask'.got = ask.got /\ route' = route
        /\ ask.pc = "wait" \/ (ask.pc = "collect" /\ Waiting = {})
    BY <1>0, <1>6 DEF Tick, Asks
  <2> QED
    BY <1>0, <1>a, <2>1 DEF Channel, Waiting
<1>7. CASE EndWait
  <2>1. /\ ask.pc = "wait" /\ ask'.pc = "collect" /\ ask'.onTime = ask.onTime /\ ask'.waited = 0
        /\ ask'.got = ask.got /\ route' = route
    BY <1>0, <1>7 DEF EndWait, Asks
  <2> QED
    BY <1>0, <1>a, <2>1 DEF Channel
<1>8. ASSUME NEW r \in Routes, Receive(r) PROVE Channel'
  <2>1. ask.pc = "collect" /\ route[r].pc = "sent"
    BY <1>8 DEF Receive
  <2>2. CASE ask.got \cup {r} = Routes
    <3>1. ask'.pc = "exclude" /\ ask'.onTime = ask.onTime /\ ask'.got = Routes
      BY <1>0, <1>8, <2>2 DEF Receive, Collected, Asks
    <3> QED
      BY <1>a, <3>1 DEF Channel
  <2>3. CASE ask.got \cup {r} # Routes
    <3>1. /\ ask'.pc = "collect" /\ ask'.got = ask.got \cup {r} /\ ask'.onTime = ask.onTime
          /\ ask'.waited = 0
      BY <1>0, <1>8, <2>1, <2>3 DEF Receive, Asks
    <3>2. route' = [route EXCEPT ![r].pc = "received"]
      BY <1>8, <2>3 DEF Receive
    <3>3. route'[r].pc = "received" /\ \A q \in Routes : q # r => route'[q] = route[q]
      BY <1>0, <3>2 DEF Goroutines
    <3> QED
      BY <1>0, <1>a, <2>1, <3>1, <3>3 DEF Channel
  <2> QED
    BY <2>2, <2>3
<1>9. CASE GiveUp
  <2>1. ask.pc = "collect" /\ ask.waited # 0
    BY <1>9, RecommendAssumption DEF GiveUp
  <2>2. ask'.pc = "exclude" /\ ask'.onTime = ask.onTime /\ ask'.got = ask.got
    BY <1>0, <1>9 DEF GiveUp, Collected, Asks
  <2>3. ask.onTime \subseteq ask.got
    BY <1>0, <1>a, <2>1 DEF Channel
  <2> QED
    BY <2>2, <2>3 DEF Channel
<1>10. CASE (\E pool \in SUBSET Videos : Exclude(pool)) \/ Answer \/ AskFails
  <2>1. ASSUME NEW pool, Exclude(pool) PROVE ask'.pc = "rank"
    BY <1>0, <2>1 DEF Exclude, Asks
  <2>2. CASE Answer \/ AskFails
    BY <1>2, <2>2 DEF Answer, AskFails, NoAsk
  <2> QED
    BY <1>2, <1>10, <2>1, <2>2
<1>11. CASE (\E v \in Videos : Publish(v) \/ Delete(v) \/ RecordExposed(v) \/ RecordPlay(v))
            \/ (\E S \in SUBSET Videos : SaveExposures(S)) \/ NextMinute \/ UNCHANGED vars
  <2>1. ask' = ask /\ route' = route
    BY <1>11 DEF Publish, Delete, RecordExposed, RecordPlay, SaveExposures, NextMinute, Changes, vars
  <2> QED
    BY <1>1, <2>1
<1> QED
  BY <1>3, <1>4, <1>5, <1>6, <1>7, <1>8, <1>9, <1>10, <1>11 DEF Next

-----------------------------------------------------------------------------
(* Pages.                                                                  *)

\* A set of natural numbers has a least.
LEMMA LeastCount ==
    ASSUME NEW N, N \subseteq Nat, N # {}
    PROVE  \E n \in N : \A m \in N : n <= m
<1> DEFINE less == {p \in Nat \X Nat : p[1] < p[2]}
<1>1. IsWellFoundedOn(less, Nat)
  BY NatLessThanWellFounded DEF OpToRel
<1> HIDE DEF less
<1>2. PICK n \in N : \A m \in N : ~(<<m, n>> \in less)
  BY <1>1, WFMin
<1>3. \A m \in N : m \in Nat /\ n \in Nat /\ ~(m < n)
  BY <1>2 DEF less
<1> QED
  BY <1>3

\* Of finitely many videos with scores one comes last, by score and then id:
\* the one that the fewest come after.
LEMMA LastOf ==
    ASSUME NEW S, S \subseteq Nat, IsFiniteSet(S), S # {}, NEW f \in [S -> Int]
    PROVE  \E v \in S : \A u \in S : f[v] < f[u] \/ (f[v] = f[u] /\ v <= u)
<1> DEFINE After(v) == {u \in S : f[u] < f[v] \/ (f[u] = f[v] /\ u < v)}
           counts == {Cardinality(After(v)) : v \in S}
<1>1. \A v \in S : IsFiniteSet(After(v)) /\ Cardinality(After(v)) \in Nat
  BY FS_Subset, FS_CardinalityType
<1>2. PICK n \in counts : \A m \in counts : n <= m
  <2>1. counts \subseteq Nat /\ counts # {}
    BY <1>1
  <2> HIDE DEF counts
  <2> QED
    BY <2>1, LeastCount
<1>3. PICK v \in S : n = Cardinality(After(v))
  OBVIOUS
<1>4. \A u \in S : u \in Int /\ f[u] \in Int
  OBVIOUS
<1>5. ASSUME NEW u \in S, ~(f[v] < f[u] \/ (f[v] = f[u] /\ v <= u)) PROVE FALSE
  <2>1. u \in After(v)
    BY <1>3, <1>4, <1>5
  <2>2. u \notin After(u)
    BY <1>4
  <2>3. After(u) \subseteq After(v)
    BY <1>3, <1>4, <1>5
  <2>4. Cardinality(After(u)) <= Cardinality(After(v)) /\ Cardinality(After(u)) # Cardinality(After(v))
    <3>1. IsFiniteSet(After(v))
      BY <1>1
    <3>2. After(u) # After(v)
      <4> HIDE DEF After
      <4> QED
        BY <2>1, <2>2
    <3>3. PICK S1, S2 : S1 = After(v) /\ S2 = After(u)
      OBVIOUS
    <3> HIDE DEF After
    <3>4. IsFiniteSet(S1) /\ S2 \in SUBSET S1 /\ S1 # S2
      BY <2>3, <3>1, <3>2, <3>3
    <3> QED
      BY <3>3, <3>4, FS_Subset
  <2>5. Cardinality(After(v)) <= Cardinality(After(u))
    <3>1. Cardinality(After(u)) \in counts
      OBVIOUS
    <3> HIDE DEF After, counts
    <3> QED
      BY <1>2, <1>3, <3>1
  <2>6. Cardinality(After(u)) \in Nat /\ Cardinality(After(v)) \in Nat
    BY <1>1
  <2> HIDE DEF After
  <2> QED
    BY <2>4, <2>5, <2>6
<1> QED
  BY <1>3, <1>5

\* Scores are numbers, and a page is of videos of the pool behind the cursor.
LEMMA PageFacts ==
    ASSUME Types
    PROVE  /\ \A v \in Videos : Score(v) \in Int
           /\ Page \subseteq ask.pool /\ Page \subseteq Videos /\ IsFiniteSet(Page)
           /\ \A v \in Page : Behind(v, reading.cursor)
<1>1. \A v \in Videos : v \in Nat /\ Hot[v] \in Nat /\ Sim[v] \in Nat
  BY RecommendAssumption
<1>2. minute \in Nat /\ ask.pool \subseteq Videos
  BY DEF Types, Asks
<1>3. ASSUME NEW v \in Videos PROVE Score(v) \in Int
  <2>1. Similarity(v) \in Nat
    BY <1>1 DEF Similarity
  <2>2. PICK k \in {0, 1} : k = IF Source(v) = "following" THEN 1 ELSE 0
    OBVIOUS
  <2>3. 8 * v - 2 * minute + k \in Int
    BY <1>1, <1>2, <2>2
  <2> QED
    BY <1>1, <2>1, <2>2, <2>3 DEF Score
<1>4. Page \subseteq {v \in ask.pool : Behind(v, reading.cursor)}
  BY DEF Page, FirstBy
<1>5. IsFiniteSet(Page) /\ Page \subseteq Videos
  BY <1>2, <1>4, RecommendAssumption, FS_Subset
<1> QED
  BY <1>3, <1>4, <1>5

\* What is behind the cursor is behind the limits of what was shown: a climb is
\* smaller than what the limits are raised by.
LEMMA PageBehind ==
    ASSUME Types, Cursor, NEW u \in Page, NEW v \in DOMAIN reading.shown
    PROVE  /\ Limited(v) \in Int
           /\ Score(u) < Limited(v) \/ (Score(u) = Limited(v) /\ u < v)
<1>1. PICK c : c = reading.cursor
  OBVIOUS
<1>2. PICK s : s = reading.shown[v]
  OBVIOUS
<1>3. /\ c.score \in Int /\ c.id \in Nat /\ c # NoCursor /\ s \in Int
      /\ c.score < s \/ (c.score = s /\ c.id <= v)
  BY <1>1, <1>2 DEF Cursor
<1>4. PICK p : p = Score(u)
  OBVIOUS
<1>5. p \in Int /\ u \in Nat /\ v \in Nat /\ Tolerance \in Nat \ {0}
  BY <1>4, PageFacts, RecommendAssumption DEF Cursor
<1>6. p < c.score \/ (SameScore(p, c.score) /\ u < c.id)
  BY <1>1, <1>3, <1>4, PageFacts DEF Behind
<1>7. CASE Climbs
  <2>1. Limited(v) = s + Tolerance
    BY <1>2, <1>7 DEF Limited
  <2>2. p < s + Tolerance
    BY <1>3, <1>5, <1>6 DEF SameScore
  <2> QED
    BY <1>3, <1>4, <1>5, <2>1, <2>2
<1>8. CASE ~Climbs
  <2>1. Limited(v) = s
    BY <1>2, <1>3, <1>8 DEF Limited
  <2>2. ~(p > c.score)
    BY <1>1, <1>3, <1>4, <1>8 DEF Climbs
  <2>3. p < s \/ (p = s /\ u < v)
    BY <1>3, <1>5, <1>6, <2>2
  <2> QED
    BY <1>3, <1>4, <2>1, <2>3
<1> QED
  BY <1>7, <1>8

\* The cursor stays at or behind the limits of all that was shown.
LEMMA CursorStep == Inv /\ [Next]_vars => Cursor'
<1> SUFFICES ASSUME Inv, [Next]_vars PROVE Cursor'
  OBVIOUS
<1>0. Types /\ Cursor
  BY DEF Inv
<1>1. CASE Answer /\ Page # {}
  <2> DEFINE last == CHOOSE v \in Page : \A u \in Page :
                       Score(v) < Score(u) \/ (Score(v) = Score(u) /\ v <= u)
             old == reading.shown
             f == [v \in Page |-> Score(v)]
  <2>1. /\ Page \subseteq Videos /\ Page \subseteq Nat /\ IsFiniteSet(Page)
        /\ \A v \in Page : Score(v) \in Int /\ v \in Nat \ {0}
    BY <1>0, PageFacts, RecommendAssumption
  <2>2. last \in Page /\ \A u \in Page : Score(last) < Score(u) \/ (Score(last) = Score(u) /\ last <= u)
    <3>1. f \in [Page -> Int]
      BY <2>1
    <3>2. \E v \in Page : \A u \in Page : f[v] < f[u] \/ (f[v] = f[u] /\ v <= u)
      <4> HIDE DEF f
      <4> QED
        BY <1>1, <2>1, <3>1, LastOf
    <3>3. \E v \in Page : \A u \in Page : Score(v) < Score(u) \/ (Score(v) = Score(u) /\ v <= u)
      BY <3>2
    <3> QED
      BY <3>3
  <2>3. /\ reading'.cursor = [score |-> Score(last), id |-> last]
        /\ reading'.shown = [v \in DOMAIN old \cup Page |->
                               IF v \in Page THEN Score(v) ELSE Limited(v)]
    BY <1>1 DEF Answer
  <2> HIDE DEF last
  <2>5. Score(last) \in Int /\ last \in Nat \ {0}
    BY <2>1, <2>2
  <2>6. ASSUME NEW v \in DOMAIN old \cup Page
        PROVE  LET s == IF v \in Page THEN Score(v) ELSE Limited(v)
               IN  s \in Int /\ (Score(last) < s \/ (Score(last) = s /\ last <= v))
    <3>1. CASE v \in Page
      BY <2>1, <2>2, <3>1
    <3>2. CASE v \notin Page
      <4>1. /\ Limited(v) \in Int
            /\ Score(last) < Limited(v) \/ (Score(last) = Limited(v) /\ last <= v)
        <5>1. v \in Nat /\ v \in DOMAIN old
          BY <1>0, <3>2, RecommendAssumption DEF Cursor
        <5> QED
          BY <1>0, <2>2, <2>5, <5>1, PageBehind
      <4> QED
        BY <3>2, <4>1
    <3> QED
      BY <3>1, <3>2
  <2>7. DOMAIN old \cup Page \subseteq Videos
    BY <1>0, <2>1 DEF Cursor
  <2>8. /\ reading'.cursor.score = Score(last) /\ reading'.cursor.id = last
        /\ DOMAIN reading'.shown = DOMAIN old \cup Page
        /\ \A v \in DOMAIN old \cup Page : reading'.shown[v] = IF v \in Page THEN Score(v) ELSE Limited(v)
    BY <2>3
  <2>9. reading'.cursor # NoCursor
    BY <2>5, <2>8 DEF NoCursor
  <2> HIDE DEF old
  <2> QED
    BY <2>5, <2>6, <2>7, <2>8, <2>9 DEF Cursor
<1>2. ASSUME reading' = reading PROVE Cursor'
  BY <1>0, <1>2 DEF Cursor
<1>3. CASE Answer /\ Page = {}
  BY <1>2, <1>3 DEF Answer
<1>4. CASE \E v \in Videos : Publish(v) \/ Delete(v) \/ RecordExposed(v) \/ RecordPlay(v)
  BY <1>2, <1>4 DEF Publish, Delete, RecordExposed, RecordPlay, Changes
<1>5. CASE (\E S \in SUBSET Videos : SaveExposures(S)) \/ NextMinute \/ UNCHANGED vars
  BY <1>2, <1>5 DEF SaveExposures, NextMinute, Changes, vars
<1>6. CASE \E r \in Routes : Send(r) \/ RouteFails(r) \/ Receive(r)
  BY <1>2, <1>6 DEF Send, RouteFails, Receive
<1>7. CASE Ask \/ Tick \/ EndWait \/ GiveUp \/ AskFails
  BY <1>2, <1>7 DEF Ask, Tick, EndWait, GiveUp, AskFails
<1>8. CASE \E pool \in SUBSET Videos : Exclude(pool)
  BY <1>2, <1>8 DEF Exclude
<1> QED
  BY <1>1, <1>3, <1>4, <1>5, <1>6, <1>7, <1>8 DEF Next

\* Exposures are only added, and the pool is chosen without those there are.
LEMMA FreshStep == Inv /\ [Next]_vars => Fresh'
<1> SUFFICES ASSUME Inv, [Next]_vars PROVE Fresh'
  OBVIOUS
<1>0. Types /\ Fresh /\ ask \in Asks
  BY DEF Inv, Types
<1>1. ASSUME ask'.before = ask.before, exposed \subseteq exposed', ask'.pc # "rank" PROVE Fresh'
  BY <1>0, <1>1 DEF Fresh
<1>2. ASSUME ask' = ask, exposed \subseteq exposed' PROVE Fresh'
  BY <1>0, <1>2 DEF Fresh
<1>3. CASE Ask
  BY <1>3 DEF Ask, NoAsk, Rest, Fresh
<1>4. ASSUME NEW r \in Routes, Send(r) PROVE Fresh'
  <2>1. ask'.pc = ask.pc /\ ask'.before = ask.before /\ ask'.pool = ask.pool /\ exposed' = exposed
    BY <1>0, <1>4 DEF Send, Asks, Rest
  <2> QED
    BY <1>0, <2>1 DEF Fresh
<1>5. ASSUME NEW r \in Routes, Receive(r) PROVE Fresh'
  <2>1. ask'.pc # "rank" /\ ask'.before = ask.before /\ exposed' = exposed
    BY <1>0, <1>5 DEF Receive, Collected, Asks, Rest
  <2> QED
    BY <1>1, <2>1
<1>6. CASE Tick \/ EndWait \/ GiveUp
  <2>1. ask'.pc # "rank" /\ ask'.before = ask.before /\ exposed' = exposed
    <3>1. CASE Tick
      BY <1>0, <3>1 DEF Tick, Asks, Rest
    <3>2. CASE EndWait
      BY <1>0, <3>2 DEF EndWait, Asks, Rest
    <3>3. CASE GiveUp
      BY <1>0, <3>3 DEF GiveUp, Collected, Asks, Rest
    <3> QED
      BY <1>6, <3>1, <3>2, <3>3
  <2> QED
    BY <1>1, <2>1
<1>7. ASSUME NEW pool \in SUBSET Videos, Exclude(pool) PROVE Fresh'
  <2>1. ask'.pool = pool /\ ask'.before = ask.before /\ exposed' = exposed
    BY <1>0, <1>7 DEF Exclude, Asks, Rest
  <2>2. pool \cap exposed = {}
    BY <1>0, <1>7, MergeType DEF Exclude
  <2> QED
    BY <1>0, <2>1, <2>2 DEF Fresh
<1>8. CASE Answer \/ AskFails
  <2>1. ask' = NoAsk
    BY <1>8 DEF Answer, AskFails
  <2> QED
    BY <2>1 DEF Fresh, NoAsk
<1>9. CASE (\E v \in Videos : Publish(v) \/ Delete(v) \/ RecordExposed(v) \/ RecordPlay(v))
           \/ (\E S \in SUBSET Videos : SaveExposures(S)) \/ NextMinute
           \/ (\E r \in Routes : RouteFails(r)) \/ UNCHANGED vars
  <2>1. ask' = ask /\ exposed \subseteq exposed'
    BY <1>9 DEF Publish, Delete, RecordExposed, RecordPlay, SaveExposures, NextMinute, Changes,
                RouteFails, Rest, vars
  <2> QED
    BY <1>2, <2>1
<1> QED
  BY <1>3, <1>4, <1>5, <1>6, <1>7, <1>8, <1>9 DEF Next

-----------------------------------------------------------------------------
(* Theorems.                                                               *)

\* Every part of the invariant holds of every state.
THEOREM Invariant == Spec => []Inv
<1>1. Inv /\ [Next]_vars => Inv'
  BY TypeStep, TimingStep, ChannelStep, CursorStep, FreshStep DEF Inv
<1> QED
  BY <1>1, InitInv, PTL DEF Spec

\* Recommend answers in bounded time, whatever the routes do.
THEOREM BoundedAnswer == Spec => []AnswerBounded
<1>1. Inv => AnswerBounded
  <2> SUFFICES ASSUME Inv, ask.pc \in {"wait", "collect"}
               PROVE  ask.age <= IF ask.late THEN WaitTime + Cardinality(Routes) * CollectTime
                                             ELSE RouteTime + CollectTime
    BY DEF AnswerBounded
  <2>1. /\ RouteTime \in Nat /\ WaitTime \in Nat /\ CollectTime \in Nat /\ Cardinality(Routes) = 3
    BY RecommendAssumption, RouteCount
  <2>2. ask.age \in Nat /\ ask.waited \in Nat /\ ask.got \in SUBSET Routes
    BY DEF Inv, Types, Asks
  <2>3. CASE ask.pc = "wait"
    <3>1. ask.age = ask.waited /\ ask.waited <= WaitTime /\ (ask.late \/ ask.age <= RouteTime)
      BY <2>3 DEF Inv, Timing
    <3> QED
      BY <2>1, <2>2, <3>1
  <2>4. CASE ask.pc = "collect"
    <3>1. /\ ask.got # Routes /\ ask.waited <= CollectTime
          /\ ask.age <= WaitTime + Cardinality(ask.got) * CollectTime + ask.waited
          /\ ask.late \/ ask.age <= RouteTime + ask.waited
      BY <2>4 DEF Inv, Timing
    <3>2. PICK n \in 0..2 : n = Cardinality(ask.got)
      BY <2>2, <3>1, RouteCount
    <3>3. n * CollectTime + CollectTime <= 3 * CollectTime /\ n * CollectTime \in Nat
      <4>1. CASE n = 0
        BY <2>1, <4>1
      <4>2. CASE n = 1
        BY <2>1, <4>2
      <4>3. CASE n = 2
        BY <2>1, <4>3
      <4> QED
        BY <4>1, <4>2, <4>3
    <3>4. CASE ask.late
      <4>1. ask.age <= WaitTime + n * CollectTime + ask.waited
        BY <3>1, <3>2
      <4>2. ask.age <= WaitTime + 3 * CollectTime
        BY <2>1, <2>2, <3>1, <3>3, <4>1
      <4> QED
        BY <2>1, <3>4, <4>2
    <3>5. CASE ~ask.late
      BY <2>1, <2>2, <3>1, <3>5
    <3> QED
      BY <3>4, <3>5
  <2> QED
    BY <2>3, <2>4
<1> QED
  BY <1>1, Invariant, PTL

\* No result that came in time is left out of the merge.
THEOREM InTimeIsCounted == Spec => []OnTimeCounted
<1>1. Inv => OnTimeCounted
  BY DEF Inv, Channel, OnTimeCounted
<1> QED
  BY <1>1, Invariant, PTL

\* A page has nothing exposed before, and of what this reading was shown only
\* what has lost score since, but for the near ties that sameScore lets through.
THEOREM PagesAreNew == Spec => OnlyNew
<1>1. Inv /\ [Next]_vars =>
        [Answer => \A v \in Page : /\ v \notin ask.before
                                   /\ v \in DOMAIN reading.shown => Score(v) < Limited(v)]_vars
  <2> SUFFICES ASSUME Inv, Answer, NEW v \in Page
               PROVE  /\ v \notin ask.before
                      /\ v \in DOMAIN reading.shown => Score(v) < Limited(v)
    OBVIOUS
  <2>1. v \in ask.pool /\ v \in Videos /\ v \in Nat /\ Score(v) \in Int
    BY PageFacts, RecommendAssumption DEF Inv
  <2>2. v \notin ask.before
    BY <2>1 DEF Inv, Fresh, Answer
  <2>3. ASSUME v \in DOMAIN reading.shown PROVE Score(v) < Limited(v)
    BY <2>1, <2>3, PageBehind DEF Inv
  <2> QED
    BY <2>2, <2>3
<1> QED
  BY <1>1, Invariant, PTL DEF Spec, OnlyNew
=============================================================================
