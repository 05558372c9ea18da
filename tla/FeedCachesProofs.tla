-------------------------- MODULE FeedCachesProofs --------------------------
(***************************************************************************)
(* Proofs about FeedCards and HotWindow, for any number of videos,         *)
(* requests and clients and for any lifetimes that satisfy the assumptions *)
(* of the two modules.                                                     *)
(***************************************************************************)
EXTENDS FeedCards, HotWindow, TLAPS

-----------------------------------------------------------------------------
(* FeedCards: types.                                                       *)

LEMMA Sizes ==
    /\ CardTTL \in Nat /\ CardTTL > 0 /\ MarkerTTL \in Nat /\ MaxRun \in Nat /\ MaxRun > 0
    /\ CardTTL + MaxRun <= MarkerTTL
    /\ Horizon \in Nat /\ Forever \in Nat /\ Horizon = CardTTL + 2 * MaxRun
    /\ Forever = MarkerTTL + 1
BY FeedCardsAssumption DEF Horizon, Forever

\* The type of the locals of a request.
Req == [pc : {"idle", "filter", "cached", "load", "store", "answer", "preheat", "keep"},
        age : 0..MaxRun, ids : SUBSET Videos, due : SUBSET Videos,
        held : [Videos -> Wrong \cup {NoCopy}], loaded : SUBSET Videos]

Card == [left : 0..CardTTL, wrong : Wrong]

LEMMA OlderType ==
    ASSUME NEW w \in Wrong \cup {NoCopy}
    PROVE  /\ Older(w) \in Wrong \cup {NoCopy} /\ Spoiled(w) \in Wrong \cup {NoCopy}
           /\ w \in Wrong => Older(w) \in Wrong /\ Spoiled(w) \in Wrong
           /\ Older(w) = NoCopy <=> w = NoCopy
           /\ Spoiled(w) = NoCopy <=> w = NoCopy
           /\ Older(w) <= w + 1 /\ w <= Older(w)
           /\ w # 0 => Spoiled(w) = w
           /\ w = 0 => Older(w) = 0 /\ Spoiled(w) = 1
BY Sizes DEF Older, Spoiled, Wrong, NoCopy

LEMMA IdleType == Idle \in Req /\ NoCard \in Card
BY Sizes DEF Idle, Req, NoCopies, NoCard, Card, Wrong

\* What Spoil leaves and what it changes.
LEMMA SpoilFacts ==
    ASSUME TypeOK, NEW S \in SUBSET Videos, Spoil(S)
    PROVE  /\ card' \in [Videos -> Card] /\ req' \in [Requests -> Req]
           /\ \A v \in Videos : /\ card'[v].left = card[v].left
                                /\ card'[v].wrong = card[v].wrong \/ card'[v].wrong = 1
           /\ \A r \in Requests :
                /\ req'[r].pc = req[r].pc /\ req'[r].age = req[r].age
                /\ req'[r].ids = req[r].ids /\ req'[r].due = req[r].due
                /\ req'[r].loaded = req[r].loaded
                /\ \A v \in Videos : /\ req'[r].held[v] = NoCopy <=> req[r].held[v] = NoCopy
                                     /\ req'[r].held[v] = req[r].held[v] \/ req'[r].held[v] = 1
<1>1. \A v \in Videos :
        card'[v] = IF v \in S /\ card[v].left > 0
                     THEN [card[v] EXCEPT !.wrong = Spoiled(card[v].wrong)] ELSE card[v]
  BY DEF Spoil
<1>2. \A v \in Videos : card[v] \in Card
  BY DEF TypeOK, Card
<1>3. ASSUME NEW v \in Videos
      PROVE  /\ card'[v] \in Card /\ card'[v].left = card[v].left
             /\ card'[v].wrong = card[v].wrong \/ card'[v].wrong = 1
  <2>1. card[v] \in [left : 0..CardTTL, wrong : Wrong] /\ card[v].wrong \in Wrong
    BY <1>2 DEF Card
  <2>2. /\ Spoiled(card[v].wrong) \in Wrong
        /\ Spoiled(card[v].wrong) = card[v].wrong \/ Spoiled(card[v].wrong) = 1
    BY <2>1, OlderType
  <2> QED BY <1>1, <2>1, <2>2 DEF Card
<1>4. \A r \in Requests : req[r] \in Req
  BY DEF TypeOK, Req
<1>5. ASSUME NEW r \in Requests
      PROVE  /\ req'[r] \in Req
             /\ req'[r].pc = req[r].pc /\ req'[r].age = req[r].age
             /\ req'[r].ids = req[r].ids /\ req'[r].due = req[r].due
             /\ req'[r].loaded = req[r].loaded
             /\ \A v \in Videos : /\ req'[r].held[v] = NoCopy <=> req[r].held[v] = NoCopy
                                  /\ req'[r].held[v] = req[r].held[v] \/ req'[r].held[v] = 1
  <2> DEFINE h == [v \in Videos |-> IF v \in S THEN Spoiled(req[r].held[v]) ELSE req[r].held[v]]
  <2>1. req'[r] = IF Running(r) THEN [req[r] EXCEPT !.held = h] ELSE req[r]
    BY DEF Spoil
  <2>2. req[r] \in Req
    BY <1>4
  <2>3. \A v \in Videos : req[r].held[v] \in Wrong \cup {NoCopy}
    BY <2>2 DEF Req
  <2>4. ASSUME NEW v \in Videos
        PROVE  /\ h[v] \in Wrong \cup {NoCopy}
               /\ h[v] = NoCopy <=> req[r].held[v] = NoCopy
               /\ h[v] = req[r].held[v] \/ h[v] = 1
    BY <2>3, OlderType
  <2>5. h \in [Videos -> Wrong \cup {NoCopy}]
    BY <2>4
  <2>6. CASE Running(r)
    <3> HIDE DEF h
    <3> QED BY <2>1, <2>2, <2>4, <2>5, <2>6 DEF Req
  <2>7. CASE ~Running(r)
    BY <2>1, <2>2, <2>7
  <2> QED BY <2>6, <2>7
<1>6. card' \in [Videos -> Card] /\ req' \in [Requests -> Req]
  <2>1. DOMAIN card' = Videos /\ card' = [v \in Videos |-> card'[v]]
    BY DEF Spoil
  <2>2. DOMAIN req' = Requests /\ req' = [r \in Requests |-> req'[r]]
    BY DEF Spoil
  <2> QED BY <1>3, <1>5, <2>1, <2>2
<1> QED BY <1>3, <1>5, <1>6

-----------------------------------------------------------------------------
(* FeedCards: the invariant.                                               *)

\* No copy of the card of a marked video is left that could come to be shown.
Gone(v) ==
    /\ v \in marked
    /\ card[v].left = 0
    /\ \A r \in Requests : v \notin req[r].loaded

\* The marker outlives what is in Redis, and is there.
CardOK(v) ==
    card[v].left > 0 =>
        /\ v \in marked => v \in marker.members /\ marker.left >= card[v].left
        /\ card[v].wrong <= 1 + MaxRun + CardTTL - card[v].left

\* It outlives what the request may store; the videos the request had to leave
\* out have no copy any more; what it holds is as old as its own time and the
\* life of a card allow.
RequestOK(q) ==
    /\ q.due \subseteq marked
    /\ q.pc = "filter" => \A v \in Videos : q.held[v] = NoCopy
    /\ q.pc \in {"cached", "load", "store", "answer"} =>
            \A v \in q.due \cap q.ids : q.held[v] = NoCopy /\ Gone(v)
    /\ q.loaded # {} => q.pc \in {"store", "keep"}
    /\ \A v \in q.loaded :
            /\ v \in marked => v \in marker.members /\ marker.left >= CardTTL + MaxRun - q.age
            /\ q.held[v] \in Wrong /\ q.held[v] <= 1 + q.age
    /\ \A v \in Videos : q.held[v] <= CardTTL + MaxRun + q.age

Deleting ==
    /\ marked \subseteq deleted
    /\ \A d \in Deletes : del[d] = "mark" => VideoOf[d] \in deleted

Inv ==
    /\ TypeOK
    /\ Deleting
    /\ \A v \in Videos : CardOK(v)
    /\ \A r \in Requests : RequestOK(req[r])

LEMMA IdleOK == RequestOK(Idle)
BY Sizes DEF RequestOK, Idle, NoCopies, NoCopy

LEMMA InitInv == Init => Inv
<1> SUFFICES ASSUME Init PROVE Inv
  OBVIOUS
<1>1. TypeOK
  <2>1. card \in [Videos -> Card] /\ req \in [Requests -> Req]
    BY IdleType DEF Init
  <2> QED BY <2>1, Sizes DEF Init, TypeOK, Card, Req
<1>2. \A v \in Videos : CardOK(v)
  BY DEF Init, CardOK, NoCard
<1>3. \A r \in Requests : RequestOK(req[r])
  BY IdleOK DEF Init
<1> QED BY <1>1, <1>2, <1>3 DEF Init, Inv, Deleting

\* A step of one request that changes no more than its locals.
LEMMA RequestStep ==
    ASSUME Inv, NEW r \in Requests, NEW q \in Req,
           req' = [req EXCEPT ![r] = q],
           UNCHANGED <<deleted, card, marker, del, marked>>,
           q.loaded \cap deleted = {},
           RequestOK(q)
    PROVE  Inv'
<1>1. req \in [Requests -> Req] /\ req' \in [Requests -> Req]
  BY DEF Inv, TypeOK, Req
<1>2. TypeOK'
  BY <1>1 DEF Inv, TypeOK, Req
<1>3. req'[r] = q /\ \A o \in Requests \ {r} : req'[o] = req[o]
  BY <1>1
<1>4. ASSUME NEW v, Gone(v) PROVE Gone(v)'
  <2>1. v \in deleted
    BY <1>4 DEF Gone, Inv, Deleting
  <2> QED BY <1>3, <1>4, <2>1 DEF Gone
<1>5. ASSUME NEW o \in Requests PROVE RequestOK(req[o])'
  <2>1. RequestOK(req'[o])
    BY <1>3 DEF Inv
  <2> QED BY <1>4, <2>1 DEF RequestOK
<1>6. (\A v \in Videos : CardOK(v))'
  BY DEF Inv, CardOK
<1> QED BY <1>2, <1>5, <1>6 DEF Inv, Deleting

\* A step that leaves request and card as they are.
LEMMA MarkerStep ==
    ASSUME Inv, TypeOK', Deleting', UNCHANGED <<card, req>>, marked \subseteq marked',
           marker.members \subseteq marker'.members,
           marked' # marked => marker'.left >= MarkerTTL /\ marked' \ marked \subseteq marker'.members,
           marked' = marked => marker'.left >= marker.left \/ marker'.left >= MarkerTTL
    PROVE  Inv'
<1>1. marker'.left \in Nat /\ marker.left \in Nat
  BY Sizes DEF Inv, TypeOK
<1>2. ASSUME NEW v \in Videos PROVE CardOK(v)'
  <2>1. card[v] \in Card
    BY DEF Inv, TypeOK, Card
  <2> QED BY <1>1, <2>1, Sizes DEF Inv, CardOK, Card
<1>3. ASSUME NEW v, Gone(v) PROVE Gone(v)'
  BY <1>3 DEF Gone
<1>4. ASSUME NEW r \in Requests PROVE RequestOK(req[r])'
  <2>1. req[r] \in Req /\ RequestOK(req[r])
    BY DEF Inv, TypeOK, Req
  <2>2. req[r].age \in 0..MaxRun
    BY <2>1 DEF Req
  <2> QED BY <1>1, <1>3, <2>1, <2>2, Sizes DEF RequestOK
<1> QED BY <1>2, <1>4 DEF Inv

\* MySQL changes.
LEMMA SpoilStep ==
    ASSUME Inv, NEW S \in SUBSET Videos, Spoil(S), Deleting', deleted' \in SUBSET Videos,
           del' \in [Deletes -> {"ready", "update", "mark", "over"}],
           UNCHANGED <<marker, marked>>
    PROVE  Inv'
<1>1. /\ card' \in [Videos -> Card] /\ req' \in [Requests -> Req]
      /\ \A v \in Videos : /\ card'[v].left = card[v].left
                           /\ card'[v].wrong = card[v].wrong \/ card'[v].wrong = 1
      /\ \A r \in Requests :
           /\ req'[r].pc = req[r].pc /\ req'[r].age = req[r].age
           /\ req'[r].ids = req[r].ids /\ req'[r].due = req[r].due
           /\ req'[r].loaded = req[r].loaded
           /\ \A v \in Videos : /\ req'[r].held[v] = NoCopy <=> req[r].held[v] = NoCopy
                                /\ req'[r].held[v] = req[r].held[v] \/ req'[r].held[v] = 1
  BY SpoilFacts DEF Inv
<1>2. TypeOK'
  BY <1>1 DEF Inv, TypeOK, Card, Req
<1>3. ASSUME NEW v \in Videos PROVE CardOK(v)'
  <2>1. CardOK(v) /\ card[v] \in Card
    BY DEF Inv, TypeOK, Card
  <2> QED BY <1>1, <2>1, Sizes DEF CardOK, Card
<1>4. ASSUME NEW v \in Videos, Gone(v) PROVE Gone(v)'
  BY <1>1, <1>4 DEF Gone
<1>5. ASSUME NEW r \in Requests PROVE RequestOK(req[r])'
  <2>1. req[r] \in Req /\ RequestOK(req[r]) /\ req'[r] \in Req
    BY <1>1 DEF Inv, TypeOK, Req
  <2>2. req[r].age \in 0..MaxRun /\ req'[r].held \in [Videos -> Wrong \cup {NoCopy}]
    BY <2>1 DEF Req
  <2>3. \A v \in req'[r].loaded :
          /\ v \in marked => v \in marker.members /\ marker.left >= CardTTL + MaxRun - req'[r].age
          /\ req'[r].held[v] \in Wrong /\ req'[r].held[v] <= 1 + req'[r].age
    <3> TAKE v \in req'[r].loaded
    <3>1. v \in Videos /\ v \in req[r].loaded
      BY <1>1, <2>1 DEF Req
    <3>2. 0 \in Wrong /\ 1 \in Wrong
      BY Sizes DEF Wrong
    <3> QED BY <1>1, <2>1, <2>2, <3>1, <3>2 DEF RequestOK
  <2>4. \A v \in Videos : req'[r].held[v] <= CardTTL + MaxRun + req'[r].age
    BY <1>1, <2>1, <2>2, Sizes DEF RequestOK
  <2>5. req'[r].pc = "filter" => \A v \in Videos : req'[r].held[v] = NoCopy
    BY <1>1, <2>1 DEF RequestOK
  <2>6. req'[r].pc \in {"cached", "load", "store", "answer"} =>
          \A v \in req'[r].due \cap req'[r].ids : req'[r].held[v] = NoCopy /\ Gone(v)'
    BY <1>1, <1>4, <2>1 DEF RequestOK, Req
  <2> QED BY <1>1, <2>1, <2>3, <2>4, <2>5, <2>6 DEF RequestOK
<1> QED BY <1>2, <1>3, <1>5 DEF Inv

\* A tick.
LEMMA TickStep ==
    ASSUME Inv, Tick
    PROVE  Inv'
<1>1. /\ \A v \in Videos : card[v] \in Card
      /\ \A r \in Requests : req[r] \in Req
      /\ marker.left \in 0..Forever /\ marker.members \in SUBSET Videos
      /\ marker = [members |-> marker.members, left |-> marker.left]
  BY DEF Inv, TypeOK, Card, Req
<1>2. ASSUME NEW v \in Videos
      PROVE  /\ card'[v] \in Card
             /\ card'[v].left > 0 => /\ card'[v].left = card[v].left - 1
                                     /\ card'[v].wrong <= card[v].wrong + 1
             /\ card[v].left = 0 => card'[v].left = 0
  <2>1. card'[v] = Aged(card[v])
    BY DEF Tick
  <2>2. card[v] \in Card /\ card[v].wrong \in Wrong /\ card[v].left \in 0..CardTTL
    BY <1>1 DEF Card
  <2>3. Older(card[v].wrong) \in Wrong /\ Older(card[v].wrong) <= card[v].wrong + 1
    BY <2>2, OlderType
  <2> QED BY <2>1, <2>2, <2>3, IdleType, Sizes DEF Aged, NoCard, Card
<1>3. ASSUME NEW r \in Requests
      PROVE  /\ req'[r] \in Req
             /\ req'[r].pc = req[r].pc /\ req'[r].ids = req[r].ids /\ req'[r].due = req[r].due
             /\ req'[r].loaded = req[r].loaded
             /\ \/ Running(r) /\ req[r].age < MaxRun /\ req'[r].age = req[r].age + 1
                \/ ~Running(r) /\ req'[r] = req[r]
             /\ \A v \in Videos :
                  /\ req'[r].held[v] = NoCopy <=> req[r].held[v] = NoCopy
                  /\ req[r].held[v] \in Wrong => req'[r].held[v] \in Wrong
                  /\ Running(r) => req'[r].held[v] <= req[r].held[v] + 1
  <2> DEFINE h == [v \in Videos |-> Older(req[r].held[v])]
  <2>1. req[r] \in Req /\ req[r].age \in 0..MaxRun
        /\ \A v \in Videos : req[r].held[v] \in Wrong \cup {NoCopy}
    BY <1>1 DEF Req
  <2>2. ASSUME NEW v \in Videos
        PROVE  /\ h[v] \in Wrong \cup {NoCopy}
               /\ h[v] = NoCopy <=> req[r].held[v] = NoCopy
               /\ req[r].held[v] \in Wrong => h[v] \in Wrong
               /\ h[v] <= req[r].held[v] + 1
    BY <2>1, OlderType
  <2>3. h \in [Videos -> Wrong \cup {NoCopy}]
    BY <2>2
  <2>4. CASE Running(r)
    <3>1. req[r].age < MaxRun /\ req'[r] = [req[r] EXCEPT !.age = @ + 1, !.held = h]
      BY <2>4 DEF Tick
    <3>2. req[r].age + 1 \in 0..MaxRun
      BY <2>1, <3>1, Sizes
    <3> HIDE DEF h
    <3> QED BY <2>1, <2>2, <2>3, <2>4, <3>1, <3>2 DEF Req
  <2>5. CASE ~Running(r)
    BY <2>1, <2>5 DEF Tick
  <2> QED BY <2>4, <2>5
<1>4. marker' = CASE marker.left \in {0, Forever} -> marker
                  [] marker.left = 1 -> [members |-> {}, left |-> 0]
                  [] OTHER -> [marker EXCEPT !.left = @ - 1]
  BY DEF Tick
<1>5. /\ marker' \in [members : SUBSET Videos, left : 0..Forever]
      /\ marker.left > 1 => /\ marker'.members = marker.members
                            /\ marker'.left >= marker.left - 1
                            /\ marker.left = Forever => marker'.left = Forever
  <2>1. CASE marker.left \in {0, Forever}
    BY <1>1, <1>4, <2>1, Sizes
  <2>2. CASE marker.left = 1 /\ marker.left \notin {0, Forever}
    BY <1>1, <1>4, <2>2, Sizes
  <2>3. CASE marker.left \notin {0, 1, Forever}
    <3>1. marker' = [members |-> marker.members, left |-> marker.left - 1]
      BY <1>1, <1>4, <2>3
    <3> QED BY <1>1, <2>3, <3>1, Sizes
  <2> QED BY <2>1, <2>2, <2>3
<1>6. TypeOK'
  <2>1. card' \in [Videos -> Card]
    BY <1>2 DEF Tick
  <2>2. req' \in [Requests -> Req]
    BY <1>3 DEF Tick
  <2> QED BY <1>5, <2>1, <2>2 DEF Inv, TypeOK, Tick, Card, Req
<1>7. ASSUME NEW v \in Videos PROVE CardOK(v)'
  <2>1. CardOK(v) /\ card[v].left \in 0..CardTTL /\ card[v].wrong \in Wrong
        /\ card'[v].wrong \in Wrong /\ marker'.left \in Nat
    BY <1>1, <1>2, <1>5, Sizes DEF Inv, Card
  <2>2. marked' = marked
    BY DEF Tick
  <2>3. card'[v].left > 0 => card'[v].wrong <= 1 + MaxRun + CardTTL - card'[v].left
    BY <1>2, <2>1, Sizes DEF CardOK, Wrong
  <2>4. card'[v].left > 0 /\ v \in marked =>
            v \in marker'.members /\ marker'.left >= card'[v].left
    BY <1>1, <1>2, <1>5, <2>1, Sizes DEF CardOK
  <2> QED BY <2>2, <2>3, <2>4 DEF CardOK
<1>8. ASSUME NEW v \in Videos, Gone(v) PROVE Gone(v)'
  BY <1>2, <1>3, <1>8 DEF Gone, Tick
<1>9. ASSUME NEW r \in Requests PROVE RequestOK(req[r])'
  <2>1. req[r] \in Req /\ RequestOK(req[r]) /\ req'[r] \in Req
    BY <1>1, <1>3 DEF Inv
  <2>2. /\ req[r].age \in 0..MaxRun
        /\ \A v \in Videos : req[r].held[v] \in Int /\ req'[r].held[v] \in Int
    BY <2>1, Sizes DEF Req, Wrong, NoCopy
  <2>3. ASSUME NEW v \in req'[r].loaded
        PROVE  /\ v \in marked => /\ v \in marker'.members
                                  /\ marker'.left >= CardTTL + MaxRun - req'[r].age
               /\ req'[r].held[v] \in Wrong /\ req'[r].held[v] <= 1 + req'[r].age
    <3>1. v \in Videos /\ v \in req[r].loaded
      BY <1>3, <2>1 DEF Req
    <3>2. Running(r)
      BY <2>1, <3>1 DEF RequestOK, Running
    <3>3. /\ v \in marked => v \in marker.members /\ marker.left >= CardTTL + MaxRun - req[r].age
          /\ req[r].held[v] \in Wrong /\ req[r].held[v] <= 1 + req[r].age
      BY <2>1, <3>1 DEF RequestOK
    <3>4. v \in marked => marker.left > 1
      BY <1>1, <1>3, <2>2, <3>2, <3>3, Sizes
    <3>5. marker'.left \in Nat
      BY <1>5, Sizes
    <3> QED BY <1>1, <1>3, <1>5, <2>2, <3>1, <3>2, <3>3, <3>4, <3>5, Sizes
  <2>4. \A v \in Videos : req'[r].held[v] <= CardTTL + MaxRun + req'[r].age
    BY <1>3, <2>1, <2>2, Sizes DEF RequestOK
  <2>5. req'[r].pc \in {"cached", "load", "store", "answer"} =>
          \A v \in req'[r].due \cap req'[r].ids : req'[r].held[v] = NoCopy /\ Gone(v)'
    BY <1>3, <1>8, <2>1 DEF RequestOK, Req
  <2>6. marked' = marked
    BY DEF Tick
  <2> QED BY <1>3, <2>1, <2>3, <2>4, <2>5, <2>6 DEF RequestOK
<1> QED BY <1>6, <1>7, <1>9 DEF Inv, Deleting, Tick

\* A request stores cards it has read from MySQL.
LEMMA StoreStep ==
    ASSUME Inv, NEW r \in Requests, NEW S \in SUBSET req[r].loaded, Store(r, S),
           NEW q \in Req, req' = [req EXCEPT ![r] = q], q.loaded = {}, RequestOK(q),
           UNCHANGED <<deleted, marker, del, marked>>
    PROVE  Inv'
<1>1. req[r] \in Req /\ RequestOK(req[r]) /\ S \subseteq Videos
  BY DEF Inv, TypeOK, Req
<1>2. req'[r] = q /\ \A o \in Requests \ {r} : req'[o] = req[o]
  BY DEF Inv, TypeOK
<1>3. \A v \in Videos :
        card'[v] = IF v \in S THEN [left |-> CardTTL, wrong |-> req[r].held[v]] ELSE card[v]
  BY DEF Store
<1>4. ASSUME NEW v \in Videos PROVE CardOK(v)' /\ card'[v] \in Card
  <2>1. CardOK(v) /\ card[v] \in Card
    BY DEF Inv, TypeOK, Card
  <2>2. CASE v \in S
    <3>1. /\ v \in marked => v \in marker.members /\ marker.left >= CardTTL + MaxRun - req[r].age
          /\ req[r].held[v] \in Wrong /\ req[r].held[v] <= 1 + req[r].age
          /\ req[r].age \in 0..MaxRun /\ marker.left \in Nat
      BY <1>1, <2>2, Sizes DEF RequestOK, Req, Inv, TypeOK
    <3>2. card'[v] = [left |-> CardTTL, wrong |-> req[r].held[v]]
      <4> HIDE DEF Store
      <4> QED BY <1>3, <2>2, Zenon
    <3>3. card'[v].left = CardTTL /\ card'[v].wrong = req[r].held[v]
      BY <3>2
    <3>4. card'[v] \in Card
      BY <3>1, <3>2, Sizes DEF Card
    <3> QED BY <3>1, <3>3, <3>4, Sizes DEF CardOK, Wrong
  <2>3. CASE v \notin S
    BY <1>3, <2>1, <2>3 DEF CardOK
  <2> QED BY <2>2, <2>3
<1>5. ASSUME NEW v \in Videos, Gone(v) PROVE Gone(v)'
  <2>1. v \notin S
    BY <1>5 DEF Gone
  <2> QED BY <1>2, <1>3, <1>5, <2>1 DEF Gone
<1>6. ASSUME NEW o \in Requests PROVE RequestOK(req[o])'
  <2>1. RequestOK(req'[o]) /\ req'[o] \in Req
    BY <1>2 DEF Inv, TypeOK, Req
  <2> QED BY <1>5, <2>1 DEF RequestOK, Req
<1>7. TypeOK'
  <2>1. card' \in [Videos -> Card]
    BY <1>4 DEF Store
  <2>2. req' \in [Requests -> Req]
    BY DEF Inv, TypeOK, Req
  <2> QED BY <2>1, <2>2 DEF Inv, TypeOK, Card, Req
<1> QED BY <1>4, <1>6, <1>7 DEF Inv, Deleting

\* The steps of a request.
LEMMA RequestInv ==
    ASSUME Inv, NEW r \in Requests,
           \/ \E ids \in SUBSET Videos : Begin(r, ids)
           \/ Filter(r) \/ FilterFails(r) \/ GetCards(r) \/ GetCardsFails(r)
           \/ BatchGetFeedCards(r) \/ SetCards(r) \/ Answer(r)
           \/ \E v \in Videos : Preheat(r, v)
           \/ PreheatRead(r) \/ PreheatStore(r) \/ Fails(r)
    PROVE  Inv'
<1> USE DEF Running
<1>1. req \in [Requests -> Req] /\ req[r] \in Req /\ RequestOK(req[r])
  BY DEF Inv, TypeOK, Req
<1>2. Idle \in Req /\ RequestOK(Idle)
  BY IdleType, IdleOK
<1>3. /\ req[r].age \in 0..MaxRun /\ req[r].ids \subseteq Videos
      /\ req[r].held \in [Videos -> Wrong \cup {NoCopy}]
      /\ req[r].loaded \subseteq Videos
  BY <1>1 DEF Req
<1>4. ASSUME NEW ids \in SUBSET Videos, Begin(r, ids) PROVE Inv'
  <2> DEFINE q == [Idle EXCEPT !.pc = "filter", !.ids = ids, !.due = marked \cap ids]
  <2>1. req' = [req EXCEPT ![r] = q] /\ q \in Req /\ q.loaded = {}
    BY <1>2, <1>4 DEF Begin, Idle, Req
  <2>2. RequestOK(q)
    BY <1>2 DEF RequestOK, Idle, NoCopies
  <2> HIDE DEF q
  <2> QED BY <1>4, <2>1, <2>2, RequestStep DEF Begin
<1>5. CASE Filter(r)
  <2> DEFINE q == [req[r] EXCEPT !.ids = Kept(@),
                                 !.pc = IF Kept(req[r].ids) = {} THEN "answer" ELSE "cached"]
  <2>1. req' = [req EXCEPT ![r] = q] /\ q \in Req /\ q.loaded = {}
    BY <1>1, <1>5 DEF Filter, Kept, Req, RequestOK
  <2>2. /\ q.due = req[r].due /\ q.ids = req[r].ids \ marker.members /\ q.held = req[r].held
        /\ q.age = req[r].age /\ q.pc \in {"answer", "cached"}
    BY <1>1 DEF Kept, Req
  <2>3. ASSUME NEW v \in q.due \cap q.ids PROVE q.held[v] = NoCopy /\ Gone(v)
    <3>1. v \in Videos /\ v \in marked /\ v \notin marker.members
      BY <1>1, <1>3, <2>2 DEF RequestOK
    <3>2. card[v].left = 0
      BY <3>1 DEF Inv, TypeOK, CardOK
    <3>3. \A o \in Requests : v \notin req[o].loaded
      BY <3>1 DEF Inv, RequestOK
    <3>4. q.held[v] = NoCopy
      BY <1>1, <1>5, <2>2, <3>1 DEF RequestOK, Filter
    <3> QED BY <3>1, <3>2, <3>3, <3>4 DEF Gone
  <2>4. RequestOK(q)
    BY <1>1, <2>1, <2>2, <2>3 DEF RequestOK
  <2> HIDE DEF q
  <2> QED BY <1>5, <2>1, <2>4, RequestStep DEF Filter
<1>6. CASE FilterFails(r)
  <2> DEFINE q == [req[r] EXCEPT !.pc = "cached", !.due = {}]
  <2>1. req' = [req EXCEPT ![r] = q] /\ q \in Req /\ q.loaded = {}
    BY <1>1, <1>6 DEF FilterFails, Req, RequestOK
  <2>2. RequestOK(q)
    BY <1>1, <2>1 DEF RequestOK, Req
  <2> HIDE DEF q
  <2> QED BY <1>6, <2>1, <2>2, RequestStep DEF FilterFails
<1>7. CASE GetCards(r)
  <2> DEFINE hits == {v \in req[r].ids : card[v].left > 0}
             h == [v \in Videos |-> IF v \in hits THEN card[v].wrong ELSE NoCopy]
             q == [req[r] EXCEPT !.held = h, !.pc = IF hits = req[r].ids THEN "answer" ELSE "load"]
  <2>1. \A v \in Videos : card[v] \in Card /\ CardOK(v)
    BY DEF Inv, TypeOK, Card
  <2>2. h \in [Videos -> Wrong \cup {NoCopy}]
    BY <2>1 DEF Card
  <2>3. req' = [req EXCEPT ![r] = q]
    BY <1>7 DEF GetCards
  <2>4. /\ q \in Req /\ q.loaded = {} /\ q.held = h /\ q.due = req[r].due /\ q.ids = req[r].ids
        /\ q.age = req[r].age /\ q.pc \in {"answer", "load"}
    <3> HIDE DEF h, hits
    <3> QED BY <1>1, <1>7, <2>2 DEF GetCards, Req, RequestOK
  <2>5. ASSUME NEW v \in q.due \cap q.ids PROVE q.held[v] = NoCopy /\ Gone(v)
    <3>1. Gone(v) /\ v \in Videos
      BY <1>1, <1>3, <1>7, <2>4 DEF RequestOK, GetCards
    <3> QED BY <2>4, <3>1 DEF Gone
  <2>6. \A v \in Videos : q.held[v] <= CardTTL + MaxRun + q.age
    BY <1>3, <2>1, <2>4, Sizes DEF CardOK, Card, Wrong, NoCopy
  <2>7. RequestOK(q)
    <3> HIDE DEF q
    <3> QED BY <1>1, <2>4, <2>5, <2>6 DEF RequestOK
  <2> HIDE DEF q
  <2> QED BY <1>7, <2>3, <2>4, <2>7, RequestStep DEF GetCards
<1>8. CASE GetCardsFails(r)
  <2> DEFINE q == [req[r] EXCEPT !.pc = "load"]
  <2>1. req' = [req EXCEPT ![r] = q] /\ q \in Req /\ q.loaded = {}
    BY <1>1, <1>8 DEF GetCardsFails, Req, RequestOK
  <2>2. RequestOK(q)
    BY <1>1, <1>8, <2>1 DEF RequestOK, Req, GetCardsFails
  <2> HIDE DEF q
  <2> QED BY <1>8, <2>1, <2>2, RequestStep DEF GetCardsFails
<1>9. ASSUME NEW next \in {"store", "keep"}, Loaded(r, next), req[r].pc \in {"load", "preheat"},
             req[r].pc = "load" <=> next = "store",
             UNCHANGED <<deleted, card, marker, del, marked>>
      PROVE  Inv'
  <2> DEFINE found == Read(Missing(r))
             h == [v \in Videos |-> IF v \in found THEN 0 ELSE req[r].held[v]]
             q == [req[r] EXCEPT !.held = h, !.loaded = found, !.pc = next]
  <2>1. found \subseteq Videos \ deleted
    BY <1>3 DEF Read, Missing
  <2>2. 0 \in Wrong
    BY Sizes DEF Wrong
  <2>3. h \in [Videos -> Wrong \cup {NoCopy}]
    BY <1>3, <2>2
  <2>4. req' = [req EXCEPT ![r] = q]
    BY <1>9 DEF Loaded
  <2>5. /\ q \in Req /\ q.loaded = found /\ q.held = h /\ q.due = req[r].due
        /\ q.ids = req[r].ids /\ q.age = req[r].age /\ q.pc = next
    <3> HIDE DEF h, found
    <3> QED BY <1>1, <2>1, <2>3 DEF Req
  <2>6. marked \subseteq deleted
    BY DEF Inv, Deleting
  <2>7. next = "store" =>
          \A v \in q.due \cap q.ids : q.held[v] = NoCopy /\ Gone(v)
    <3> SUFFICES ASSUME next = "store", NEW v \in q.due \cap q.ids
                 PROVE  q.held[v] = NoCopy /\ Gone(v)
      OBVIOUS
    <3>1. Gone(v) /\ v \in Videos /\ req[r].held[v] = NoCopy
      BY <1>1, <1>3, <1>9, <2>5 DEF RequestOK
    <3> QED BY <2>1, <2>5, <2>6, <3>1 DEF Gone
  <2>8. \A v \in Videos : q.held[v] <= CardTTL + MaxRun + q.age
    BY <1>1, <1>3, <2>5, Sizes DEF RequestOK
  <2>9. \A v \in q.loaded : v \notin marked /\ q.held[v] \in Wrong /\ q.held[v] <= 1 + q.age
    BY <1>3, <2>1, <2>2, <2>5, <2>6, Sizes
  <2>10. RequestOK(q)
    <3> HIDE DEF q
    <3> QED BY <1>1, <2>5, <2>7, <2>8, <2>9 DEF RequestOK
  <2>11. q.loaded \cap deleted = {}
    BY <2>1, <2>5
  <2> HIDE DEF q
  <2> QED BY <1>9, <2>4, <2>5, <2>10, <2>11, RequestStep
<1>10. CASE BatchGetFeedCards(r)
  BY <1>9, <1>10 DEF BatchGetFeedCards
<1>11. CASE SetCards(r)
  <2> DEFINE q == [req[r] EXCEPT !.pc = "answer", !.loaded = {}]
  <2>1. PICK S \in SUBSET req[r].loaded : Store(r, S)
    BY <1>11 DEF SetCards, Storable
  <2>2. req' = [req EXCEPT ![r] = q] /\ q \in Req /\ q.loaded = {}
    BY <1>1, <1>11 DEF SetCards, Req
  <2>3. RequestOK(q)
    BY <1>1, <1>11, <2>2 DEF SetCards, RequestOK, Req
  <2> HIDE DEF q
  <2> QED BY <1>11, <2>1, <2>2, <2>3, StoreStep DEF SetCards
<1>12. CASE PreheatStore(r)
  <2>1. Idle.loaded = {}
    BY DEF Idle
  <2> QED BY <1>2, <1>12, <2>1, StoreStep DEF PreheatStore
<1>13. CASE Answer(r) \/ Fails(r)
  <2>1. Idle.loaded = {} /\ req' = [req EXCEPT ![r] = Idle]
    BY <1>13 DEF Idle, Answer, Fails
  <2> QED BY <1>2, <1>13, <2>1, RequestStep DEF Answer, Fails
<1>14. ASSUME NEW v \in Videos, Preheat(r, v) PROVE Inv'
  <2> DEFINE q == [Idle EXCEPT !.pc = "preheat", !.ids = {v}]
  <2>1. req' = [req EXCEPT ![r] = q] /\ q \in Req /\ q.loaded = {}
    BY <1>2, <1>14 DEF Preheat, Idle, Req
  <2>2. RequestOK(q)
    BY <1>2 DEF RequestOK, Idle
  <2> HIDE DEF q
  <2> QED BY <1>14, <2>1, <2>2, RequestStep DEF Preheat
<1>15. CASE PreheatRead(r)
  BY <1>9, <1>15 DEF PreheatRead
<1> QED BY <1>4, <1>5, <1>6, <1>7, <1>8, <1>10, <1>11, <1>12, <1>13, <1>14, <1>15

\* The invariant of the cards, their markers and the requests.
THEOREM FeedInv == Spec => []Inv
<1>1. ASSUME Inv, [Next]_vars PROVE Inv'
  <2>1. CASE Tick
    BY <1>1, <2>1, TickStep
  <2>2. CASE UpdateProfile
    BY <1>1, <2>2, SpoilStep DEF UpdateProfile, Inv, TypeOK, Deleting
  <2>3. ASSUME NEW d \in Deletes, Find(d) PROVE Inv'
    <3>1. del' \in [Deletes -> {"ready", "update", "mark", "over"}]
      BY <1>1, <2>3 DEF Find, Inv, TypeOK
    <3>2. TypeOK' /\ Deleting'
      BY <1>1, <2>3, <3>1 DEF Find, Inv, TypeOK, Deleting
    <3>3. marker.left \in Nat
      BY <1>1, Sizes DEF Inv, TypeOK
    <3> QED BY <1>1, <2>3, <3>2, <3>3, MarkerStep DEF Find
  <2>4. ASSUME NEW d \in Deletes, UpdateStatus(d) PROVE Inv'
    <3>1. VideoOf[d] \in Videos
      BY FeedCardsAssumption
    <3>2. del' \in [Deletes -> {"ready", "update", "mark", "over"}]
      BY <1>1, <2>4 DEF UpdateStatus, Inv, TypeOK
    <3>3. Deleting'
      BY <1>1, <2>4 DEF UpdateStatus, Inv, TypeOK, Deleting
    <3> QED BY <1>1, <2>4, <3>1, <3>2, <3>3, SpoilStep DEF UpdateStatus, Inv, TypeOK
  <2>5. ASSUME NEW d \in Deletes, MarkVideoDeleted(d) PROVE Inv'
    <3>1. VideoOf[d] \in Videos
      BY FeedCardsAssumption
    <3>2. marker'.members = marker.members \cup {VideoOf[d]} /\ marker'.left = MarkerTTL
      BY <2>5 DEF MarkVideoDeleted, MarkerFrom
    <3>3. TypeOK'
      <4>1. marker' \in [members : SUBSET Videos, left : 0..Forever]
        BY <1>1, <2>5, <3>1, Sizes DEF MarkVideoDeleted, MarkerFrom, Inv, TypeOK
      <4>2. del' \in [Deletes -> {"ready", "update", "mark", "over"}]
        BY <1>1, <2>5 DEF MarkVideoDeleted, Inv, TypeOK
      <4> QED BY <1>1, <2>5, <3>1, <4>1, <4>2 DEF MarkVideoDeleted, Inv, TypeOK
    <3>4. Deleting'
      BY <1>1, <2>5 DEF MarkVideoDeleted, Inv, TypeOK, Deleting
    <3>5. marked' = marked \cup {VideoOf[d]} /\ UNCHANGED <<card, req>>
      BY <2>5 DEF MarkVideoDeleted
    <3>6. marked' \ marked \subseteq marker'.members /\ marker'.left >= MarkerTTL
      BY <3>2, <3>5, Sizes
    <3> HIDE DEF Deleting, TypeOK
    <3> QED BY <1>1, <3>2, <3>3, <3>4, <3>5, <3>6, MarkerStep
  <2>6. ASSUME NEW d \in Deletes, MarkPartly(d) PROVE Inv'
    <3>1. VideoOf[d] \in Videos
      BY FeedCardsAssumption
    <3>2. marker.left \in 0..Forever /\ marker.members \subseteq Videos
      BY <1>1 DEF Inv, TypeOK
    <3>3. /\ marker'.members = marker.members \cup {VideoOf[d]}
          /\ marker'.left = IF marker.left = 0 THEN Forever ELSE marker.left
      BY <2>6 DEF MarkPartly
    <3>4. TypeOK'
      <4>1. marker' \in [members : SUBSET Videos, left : 0..Forever]
        BY <2>6, <3>1, <3>2, Sizes DEF MarkPartly
      <4>2. del' \in [Deletes -> {"ready", "update", "mark", "over"}]
        BY <1>1, <2>6 DEF MarkPartly, Inv, TypeOK
      <4> QED BY <1>1, <2>6, <4>1, <4>2 DEF MarkPartly, Inv, TypeOK
    <3>5. Deleting'
      BY <1>1, <2>6 DEF MarkPartly, Inv, TypeOK, Deleting
    <3> QED BY <1>1, <2>6, <3>2, <3>3, <3>4, <3>5, Sizes, MarkerStep DEF MarkPartly
  <2>7. ASSUME NEW d \in Deletes, DeleteEnds(d) PROVE Inv'
    <3>1. del' \in [Deletes -> {"ready", "update", "mark", "over"}]
      BY <1>1, <2>7 DEF DeleteEnds, Inv, TypeOK
    <3>2. TypeOK' /\ Deleting'
      BY <1>1, <2>7, <3>1 DEF DeleteEnds, Inv, TypeOK, Deleting
    <3>3. marker.left \in Nat
      BY <1>1, Sizes DEF Inv, TypeOK
    <3> QED BY <1>1, <2>7, <3>2, <3>3, MarkerStep DEF DeleteEnds
  <2>8. ASSUME NEW r \in Requests,
               \/ \E ids \in SUBSET Videos : Begin(r, ids)
               \/ Filter(r) \/ FilterFails(r) \/ GetCards(r) \/ GetCardsFails(r)
               \/ BatchGetFeedCards(r) \/ SetCards(r) \/ Answer(r)
               \/ \E v \in Videos : Preheat(r, v)
               \/ PreheatRead(r) \/ PreheatStore(r) \/ Fails(r)
        PROVE  Inv'
    BY <1>1, <2>8, RequestInv
  <2>9. CASE UNCHANGED vars
    BY <1>1, <2>9 DEF vars, Inv, TypeOK, Deleting, CardOK, RequestOK, Gone
  <2> QED BY <1>1, <2>1, <2>2, <2>3, <2>4, <2>5, <2>6, <2>7, <2>8, <2>9 DEF Next
<1> QED BY InitInv, <1>1, PTL DEF Spec

\* A video deleted and marked is shown by no feed request that begins after.
THEOREM MarkedIsHidden == Spec => []DeletedHidden
<1>1. Inv => DeletedHidden
  BY DEF Inv, DeletedHidden, RequestOK, Items
<1> QED BY <1>1, FeedInv, PTL

\* A card is never handed on from answer to cache to answer.
THEOREM CardsAreRecent == Spec => []NotStale
<1>1. ASSUME Inv PROVE NotStale
  <2> SUFFICES ASSUME NEW r \in Requests, NEW v \in Items(r)
               PROVE  req[r].held[v] <= Horizon
    BY DEF NotStale
  <2>1. req[r] \in Req /\ RequestOK(req[r])
    BY <1>1 DEF Inv, TypeOK, Req
  <2>2. v \in Videos /\ req[r].age \in 0..MaxRun
    BY <2>1 DEF Items, Req
  <2>3. req[r].held[v] \in Wrong \cup {NoCopy}
    BY <2>1, <2>2 DEF Req
  <2> QED BY <2>1, <2>2, <2>3, Sizes DEF RequestOK, Wrong, NoCopy
<1> QED BY <1>1, FeedInv, PTL

-----------------------------------------------------------------------------
(* HotWindow.                                                              *)

WindowInv == WindowTypeOK /\ WindowsExpire

LEMMA WindowFacts ==
    /\ LastMinute \in Nat /\ BucketTTL \in Nat /\ WindowTTL \in Nat /\ WindowTTL > 0
    /\ Minutes \subseteq Nat /\ 0 \in Minutes
    /\ NoSet.until = 0 /\ DOMAIN NoSet.scores = {} /\ DOMAIN Nothing = {}
BY HotWindowAssumption DEF Minutes, NoSet, Nothing

\* A request moves on.
LEMMA ReaderMoves ==
    ASSUME WindowTypeOK, NEW r \in Readers, NEW pc \in {"ask", "union", "trim", "range"},
           reader' = [reader EXCEPT ![r].pc = pc]
    PROVE  /\ reader' \in [Readers -> [pc : {"closed", "ask", "union", "trim", "range", "ended"},
                                       end : Minutes, offset : Nat]]
           /\ reader'[r].pc = pc
           /\ \A o \in Readers : /\ reader'[o].end = reader[o].end
                                /\ o # r => reader'[o].pc = reader[o].pc
BY DEF WindowTypeOK

\* A builder stores a window without expiry.
LEMMA BuildStep ==
    ASSUME WindowInv, NEW r \in Readers, NEW s, DOMAIN s.scores \subseteq HotVideos, s.until = 0,
           window' = [window EXCEPT ![reader[r].end] = s],
           reader' = [reader EXCEPT ![r].pc = "trim"],
           abandoned' = abandoned \ {reader[r].end},
           UNCHANGED <<now, bucket, credit, ever>>
    PROVE  WindowInv'
<1> USE DEF WindowInv
<1>1. /\ reader' \in [Readers -> [pc : {"closed", "ask", "union", "trim", "range", "ended"},
                                 end : Minutes, offset : Nat]]
      /\ reader'[r].pc = "trim"
  BY ReaderMoves
<1>2. \A o \in Readers : reader'[o].end = reader[o].end /\ (o # r => reader'[o].pc = reader[o].pc)
  BY ReaderMoves
<1>3. reader[r].end \in Minutes /\ DOMAIN window = Minutes
  BY DEF WindowTypeOK
<1>4. /\ DOMAIN window' = Minutes /\ window'[reader[r].end] = s
      /\ \A m \in Minutes \ {reader[r].end} : window'[m] = window[m]
  BY <1>3
<1>5. ASSUME NEW m \in Minutes
      PROVE  DOMAIN window'[m].scores \subseteq HotVideos /\ window'[m].until \in Nat
  <2>1. CASE m = reader[r].end
    BY <1>4, <2>1
  <2>2. CASE m # reader[r].end
    BY <1>4, <2>2 DEF WindowTypeOK
  <2> QED BY <2>1, <2>2
<1>6. WindowTypeOK'
  BY <1>1, <1>4, <1>5 DEF WindowTypeOK
<1>7. ASSUME NEW m \in Minutes, Exists(window[m])', window'[m].until = 0
      PROVE  m \in abandoned' \/ \E o \in Readers : reader'[o].pc = "trim" /\ reader'[o].end = m
  <2>1. CASE m = reader[r].end
    BY <1>1, <1>2, <2>1
  <2>2. CASE m # reader[r].end
    <3>1. m \in abandoned \/ \E o \in Readers : reader[o].pc = "trim" /\ reader[o].end = m
      BY <1>4, <1>7, <2>2 DEF WindowsExpire, Exists
    <3> QED BY <1>2, <2>2, <3>1
  <2> QED BY <2>1, <2>2
<1> QED BY <1>6, <1>7 DEF WindowsExpire

\* A builder trims the window and gives it its expiry.
LEMMA TrimStep ==
    ASSUME WindowInv, NEW r \in Readers, NEW s, DOMAIN s.scores \subseteq HotVideos, s.until \in Nat,
           Exists(s) => s.until # 0,
           window' = [window EXCEPT ![reader[r].end] = s],
           reader' = [reader EXCEPT ![r].pc = "range"],
           UNCHANGED <<now, bucket, credit, ever, abandoned>>
    PROVE  WindowInv'
<1> USE DEF WindowInv
<1>1. /\ reader' \in [Readers -> [pc : {"closed", "ask", "union", "trim", "range", "ended"},
                                 end : Minutes, offset : Nat]]
      /\ reader'[r].pc = "range"
  BY ReaderMoves
<1>2. \A o \in Readers : reader'[o].end = reader[o].end /\ (o # r => reader'[o].pc = reader[o].pc)
  BY ReaderMoves
<1>3. reader[r].end \in Minutes /\ DOMAIN window = Minutes
  BY DEF WindowTypeOK
<1>4. /\ DOMAIN window' = Minutes /\ window'[reader[r].end] = s
      /\ \A m \in Minutes \ {reader[r].end} : window'[m] = window[m]
  BY <1>3
<1>5. ASSUME NEW m \in Minutes
      PROVE  DOMAIN window'[m].scores \subseteq HotVideos /\ window'[m].until \in Nat
  <2>1. CASE m = reader[r].end
    BY <1>4, <2>1
  <2>2. CASE m # reader[r].end
    BY <1>4, <2>2 DEF WindowTypeOK
  <2> QED BY <2>1, <2>2
<1>6. WindowTypeOK'
  BY <1>1, <1>4, <1>5 DEF WindowTypeOK
<1>7. ASSUME NEW m \in Minutes, Exists(window[m])', window'[m].until = 0
      PROVE  m \in abandoned' \/ \E o \in Readers : reader'[o].pc = "trim" /\ reader'[o].end = m
  <2>1. m # reader[r].end
    BY <1>4, <1>7 DEF Exists
  <2>2. m \in abandoned \/ \E o \in Readers : reader[o].pc = "trim" /\ reader[o].end = m
    BY <1>4, <1>7, <2>1 DEF WindowsExpire, Exists
  <2> QED BY <1>2, <2>1, <2>2
<1> QED BY <1>6, <1>7 DEF WindowsExpire

\* A client of the hot list.
Client == [pc : {"closed", "ask", "union", "trim", "range", "ended"},
           end : Minutes, offset : Nat]

\* A client that has got a page of a window asks for the next or is at the end.
LEMMA PageRead ==
    ASSUME WindowTypeOK, NEW r \in Readers, ReadPage(r)
    PROVE  \E q \in Client : q.pc # "trim" /\ reader' = [reader EXCEPT ![r] = q]
<1>1. reader \in [Readers -> Client]
  BY DEF WindowTypeOK, Client
<1>2. PICK q \in Client : q = reader[r]
  BY <1>1
<1>3. CASE reader' = [reader EXCEPT ![r].pc = "ask", ![r].offset = @ + Limit]
  <2>1. PICK n \in Nat : n = q.offset + Limit
    BY HotWindowAssumption DEF Client
  <2>2. PICK s : s = [q EXCEPT !.pc = "ask", !.offset = n]
    OBVIOUS
  <2>3. s \in Client /\ s.pc # "trim"
    BY <2>2 DEF Client
  <2>4. reader' = [reader EXCEPT ![r] = s]
    BY <1>1, <1>2, <1>3, <2>1, <2>2 DEF Client
  <2> QED
    BY <2>3, <2>4
<1>4. CASE reader' = [reader EXCEPT ![r] = [Closed EXCEPT !.pc = "ended"]]
  <2>1. 0 \in Minutes
    BY HotWindowAssumption DEF Minutes
  <2>2. [Closed EXCEPT !.pc = "ended"] = [pc |-> "ended", end |-> 0, offset |-> 0]
    BY DEF Closed
  <2> QED
    BY <1>4, <2>1, <2>2 DEF Client
<1> QED
  BY <1>3, <1>4 DEF ReadPage

\* The types of HotWindow and the property, together inductive.
THEOREM WindowInvariant == WindowSpec => []WindowInv
<1>1. WindowInit => WindowInv
  BY WindowFacts DEF WindowInit, WindowInv, WindowTypeOK, WindowsExpire, Exists, Closed, Unmade
<1>2. ASSUME WindowInv, [WindowNext]_windowVars PROVE WindowInv'
  <2> USE <1>2, WindowFacts DEF WindowInv
  <2>1. /\ now \in Minutes
        /\ DOMAIN bucket = Minutes /\ DOMAIN window = Minutes /\ DOMAIN ever = Minutes
        /\ credit \in [Credits -> {-1, -2} \cup Minutes]
        /\ \A r \in Readers : reader[r].end \in Minutes /\ reader[r].offset \in Nat
    BY DEF WindowTypeOK
  <2>2. CASE Minute
    BY <2>1, <2>2 DEF Minute, WindowTypeOK, WindowsExpire, Lapse, Expired, Exists, Minutes
  <2>3. ASSUME NEW c \in Credits, NEW v \in HotVideos, NEW d \in Deltas, NEW m \in Minutes,
               Increase(c, v, d, m)
        PROVE  WindowInv'
    <3>1. DOMAIN bucket'[m].scores \subseteq HotVideos /\ DOMAIN ever'[m] \subseteq HotVideos
          /\ bucket'[m].until = bucket[m].until
      BY <2>1, <2>3 DEF Increase, Increased, WindowTypeOK
    <3>3. \A o \in Minutes \ {m} : bucket'[o] = bucket[o] /\ ever'[o] = ever[o]
      BY <2>1, <2>3 DEF Increase
    <3>4. DOMAIN bucket' = Minutes /\ DOMAIN ever' = Minutes
      BY <2>1, <2>3 DEF Increase
    <3>5. credit' \in [Credits -> {-1, -2} \cup Minutes]
      BY <2>1, <2>3 DEF Increase
    <3>6. UNCHANGED <<now, window, reader, abandoned>>
      BY <2>3 DEF Increase
    <3>7. WindowTypeOK'
      BY <3>1, <3>3, <3>4, <3>5, <3>6 DEF WindowTypeOK
    <3>8. WindowsExpire'
      BY <3>6 DEF WindowsExpire
    <3> QED BY <3>7, <3>8
  <2>4. ASSUME NEW c \in Credits, ExpireBucket(c) PROVE WindowInv'
    BY <2>1, <2>4 DEF ExpireBucket, BucketUntil, Over, WindowTypeOK, WindowsExpire
  <2>5. ASSUME NEW c \in Credits, ExpireBucketFails(c) PROVE WindowInv'
    BY <2>1, <2>5 DEF ExpireBucketFails, Over, WindowTypeOK, WindowsExpire
  <2>6. ASSUME NEW r \in Readers, Open(r) PROVE WindowInv'
    BY <2>1, <2>6 DEF Open, Closed, WindowTypeOK, WindowsExpire
  <2>7. ASSUME NEW r \in Readers, Ask(r) PROVE WindowInv'
    <3>1. PICK pc \in {"union", "range"} : reader' = [reader EXCEPT ![r].pc = pc]
      BY <2>7 DEF Ask
    <3>2. reader[r].pc # "trim" /\ UNCHANGED <<now, bucket, window, credit, ever, abandoned>>
      BY <2>7 DEF Ask
    <3>3. WindowTypeOK'
      BY <3>1, <3>2, ReaderMoves DEF WindowTypeOK
    <3>4. WindowsExpire'
      BY <3>1, <3>2, ReaderMoves DEF WindowsExpire
    <3> QED BY <3>3, <3>4
  <2>8. ASSUME NEW r \in Readers, Union(r) PROVE WindowInv'
    <3> DEFINE e == reader[r].end
               sum == SumOver([m \in MinuteKeys(e) |-> bucket[m].scores])
    <3>1. DOMAIN sum \subseteq HotVideos
      <4>1. PICK f : f = [m \in MinuteKeys(e) |-> bucket[m].scores]
        OBVIOUS
      <4>2. DOMAIN SumOver(f) = UNION {DOMAIN f[m] : m \in DOMAIN f}
        BY DEF SumOver
      <4>3. \A m \in DOMAIN f : DOMAIN f[m] \subseteq HotVideos
        BY <4>1 DEF MinuteKeys, WindowTypeOK, WindowInv
      <4> QED
        BY <4>1, <4>2, <4>3
    <3>2. /\ window' = [window EXCEPT ![e] = [scores |-> sum, until |-> 0]]
          /\ reader' = [reader EXCEPT ![r].pc = "trim"]
          /\ abandoned' = abandoned \ {e}
          /\ UNCHANGED <<now, bucket, credit, ever>>
      BY <2>8 DEF Union
    <3>3. /\ [scores |-> sum, until |-> 0].scores = sum
          /\ [scores |-> sum, until |-> 0].until = 0
      OBVIOUS
    <3> DEFINE s == [scores |-> sum, until |-> 0]
    <3>4. DOMAIN s.scores \subseteq HotVideos /\ s.until = 0
      BY <3>1, <3>3
    <3>5. window' = [window EXCEPT ![reader[r].end] = s]
      BY <3>2
    <3> HIDE DEF s
    <3> QED BY <3>2, <3>4, <3>5, BuildStep DEF WindowInv
  <2>9. ASSUME NEW r \in Readers, Trim(r) PROVE WindowInv'
    <3> DEFINE e == reader[r].end
    <3>1. DOMAIN Trimmed(window[e]).scores \subseteq HotVideos
      BY <2>1 DEF Trimmed, RestrictValues, Restrict, WindowTypeOK
    <3>2. /\ Trimmed(window[e]).until \in Nat
          /\ Exists(Trimmed(window[e])) => Trimmed(window[e]).until # 0
      BY <2>1 DEF Trimmed, Exists
    <3>3. /\ window' = [window EXCEPT ![e] = Trimmed(window[e])]
          /\ reader' = [reader EXCEPT ![r].pc = "range"]
          /\ UNCHANGED <<now, bucket, credit, ever, abandoned>>
      BY <2>9 DEF Trim
    <3> QED BY <2>1, <3>1, <3>2, <3>3, TrimStep
  <2>10. ASSUME NEW r \in Readers, ReadPage(r) PROVE WindowInv'
    <3>1. \E q \in Client : q.pc # "trim" /\ reader' = [reader EXCEPT ![r] = q]
      BY <2>10, PageRead
    <3>2. reader[r].pc # "trim" /\ UNCHANGED <<now, bucket, window, credit, ever, abandoned>>
      BY <2>10 DEF ReadPage
    <3>3. reader \in [Readers -> Client]
      BY DEF WindowTypeOK, Client
    <3>4. WindowTypeOK'
      <4>1. reader' \in [Readers -> Client]
        BY <3>1, <3>3
      <4> QED
        BY <3>2, <4>1 DEF WindowTypeOK, Client
    <3>5. WindowsExpire'
      BY <2>1, <3>1, <3>2, <3>3 DEF WindowsExpire, Exists
    <3> QED
      BY <3>4, <3>5
  <2>11. ASSUME NEW r \in Readers, PageFails(r) PROVE WindowInv'
    <3>1. /\ reader' = [reader EXCEPT ![r].pc = "ask"]
          /\ UNCHANGED <<now, bucket, window, credit, ever>>
          /\ abandoned' = IF reader[r].pc = "trim" THEN abandoned \cup {reader[r].end} ELSE abandoned
      BY <2>11 DEF PageFails
    <3>2. WindowTypeOK'
      <4>1. reader' \in [Readers -> [pc : {"closed", "ask", "union", "trim", "range", "ended"},
                                     end : Minutes, offset : Nat]]
        BY <3>1, ReaderMoves
      <4>2. abandoned' \in SUBSET Minutes
        BY <2>1, <3>1 DEF WindowTypeOK
      <4> QED BY <3>1, <4>1, <4>2 DEF WindowTypeOK
    <3>3. WindowsExpire'
      BY <3>1, ReaderMoves DEF WindowsExpire
    <3> QED BY <3>2, <3>3
  <2>12. CASE UNCHANGED windowVars
    BY <2>12 DEF windowVars, WindowTypeOK, WindowsExpire
  <2> QED
    BY <2>2, <2>3, <2>4, <2>5, <2>6, <2>7, <2>8, <2>9, <2>10, <2>11, <2>12 DEF WindowNext
<1> QED BY <1>1, <1>2, PTL DEF WindowSpec

\* A window without an expiry has a builder, or had one that failed.
THEOREM WindowsHaveExpiry == WindowSpec => []WindowsExpire
BY WindowInvariant, PTL DEF WindowInv

\* Until BucketTTL minutes after its own a bucket has all that was credited to
\* it: no EXPIRE comes before its minute.
BucketsKept ==
    /\ \A c \in Credits : credit[c] \in Minutes => credit[c] <= now
    /\ \A m \in Minutes :
        /\ bucket[m].until = 0 \/ bucket[m].until >= m + BucketTTL
        /\ now < m + BucketTTL => bucket[m].scores = ever[m]

\* Buckets are kept by every step.
LEMMA BucketsStep == WindowTypeOK /\ BucketsKept /\ [WindowNext]_windowVars => BucketsKept'
<1> SUFFICES ASSUME WindowTypeOK, BucketsKept, [WindowNext]_windowVars PROVE BucketsKept'
  OBVIOUS
<1>0. /\ now \in Minutes /\ DOMAIN bucket = Minutes /\ DOMAIN ever = Minutes
      /\ credit \in [Credits -> {-1, -2} \cup Minutes]
      /\ \A m \in Minutes : bucket[m].until \in Nat
  BY DEF WindowTypeOK
<1>a. BucketTTL \in Nat /\ \A m \in Minutes : m \in Nat
  BY WindowFacts
<1>1. CASE Minute
  <2>1. /\ now' = now + 1 /\ credit' = credit /\ ever' = ever
        /\ \A m \in Minutes : bucket'[m] = Lapse(bucket[m])
    BY <1>0, <1>1 DEF Minute
  <2>2. ASSUME NEW m \in Minutes
        PROVE  /\ bucket'[m].until = 0 \/ bucket'[m].until >= m + BucketTTL
               /\ now' < m + BucketTTL => bucket'[m].scores = ever'[m]
    <3>1. CASE Expired(bucket[m])
      <4>1. bucket'[m] = NoSet
        BY <2>1, <3>1 DEF Lapse
      <4>2. bucket[m].until # 0 /\ bucket[m].until <= now + 1
        BY <3>1 DEF Expired
      <4>3. bucket[m].until >= m + BucketTTL
        BY <4>2 DEF BucketsKept
      <4>4. ~(now' < m + BucketTTL)
        BY <1>0, <1>a, <2>1, <4>2, <4>3
      <4> QED
        BY <4>1, <4>4, WindowFacts
    <3>2. CASE ~Expired(bucket[m])
      <4>1. bucket'[m] = bucket[m]
        BY <2>1, <3>2 DEF Lapse
      <4>2. now' < m + BucketTTL => now < m + BucketTTL
        BY <1>0, <1>a, <2>1
      <4> QED
        BY <2>1, <4>1, <4>2 DEF BucketsKept
    <3> QED
      BY <3>1, <3>2
  <2>3. \A c \in Credits : credit'[c] \in Minutes => credit'[c] <= now'
    BY <1>0, <1>a, <2>1 DEF BucketsKept
  <2> QED
    BY <2>2, <2>3 DEF BucketsKept
<1>2. ASSUME NEW c \in Credits, NEW v \in HotVideos, NEW d \in Deltas, NEW m \in Minutes,
             Increase(c, v, d, m)
      PROVE  BucketsKept'
  <2>1. /\ now' = now /\ m <= now /\ credit' = [credit EXCEPT ![c] = m]
        /\ bucket' = [bucket EXCEPT ![m].scores = Increased(bucket[m].scores, v, d)]
        /\ ever' = [ever EXCEPT ![m] = Increased(ever[m], v, d)]
    BY <1>0, <1>2, <1>a DEF Increase
  <2>2. /\ bucket'[m].until = bucket[m].until
        /\ bucket[m].scores = ever[m] => bucket'[m].scores = ever'[m]
    BY <1>0, <2>1
  <2>3. \A o \in Minutes : o # m => bucket'[o] = bucket[o] /\ ever'[o] = ever[o]
    BY <1>0, <2>1
  <2>4. \A b \in Credits : credit'[b] \in Minutes => credit'[b] <= now'
    BY <1>0, <2>1 DEF BucketsKept
  <2> QED
    BY <2>1, <2>2, <2>3, <2>4 DEF BucketsKept
<1>3. ASSUME NEW c \in Credits, ExpireBucket(c) PROVE BucketsKept'
  <2> DEFINE m == credit[c]
  <2>1. /\ m \in Minutes /\ now' = now /\ ever' = ever /\ credit' = [credit EXCEPT ![c] = Over]
        /\ bucket' = bucket \/ bucket' = [bucket EXCEPT ![m].until = now + BucketTTL]
    BY <1>3 DEF ExpireBucket, BucketUntil
  <2>2. \A b \in Credits : credit'[b] \in Minutes => credit'[b] <= now'
    BY <1>0, <1>a, <2>1 DEF BucketsKept, Over
  <2>3. now + BucketTTL >= m + BucketTTL
    BY <1>0, <1>a, <2>1 DEF BucketsKept
  <2> HIDE DEF m
  <2>4. CASE bucket' = [bucket EXCEPT ![m].until = now + BucketTTL]
    <3>1. /\ bucket'[m].scores = bucket[m].scores /\ bucket'[m].until = now + BucketTTL
          /\ \A o \in Minutes : o # m => bucket'[o] = bucket[o]
      BY <1>0, <2>1, <2>4
    <3> QED
      BY <2>1, <2>2, <2>3, <3>1 DEF BucketsKept
  <2>5. CASE bucket' = bucket
    BY <2>1, <2>2, <2>5 DEF BucketsKept
  <2> QED
    BY <2>1, <2>4, <2>5
<1>4. ASSUME NEW c \in Credits, ExpireBucketFails(c) PROVE BucketsKept'
  <2>1. /\ now' = now /\ ever' = ever /\ bucket' = bucket /\ credit' = [credit EXCEPT ![c] = Over]
    BY <1>4 DEF ExpireBucketFails
  <2>2. \A b \in Credits : credit'[b] \in Minutes => credit'[b] <= now'
    BY <1>0, <1>a, <2>1 DEF BucketsKept, Over
  <2> QED
    BY <2>1, <2>2 DEF BucketsKept
<1>5. CASE (\E r \in Readers : Open(r) \/ Ask(r) \/ Union(r) \/ Trim(r) \/ ReadPage(r) \/ PageFails(r))
           \/ UNCHANGED windowVars
  <2>1. UNCHANGED <<now, bucket, credit, ever>>
    BY <1>5 DEF Open, Ask, Union, Trim, ReadPage, PageFails, windowVars
  <2> QED
    BY <2>1 DEF BucketsKept
<1> QED
  BY <1>1, <1>2, <1>3, <1>4, <1>5 DEF WindowNext

\* A window is the sum of all that was credited in its minutes.
THEOREM WindowsComplete == WindowSpec => UnionExact
<1>1. WindowInit => BucketsKept
  <2>1. Unmade \notin Minutes
    BY HotWindowAssumption DEF Unmade, Minutes
  <2> QED
    BY <2>1 DEF WindowInit, BucketsKept, NoSet
<1>2. WindowTypeOK /\ BucketsKept /\ [WindowNext]_windowVars =>
        [\A r \in Readers :
            (Union(r) /\ now - reader[r].end <= BucketTTL - WindowMinutes) =>
                LET e == reader[r].end
                IN  window'[e].scores = SumOver(Restrict(ever, Minutes \cap (e - WindowMinutes + 1)..e))
        ]_windowVars
  <2> SUFFICES ASSUME WindowTypeOK, BucketsKept, NEW r \in Readers, Union(r),
                      now - reader[r].end <= BucketTTL - WindowMinutes
               PROVE  LET e == reader[r].end
                      IN  window'[e].scores = SumOver(Restrict(ever, Minutes \cap (e - WindowMinutes + 1)..e))
    OBVIOUS
  <2> DEFINE e == reader[r].end
             M == Minutes \cap (e - WindowMinutes + 1)..e
  <2>1. /\ WindowMinutes \in Nat /\ BucketTTL \in Nat /\ now \in Nat /\ e \in Minutes /\ e \in Nat
        /\ DOMAIN window = Minutes /\ \A m \in Minutes : m \in Nat
    BY WindowFacts, HotWindowAssumption DEF WindowTypeOK
  <2>2. MinuteKeys(e) = M
    <3>1. \A m \in Minutes : (e - WindowMinutes < m /\ m <= e) <=> m \in (e - WindowMinutes + 1)..e
      BY <2>1
    <3> QED
      BY <3>1 DEF MinuteKeys
  <2>3. window'[e].scores = SumOver([m \in MinuteKeys(e) |-> bucket[m].scores])
    BY <2>1 DEF Union
  <2>4. \A m \in MinuteKeys(e) : bucket[m].scores = ever[m]
    <3>1. ASSUME NEW m \in MinuteKeys(e) PROVE m \in Minutes /\ now < m + BucketTTL
      BY <2>1 DEF MinuteKeys
    <3> QED
      BY <3>1 DEF BucketsKept
  <2>5. [m \in MinuteKeys(e) |-> bucket[m].scores] = [m \in M |-> ever[m]]
    BY <2>2, <2>4
  <2> QED
    BY <2>3, <2>5 DEF Restrict
<1>3. WindowInv => WindowTypeOK
  BY DEF WindowInv
<1> QED
  BY <1>1, <1>2, <1>3, BucketsStep, WindowInvariant, PTL DEF WindowSpec, UnionExact
=============================================================================
