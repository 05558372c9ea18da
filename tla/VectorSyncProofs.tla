-------------------------- MODULE VectorSyncProofs --------------------------
(***************************************************************************)
(* Proofs about VectorSync, for any videos, any page size and any number   *)
(* of failures and crashes.                                                *)
(***************************************************************************)
EXTENDS VectorSync, FiniteSetTheorems, WellFoundedInduction, TLAPS

Inv == TypeOK /\ Synced

-----------------------------------------------------------------------------
(* Pages.                                                                  *)

\* A set of ids has a least member.
LEMMA LeastMember ==
    ASSUME NEW S, S \subseteq Nat, S # {}
    PROVE  \E x \in S : \A y \in S : x <= y
<1> DEFINE less == {p \in Nat \X Nat : p[1] < p[2]}
<1>0. IsWellFoundedOn(less, Nat)
  BY NatLessThanWellFounded DEF OpToRel
<1> HIDE DEF less
<1>1. PICK x \in S : \A y \in S : ~(<<y, x>> \in less)
  BY <1>0, WFMin
<1>2. \A y \in S : y \in Nat /\ x \in Nat
  OBVIOUS
<1>3. \A y \in S : ~(y < x)
  BY <1>1, <1>2 DEF less
<1>4. \A y \in S : x <= y
  BY <1>2, <1>3
<1> QED BY <1>4

\* A finite set of ids has a greatest member: the one with the fewest above it.
LEMMA GreatestMember ==
    ASSUME NEW S \in SUBSET Nat, IsFiniteSet(S), S # {}
    PROVE  Max(S) \in S /\ \A y \in S : Max(S) >= y
<1> DEFINE Above(x) == {u \in S : u > x}
           counts == {Cardinality(Above(x)) : x \in S}
<1>1. \A x \in S : IsFiniteSet(Above(x)) /\ Cardinality(Above(x)) \in Nat
  BY FS_Subset, FS_CardinalityType
<1>2. PICK n \in counts : \A m \in counts : n <= m
  <2>1. counts \subseteq Nat /\ counts # {}
    BY <1>1
  <2> HIDE DEF counts
  <2> QED BY <2>1, LeastMember
<1>3. PICK x \in S : n = Cardinality(Above(x))
  OBVIOUS
<1>4. ASSUME NEW y \in S, y > x PROVE FALSE
  <2>0. \A u \in S : u \in Int /\ x \in Int /\ y \in Int
    BY <1>3, <1>4
  <2>1. Above(y) \subseteq Above(x) /\ y \in Above(x) /\ y \notin Above(y)
    <3>1. \A u \in S : u > y => u > x
      BY <1>4, <2>0
    <3>2. ~(y > y)
      BY <2>0
    <3> QED BY <1>4, <3>1, <3>2
  <2>2. Cardinality(Above(y)) <= Cardinality(Above(x))
        /\ Cardinality(Above(y)) # Cardinality(Above(x))
    BY <1>1, <2>1, FS_Subset
  <2>3. Cardinality(Above(x)) <= Cardinality(Above(y))
    BY <1>2, <1>3
  <2> QED BY <1>1, <1>3, <2>2, <2>3
<1>5. \A y \in S : x >= y
  BY <1>4
<1> QED BY <1>5 DEF Max

\* A page is the least of the rows: what is not on it is behind it.
LEMMA PageFacts ==
    ASSUME NEW rows \in SUBSET Videos
    PROVE  /\ NextPage(rows) \subseteq rows
           /\ rows # {} => NextPage(rows) # {}
           /\ NextPage(rows) # {} => Max(NextPage(rows)) \in Nat
           /\ \A v \in rows : v \in NextPage(rows) \/ v > Max(NextPage(rows))
<1> DEFINE page == NextPage(rows)
           Below(v) == {u \in rows : u < v}
<1>1. page \subseteq rows /\ rows \subseteq Nat /\ IsFiniteSet(rows) /\ IsFiniteSet(page)
  BY VectorSyncAssumption, FS_Subset DEF NextPage
<1>2. \A v \in rows : IsFiniteSet(Below(v)) /\ Cardinality(Below(v)) \in Nat
  BY <1>1, FS_Subset, FS_CardinalityType
<1>3. PageSize \in Nat /\ PageSize > 0
  BY VectorSyncAssumption
<1>4. rows # {} => page # {}
  <2> SUFFICES ASSUME rows # {} PROVE page # {}
    OBVIOUS
  <2>1. PICK v \in rows : \A u \in rows : v <= u
    BY <1>1, LeastMember
  <2>2. Below(v) = {}
    <3>1. \A u \in rows : u \in Int /\ v \in Int
      BY <1>1, <2>1
    <3> QED BY <2>1, <3>1
  <2>3. Cardinality(Below(v)) < PageSize
    BY <1>3, <2>2, FS_EmptySet
  <2> QED BY <2>3 DEF NextPage
<1>5. page # {} => Max(page) \in page /\ Max(page) \in Nat
  <2> HIDE DEF page
  <2> QED BY <1>1, GreatestMember
<1>6. ASSUME NEW v \in rows, v \notin page PROVE v > Max(page)
  <2>1. page # {} /\ Max(page) \in page
    BY <1>4, <1>5, <1>6
  <2> DEFINE u == Max(page)
  <2>2. u \in rows /\ Cardinality(Below(u)) < PageSize
    BY <1>1, <2>1 DEF NextPage
  <2>3. ~(Cardinality(Below(v)) < PageSize)
    BY <1>6 DEF NextPage
  <2> HIDE DEF u
  <2>4. CASE v < u
    <3>1. Below(v) \subseteq Below(u)
      <4>1. \A w \in rows : w \in Int /\ v \in Int /\ u \in Int
        BY <1>1, <1>6, <2>2
      <4> QED BY <2>4, <4>1
    <3>2. Cardinality(Below(v)) <= Cardinality(Below(u))
      BY <1>2, <2>2, <3>1, FS_Subset
    <3> QED BY <1>2, <1>3, <1>6, <2>2, <2>3, <3>2
  <2>5. CASE v = u
    BY <2>2, <2>3, <2>5
  <2>6. CASE v > u
    BY <2>6 DEF u
  <2>7. v \in Nat /\ u \in Nat
    BY <1>1, <1>6, <2>2
  <2> QED BY <2>4, <2>5, <2>6, <2>7
<1> QED BY <1>1, <1>4, <1>5, <1>6

-----------------------------------------------------------------------------
(* The invariant: the types and the property.                              *)

\* Nothing is saved at first.
LEMMA InitInv == Init => Inv
<1> SUFFICES ASSUME Init PROVE Inv
  OBVIOUS
<1>1. backfill \in [pc : {"off", "list", "upsert", "done", "failed"}, after : Nat,
                   batch : SUBSET Videos]
  BY DEF Init, NoBackfill
<1>2. event \in [Videos -> {"none", "queued", "saving", "copying", "done"}]
  BY DEF Init
<1>3. store \in [Processes -> Stages]
  BY DEF Init, Stages
<1>4. 0 \in 0..MaxFailures /\ 0 \in 0..MaxCrashes
  BY VectorSyncAssumption
<1>5. /\ held \subseteq Videos /\ saved \subseteq Videos /\ lost \subseteq Videos
      /\ collection \in [exists : BOOLEAN, index : {"none", "old", "new"}, loaded : BOOLEAN]
      /\ hooked \in BOOLEAN /\ failures = 0 /\ crashes = 0
  BY DEF Init
<1>6. TypeOK
  BY <1>1, <1>2, <1>3, <1>4, <1>5 DEF TypeOK
<1> QED BY <1>6 DEF Init, Inv, Synced

\* The set up of a store, which only LoadCollection makes ready.
LEMMA SetUpInv ==
    ASSUME Inv, NEW p \in Processes, SetUp(p) \/ CallFails(p)
    PROVE  Inv'
<1> USE DEF Processes
<1>1. TypeOK
  BY DEF Inv
<1>2. PICK stage \in Stages : Goto(p, stage)
  BY DEF SetUp, Connect, HasCollection, CreateCollection, DescribeIndex, ReleaseCollection,
         DropIndex, CreateIndex, LoadCollection, Retry, CallFails, AfterFailure, Stages, TypeOK,
         Inv
<1>3. store' \in [Processes -> Stages]
  BY <1>1, <1>2 DEF Goto, TypeOK
<1>4. collection' \in [exists : BOOLEAN, index : {"none", "old", "new"}, loaded : BOOLEAN]
  BY <1>1 DEF TypeOK, SetUp, Connect, HasCollection, CreateCollection, DescribeIndex,
              ReleaseCollection, DropIndex, CreateIndex, LoadCollection, Retry, CallFails
<1>5. UNCHANGED <<held, saved, event, hooked, crashes, lost>> /\ failures' \in 0..MaxFailures
  BY <1>1, VectorSyncAssumption
  DEF TypeOK, SetUp, Connect, HasCollection, CreateCollection, DescribeIndex,
      ReleaseCollection, DropIndex, CreateIndex, LoadCollection, Retry, CallFails, Elsewhere
<1>6. /\ backfill' = backfill \/ backfill' = [NoBackfill EXCEPT !.pc = "list"]
      /\ store'["worker"] = "ready" /\ store["worker"] # "ready" /\ hooked =>
            backfill' = [NoBackfill EXCEPT !.pc = "list"]
      /\ store["worker"] = "ready" => store'["worker"] = "ready" /\ backfill' = backfill
  BY <1>1, <1>2 DEF TypeOK, SetUp, Connect, HasCollection, CreateCollection, DescribeIndex,
              ReleaseCollection, DropIndex, CreateIndex, LoadCollection, Retry, CallFails,
              AfterFailure, At, Goto
<1>7. [NoBackfill EXCEPT !.pc = "list"] = [pc |-> "list", after |-> 0, batch |-> {}]
  BY DEF NoBackfill
<1>8. TypeOK'
  BY <1>1, <1>3, <1>4, <1>5, <1>6, <1>7 DEF TypeOK
<1>9. ASSUME NEW v \in saved PROVE v \in held' \/ v \in lost' \/ ToCome(v)'
  <2>1. v \in held \/ v \in lost \/ ToCome(v)
    BY DEF Inv, Synced
  <2>2. v > 0
    BY <1>1, VectorSyncAssumption DEF TypeOK
  <2> QED BY <1>5, <1>6, <1>7, <2>1, <2>2 DEF ToCome, Ready, At
<1> QED BY <1>5, <1>8, <1>9 DEF Inv, Synced

\* The steps of the worker, and the crashes.
LEMMA WorkerInv ==
    ASSUME Inv,
           \/ OnReady
           \/ \E v \in Videos : Publish(v) \/ Deliver(v) \/ Save(v) \/ Copy(v)
           \/ ListPage \/ UpsertPage \/ BackfillFails
           \/ \E p \in Processes : Crash(p)
    PROVE  Inv'
<1> USE DEF Processes
<1>1. TypeOK
  BY DEF Inv
<1>2. /\ \A v \in saved : v \in held \/ v \in lost \/ ToCome(v)
      /\ \A v \in Videos : v \in Nat /\ v > 0
      /\ MaxFailures \in Nat /\ MaxCrashes \in Nat
  BY VectorSyncAssumption DEF Inv, Synced
<1>3. /\ [NoBackfill EXCEPT !.pc = "list"] = [pc |-> "list", after |-> 0, batch |-> {}]
      /\ [NoBackfill EXCEPT !.pc = "done"] = [pc |-> "done", after |-> 0, batch |-> {}]
      /\ [NoBackfill EXCEPT !.pc = "failed"] = [pc |-> "failed", after |-> 0, batch |-> {}]
      /\ NoBackfill = [pc |-> "off", after |-> 0, batch |-> {}]
  BY DEF NoBackfill
<1>4. CASE OnReady
  <2>1. TypeOK'
    BY <1>1, <1>3, <1>4 DEF OnReady, TypeOK
  <2>2. ASSUME NEW v \in saved PROVE v \in held \/ v \in lost \/ ToCome(v)'
    <3>1. v > 0 /\ v \in Videos
      BY <1>1, <1>2 DEF TypeOK
    <3> QED BY <1>2, <1>3, <1>4, <3>1 DEF OnReady, RunsNow, ToCome, Ready, At
  <2> QED BY <1>4, <2>1, <2>2 DEF OnReady, Inv, Synced
<1>5. ASSUME NEW v \in Videos, Publish(v) \/ Deliver(v) PROVE Inv'
  <2>1. event' = [event EXCEPT ![v] = "queued"] \/ event' = [event EXCEPT ![v] = "saving"]
    BY <1>5 DEF Publish, Deliver
  <2>2. UNCHANGED <<collection, held, saved, store, hooked, backfill, failures, crashes, lost>>
    BY <1>5 DEF Publish, Deliver
  <2>3. event' \in [Videos -> {"none", "queued", "saving", "copying", "done"}]
    BY <1>1, <2>1 DEF TypeOK
  <2>4. \A u \in Videos : event'[u] = event[u] \/ event'[u] \in {"queued", "saving"}
    BY <1>1, <2>1 DEF TypeOK
  <2>5. TypeOK'
    BY <1>1, <2>2, <2>3 DEF TypeOK
  <2>6. ASSUME NEW u \in saved PROVE u \in held \/ u \in lost \/ ToCome(u)'
    <3>1. u \in Videos
      BY <1>1 DEF TypeOK
    <3> QED BY <1>2, <2>2, <2>4, <3>1 DEF ToCome, Ready, At
  <2> QED BY <2>2, <2>5, <2>6 DEF Inv, Synced
<1>6. ASSUME NEW v \in Videos, Save(v) PROVE Inv'
  <2>1. /\ saved' \subseteq saved \cup {v}
        /\ event' = [event EXCEPT ![v] = "copying"] \/ event' = [event EXCEPT ![v] = "queued"]
        /\ UNCHANGED <<collection, held, store, hooked, backfill, failures, crashes, lost>>
    BY <1>6 DEF Save
  <2>2. event' \in [Videos -> {"none", "queued", "saving", "copying", "done"}]
    BY <1>1, <2>1 DEF TypeOK
  <2>3. /\ event'[v] \in {"copying", "queued"}
        /\ \A u \in Videos \ {v} : event'[u] = event[u]
    BY <1>1, <2>1 DEF TypeOK
  <2>4. TypeOK'
    BY <1>1, <2>1, <2>2 DEF TypeOK
  <2>5. ASSUME NEW u \in saved' PROVE u \in held \/ u \in lost \/ ToCome(u)'
    <3>1. u \in Videos
      BY <2>4 DEF TypeOK
    <3>2. CASE u = v
      BY <2>3, <3>2 DEF ToCome
    <3>3. CASE u # v
      <4>1. u \in held \/ u \in lost \/ ToCome(u)
        BY <1>2, <2>1, <3>3
      <4> QED BY <2>1, <2>3, <3>1, <3>3, <4>1 DEF ToCome, Ready, At
    <3> QED BY <3>2, <3>3
  <2> QED BY <2>1, <2>4, <2>5 DEF Inv, Synced
<1>7. ASSUME NEW v \in Videos, Copy(v) PROVE Inv'
  <2>1. /\ event' = [event EXCEPT ![v] = "done"]
        /\ UNCHANGED <<collection, saved, store, hooked, backfill, crashes>>
        /\ failures' \in 0..MaxFailures
        /\ held \subseteq held' /\ held' \subseteq held \cup {v}
        /\ lost \subseteq lost' /\ lost' \subseteq lost \cup {v}
        /\ Ready("worker") => v \in held' \/ v \in lost'
    BY <1>1, <1>2, <1>7 DEF Copy, TypeOK
  <2>2. event' \in [Videos -> {"none", "queued", "saving", "copying", "done"}]
    BY <1>1, <2>1 DEF TypeOK
  <2>3. \A u \in Videos \ {v} : event'[u] = event[u]
    BY <1>1, <2>1 DEF TypeOK
  <2>4. TypeOK'
    BY <1>1, <2>1, <2>2 DEF TypeOK
  <2>5. ASSUME NEW u \in saved PROVE u \in held' \/ u \in lost' \/ ToCome(u)'
    <3>1. u \in Videos
      BY <1>1 DEF TypeOK
    <3>2. CASE u = v
      BY <2>1, <3>2 DEF ToCome, Ready, At
    <3>3. CASE u # v
      BY <1>2, <2>1, <2>3, <3>1, <3>3 DEF ToCome, Ready, At
    <3> QED BY <3>2, <3>3
  <2> QED BY <2>1, <2>4, <2>5 DEF Inv, Synced
<1>8. CASE ListPage
  <2> DEFINE rows == {v \in saved : v > backfill.after}
             page == NextPage(rows)
  <2>1. /\ backfill.pc = "list" /\ backfill.after \in Nat
        /\ UNCHANGED <<collection, held, saved, event, store, hooked, failures, crashes, lost>>
        /\ page = {} => backfill' = [NoBackfill EXCEPT !.pc = "done"]
        /\ page # {} => backfill' = [pc |-> "upsert", after |-> Max(page), batch |-> page]
    BY <1>1, <1>8 DEF ListPage, TypeOK
  <2>2. rows \in SUBSET Videos
    BY <1>1 DEF TypeOK
  <2>3. /\ page \subseteq rows
        /\ rows # {} => page # {}
        /\ page # {} => Max(page) \in Nat
        /\ \A v \in rows : v \in page \/ v > Max(page)
    <3> HIDE DEF rows
    <3> QED BY <2>2, PageFacts
  <2>4. TypeOK'
    <3>1. backfill' \in [pc : {"off", "list", "upsert", "done", "failed"}, after : Nat,
                         batch : SUBSET Videos]
      <4>1. page \in SUBSET Videos
        BY <2>2, <2>3
      <4> HIDE DEF page, rows
      <4>2. CASE page = {}
        BY <1>3, <2>1, <4>2
      <4>3. CASE page # {}
        BY <2>1, <2>3, <4>1, <4>3
      <4> QED BY <4>2, <4>3
    <3> QED BY <1>1, <2>1, <3>1 DEF TypeOK
  <2>5. ASSUME NEW v \in saved PROVE v \in held \/ v \in lost \/ ToCome(v)'
    <3>1. CASE v \in rows
      <4>1. page # {} /\ (v \in page \/ v > Max(page))
        BY <2>3, <3>1
      <4> HIDE DEF page, rows
      <4> QED BY <2>1, <4>1 DEF ToCome
    <3>2. CASE v \notin rows
      <4>1. v \in held \/ v \in lost \/ event[v] \in {"queued", "saving", "copying"} \/ ~hooked
              \/ ~Ready("worker")
        BY <1>2, <2>1, <3>2 DEF ToCome
      <4> QED BY <2>1, <4>1 DEF ToCome, Ready, At
    <3> QED BY <3>1, <3>2
  <2> HIDE DEF page, rows
  <2> QED BY <2>1, <2>4, <2>5 DEF Inv, Synced
<1>9. CASE UpsertPage
  <2>1. /\ backfill.pc = "upsert" /\ held' = held \cup backfill.batch
        /\ backfill' = [pc |-> "list", after |-> backfill.after, batch |-> {}]
        /\ UNCHANGED <<collection, saved, event, store, hooked, failures, crashes, lost>>
    BY <1>1, <1>9 DEF UpsertPage, TypeOK
  <2>2. TypeOK'
    BY <1>1, <2>1 DEF TypeOK
  <2> QED BY <1>2, <2>1, <2>2 DEF Inv, Synced, ToCome, Ready, At
<1>10. CASE BackfillFails
  <2>1. TypeOK'
    BY <1>1, <1>2, <1>3, <1>10 DEF BackfillFails, TypeOK
  <2> QED BY <1>10, <2>1 DEF BackfillFails, Inv, Synced
<1>11. ASSUME NEW p \in Processes, Crash(p) PROVE Inv'
  <2>1. crashes' \in 0..MaxCrashes /\ UNCHANGED <<collection, held, saved, failures>>
    BY <1>1, <1>2, <1>11 DEF Crash, TypeOK
  <2>2. store' = [store EXCEPT ![p] = "connect"] /\ store' \in [Processes -> Stages]
    BY <1>1, <1>11 DEF Crash, Goto, TypeOK, Stages
  <2>3. CASE p = "worker"
    <3>1. hooked' = FALSE /\ backfill' = NoBackfill /\ lost' = {}
          /\ event' \in [Videos -> {"none", "queued", "saving", "copying", "done"}]
      BY <1>1, <1>11, <2>3 DEF Crash, TypeOK
    <3>2. TypeOK'
      BY <1>1, <1>3, <2>1, <2>2, <3>1 DEF TypeOK
    <3> QED BY <2>1, <3>1, <3>2 DEF Inv, Synced, ToCome
  <2>4. CASE p # "worker"
    <3>1. UNCHANGED <<hooked, backfill, lost, event>> /\ store'["worker"] = store["worker"]
      BY <1>1, <1>11, <2>2, <2>4 DEF Crash, TypeOK
    <3>2. TypeOK'
      BY <1>1, <2>1, <2>2, <3>1 DEF TypeOK
    <3> QED BY <1>2, <2>1, <3>1, <3>2 DEF Inv, Synced, ToCome, Ready, At
  <2> QED BY <2>3, <2>4
<1> QED BY <1>4, <1>5, <1>6, <1>7, <1>8, <1>9, <1>10, <1>11

\* The invariant.
THEOREM VectorInv == Spec => []Inv
<1>1. ASSUME Inv, [Next]_vars PROVE Inv'
  <2>1. ASSUME NEW p \in Processes, SetUp(p) \/ CallFails(p) PROVE Inv'
    BY <1>1, <2>1, SetUpInv
  <2>2. CASE \/ OnReady
             \/ \E v \in Videos : Publish(v) \/ Deliver(v) \/ Save(v) \/ Copy(v)
             \/ ListPage \/ UpsertPage \/ BackfillFails
             \/ \E p \in Processes : Crash(p)
    BY <1>1, <2>2, WorkerInv
  <2>3. CASE UNCHANGED vars
    BY <1>1, <2>3 DEF vars, Inv, TypeOK, Synced, ToCome, Ready, At
  <2> QED BY <1>1, <2>1, <2>2, <2>3 DEF Next
<1> QED BY InitInv, <1>1, PTL DEF Spec

\* Every saved embedding is in Milvus, lost by Milvus itself, or on its way.
THEOREM EmbeddingsSynced == Spec => []Synced
BY VectorInv, PTL DEF Inv
=============================================================================
