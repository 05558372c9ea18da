---------------------------- MODULE VectorSync ----------------------------
(***************************************************************************)
(* The embeddings of videos: the worker saves each in MySQL and copies it  *)
(* to Milvus, which every process connects to and sets up in the           *)
(* background (LazyStore).  Until it is ready a copy is dropped; once it   *)
(* is, the worker copies all that MySQL has, page by page.  Both processes *)
(* set up the same collection, and crash and restart.                      *)
(***************************************************************************)
EXTENDS Integers, FiniteSets, FiniteSetsExt

CONSTANTS
    Videos,         \* ids
    PageSize,       \* rows of a page of the backfill: 500
    MaxFailures,    \* bound on the calls of Milvus that fail
    MaxCrashes      \* bound on the processes that die

ASSUME VectorSyncAssumption ==
    /\ Videos \subseteq Nat \ {0} /\ IsFiniteSet(Videos)
    /\ PageSize \in Nat \ {0} /\ MaxFailures \in Nat /\ MaxCrashes \in Nat

Processes == {"api", "worker"}

VARIABLES
    collection, \* Milvus: the collection and its index
    held,       \* Milvus: the videos that have a vector
    saved,      \* MySQL video_embedding
    event,      \* VideoPublished, at the worker: of each video
    store,      \* where the LazyStore of each process is
    hooked,     \* the worker has called OnReady
    backfill,   \* the locals of BackfillVectorStore
    failures,
    crashes,
    lost        \* what Milvus failed to take since the worker started (history)

vars == <<collection, held, saved, event, store, hooked, backfill, failures, crashes, lost>>

Stages == {"connect", "has", "create", "describe", "release", "drop", "index", "load",
           "retry", "ready"}

TypeOK ==
    /\ collection \in [exists : BOOLEAN, index : {"none", "old", "new"}, loaded : BOOLEAN]
    /\ held \subseteq Videos /\ saved \subseteq Videos /\ lost \subseteq Videos
    /\ event \in [Videos -> {"none", "queued", "saving", "copying", "done"}]
    /\ store \in [Processes -> Stages]
    /\ hooked \in BOOLEAN
    /\ backfill \in [pc : {"off", "list", "upsert", "done", "failed"},
                     after : Nat, batch : SUBSET Videos]
    /\ failures \in 0..MaxFailures /\ crashes \in 0..MaxCrashes

NoBackfill == [pc |-> "off", after |-> 0, batch |-> {}]

Init ==
    /\ collection \in {c \in [exists : BOOLEAN, index : {"none", "old", "new"}, loaded : BOOLEAN] :
                        (c.index # "none" => c.exists) /\ (c.loaded => c.index # "none")}
    /\ held = {} /\ saved = {} /\ lost = {}
    /\ event = [v \in Videos |-> "none"]
    /\ store = [p \in Processes |-> "connect"]
    /\ hooked = FALSE
    /\ backfill = NoBackfill
    /\ failures = 0 /\ crashes = 0

-----------------------------------------------------------------------------
(* LazyStore: connect, EnsureReady until it succeeds, then the callbacks.   *)

At(p, stage) == store[p] = stage

Goto(p, stage) == store' = [store EXCEPT ![p] = stage]

Elsewhere == UNCHANGED <<held, saved, event, hooked, failures, crashes, lost>>

Connect(p) ==
    At(p, "connect") /\ Goto(p, "has") /\ UNCHANGED <<collection, backfill>> /\ Elsewhere

HasCollection(p) ==
    /\ At(p, "has")
    /\ Goto(p, IF collection.exists THEN "describe" ELSE "create")
    /\ UNCHANGED <<collection, backfill>> /\ Elsewhere

\* The other process may have created it: an error, or the same collection.
CreateCollection(p) ==
    /\ At(p, "create")
    /\ collection' = [collection EXCEPT !.exists = TRUE]
    /\ Goto(p, "describe") \/ (collection.exists /\ Goto(p, "retry"))
    /\ UNCHANGED backfill /\ Elsewhere

DescribeIndex(p) ==
    /\ At(p, "describe")
    /\ Goto(p, CASE collection.index = "none" -> "index"
                 [] collection.index = "old"  -> "release"
                 [] collection.index = "new"  -> "load")
    /\ UNCHANGED <<collection, backfill>> /\ Elsewhere

ReleaseCollection(p) ==
    /\ At(p, "release")
    /\ collection' = [collection EXCEPT !.loaded = FALSE]
    /\ Goto(p, "drop")
    /\ UNCHANGED backfill /\ Elsewhere

\* DropIndex of the old index: of a loaded collection it fails.
DropIndex(p) ==
    /\ At(p, "drop")
    /\ collection' = IF collection.loaded \/ collection.index # "old" THEN collection
                     ELSE [collection EXCEPT !.index = "none"]
    /\ Goto(p, IF collection.loaded THEN "retry" ELSE "index")
    /\ UNCHANGED backfill /\ Elsewhere

CreateIndex(p) ==
    /\ At(p, "index")
    /\ collection' = IF collection.index = "none" THEN [collection EXCEPT !.index = "new"]
                                                  ELSE collection
    /\ Goto(p, IF collection.index = "old" THEN "retry" ELSE "load")
    /\ UNCHANGED backfill /\ Elsewhere

\* LoadCollection ends EnsureReady: the store is set, and then the callbacks
\* that were registered are called, which at the worker is the backfill.
LoadCollection(p) ==
    /\ At(p, "load")
    /\ IF collection.index = "none"
       THEN Goto(p, "retry") /\ UNCHANGED <<collection, backfill>>
       ELSE /\ collection' = [collection EXCEPT !.loaded = TRUE]
            /\ Goto(p, "ready")
            /\ backfill' = IF p = "worker" /\ hooked THEN [NoBackfill EXCEPT !.pc = "list"]
                                                     ELSE backfill
    /\ Elsewhere

\* Mutant of AfterFailure: EnsureReadyAsync does not try again.
AfterFailureReady == "ready"

AfterFailure == "retry"

\* A call of Milvus fails.
CallFails(p) ==
    /\ store[p] \notin {"connect", "retry", "ready"}
    /\ failures < MaxFailures
    /\ failures' = failures + 1
    /\ Goto(p, AfterFailure)
    /\ UNCHANGED <<collection, held, saved, event, hooked, backfill, crashes, lost>>

\* Five seconds later EnsureReady starts over.
Retry(p) ==
    At(p, "retry") /\ Goto(p, "has") /\ UNCHANGED <<collection, backfill>> /\ Elsewhere

Ready(p) == At(p, "ready")

-----------------------------------------------------------------------------
(* The worker.                                                             *)

\* Mutant of RunsNow: a callback registered too late is only kept.
RunsNowNever == FALSE

\* OnReady runs a callback at once if the store is set.
RunsNow == Ready("worker")

OnReady ==
    /\ ~hooked
    /\ hooked' = TRUE
    /\ backfill' = IF RunsNow THEN [NoBackfill EXCEPT !.pc = "list"] ELSE backfill
    /\ UNCHANGED <<collection, held, saved, event, store, failures, crashes, lost>>

\* A video is published, and its event waits for the worker.
Publish(v) ==
    /\ event[v] = "none"
    /\ event' = [event EXCEPT ![v] = "queued"]
    /\ UNCHANGED <<collection, held, saved, store, hooked, backfill, failures, crashes, lost>>

\* The worker consumes events once OnReady was called.
Deliver(v) ==
    /\ hooked /\ event[v] = "queued"
    /\ event' = [event EXCEPT ![v] = "saving"]
    /\ UNCHANGED <<collection, held, saved, store, hooked, backfill, failures, crashes, lost>>

\* SaveVideoEmbedding; when it fails the event is requeued.
Save(v) ==
    /\ event[v] = "saving"
    /\ \/ saved' = saved \cup {v} /\ event' = [event EXCEPT ![v] = "copying"]
       \/ saved' = saved /\ event' = [event EXCEPT ![v] = "queued"]
    /\ UNCHANGED <<collection, held, store, hooked, backfill, failures, crashes, lost>>

\* syncToVectorStore: an error, also ErrVectorStoreNotReady, is only logged.
Copy(v) ==
    /\ event[v] = "copying"
    /\ event' = [event EXCEPT ![v] = "done"]
    /\ \/ /\ held' = IF Ready("worker") THEN held \cup {v} ELSE held
          /\ UNCHANGED <<failures, lost>>
       \/ /\ Ready("worker") /\ failures < MaxFailures
          /\ failures' = failures + 1
          /\ lost' = lost \cup {v}
          /\ UNCHANGED held
    /\ UNCHANGED <<collection, saved, store, hooked, backfill, crashes>>

\* ListAllVideoEmbeddings, of the rows behind the cursor.
NextPage(S) == {v \in S : Cardinality({u \in S : u < v}) < PageSize}

ListPage ==
    /\ backfill.pc = "list"
    /\ LET rows == {v \in saved : v > backfill.after}
       IN  backfill' = IF NextPage(rows) = {} THEN [NoBackfill EXCEPT !.pc = "done"]
                       ELSE [pc |-> "upsert", after |-> Max(NextPage(rows)), batch |-> NextPage(rows)]
    /\ UNCHANGED <<collection, held, saved, event, store, hooked, failures, crashes, lost>>

UpsertPage ==
    /\ backfill.pc = "upsert"
    /\ held' = held \cup backfill.batch
    /\ backfill' = [backfill EXCEPT !.pc = "list", !.batch = {}]
    /\ UNCHANGED <<collection, saved, event, store, hooked, failures, crashes, lost>>

\* An error of MySQL or Milvus ends the backfill, which is not tried again.
BackfillFails ==
    /\ backfill.pc \in {"list", "upsert"} /\ failures < MaxFailures
    /\ failures' = failures + 1
    /\ backfill' = [NoBackfill EXCEPT !.pc = "failed"]
    /\ lost' = lost \cup saved
    /\ UNCHANGED <<collection, held, saved, event, store, hooked, crashes>>

\* A process dies and starts anew; events it had not acknowledged come again.
Crash(p) ==
    /\ crashes < MaxCrashes
    /\ crashes' = crashes + 1
    /\ Goto(p, "connect")
    /\ IF p = "worker"
       THEN /\ hooked' = FALSE /\ backfill' = NoBackfill /\ lost' = {}
            /\ event' = [v \in Videos |-> IF event[v] \in {"saving", "copying"} THEN "queued"
                                                                              ELSE event[v]]
       ELSE UNCHANGED <<hooked, backfill, lost, event>>
    /\ UNCHANGED <<collection, held, saved, failures>>

-----------------------------------------------------------------------------
SetUp(p) ==
    \/ Connect(p)
    \/ HasCollection(p)
    \/ CreateCollection(p)
    \/ DescribeIndex(p)
    \/ ReleaseCollection(p)
    \/ DropIndex(p)
    \/ CreateIndex(p)
    \/ LoadCollection(p)
    \/ Retry(p)

Next ==
    \/ \E p \in Processes : SetUp(p) \/ CallFails(p) \/ Crash(p)
    \/ OnReady
    \/ \E v \in Videos : Publish(v) \/ Deliver(v) \/ Save(v) \/ Copy(v)
    \/ ListPage
    \/ UpsertPage
    \/ BackfillFails

Spec == Init /\ [][Next]_vars

\* Each process sets up its store in a goroutine of its own.
FairSpec == Spec /\ \A p \in Processes : WF_vars(SetUp(p))

-----------------------------------------------------------------------------
(* Properties.                                                             *)

\* The video's copy is still to come: with its event, or with the backfill that
\* starts when the store is ready, or has yet to reach it.
ToCome(v) ==
    \/ event[v] \in {"queued", "saving", "copying"}
    \/ ~hooked \/ ~Ready("worker")
    \/ backfill.pc = "list" /\ v > backfill.after
    \/ backfill.pc = "upsert" /\ (v > backfill.after \/ v \in backfill.batch)

\* Every saved embedding is in Milvus or on its way, whenever the store became
\* ready and the worker crashed; all that is lost is what Milvus itself failed
\* to take from a copy or from the backfill of this start of the worker.
Synced == \A v \in saved : v \in held \/ v \in lost \/ ToCome(v)

\* However the two processes race, fail and restart, in the end both stores are
\* ready and the collection has the one index and is loaded.
VectorsReady ==
    <>[](/\ \A p \in Processes : Ready(p)
         /\ collection.index = "new" /\ collection.loaded)
=============================================================================
