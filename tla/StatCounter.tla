----------------------------- MODULE StatCounter -----------------------------
(***************************************************************************)
(* The like counter of one video in Redis under concurrent requests, feed  *)
(* readers and lost keys.  Requests run the script and then read the       *)
(* counter back; feed readers load it into the stat JSON.  A read takes    *)
(* the base first and the shards one by one, so a base rebuilt in between  *)
(* meets shards of another epoch.  The worker is reduced to its effect on  *)
(* video_stat: the published deltas, in order.                             *)
(***************************************************************************)
EXTENDS ActionCache, Sequences

CONSTANTS
    Writers,       \* requests, one action each
    Readers,       \* feed requests, any number each
    Legacy,        \* the counters were written before they had epochs
    MaxEvictions   \* bound on lost bases

VARIABLES
    proc,       \* the locals of each writer and reader
    stored,     \* video_stat.like_count
    deltas,     \* deltas on their way to MySQL
    evictions,  \* bases lost so far
    owed        \* history: base snapshot plus the deltas scripts credited to it

statVars == <<proc, stored, deltas, evictions, owed>>
counterVars == <<cacheVars, statVars>>

Procs == Writers \cup Readers

ASSUME StatAssumption ==
    /\ Writers \cap Readers = {}
    /\ Legacy \in BOOLEAN
    /\ MaxEvictions \in Nat

\* `user` and `active` are a writer's; `initial` is the MySQL count it read,
\* `sum` and `todo` the progress through the shards.
Locals ==
    [pc : {"idle", "script", "base", "shards", "fallback", "load", "json", "done"},
     user : Users, active : BOOLEAN, initial : Nat,
     base : Counter, sum : Int, todo : SUBSET Shards, count : Nat]

Free == [pc |-> "idle", user |-> CHOOSE u \in Users : TRUE, active |-> TRUE,
         initial |-> 0, base |-> Gone, sum |-> 0, todo |-> {}, count |-> 0]

StatTypeOK ==
    /\ CacheTypeOK
    /\ proc \in [Procs -> Locals]
    /\ stored \in Nat
    /\ deltas \in Seq({-1, 1})
    /\ evictions \in 0..MaxEvictions
    /\ owed \in Int

\* The users of Warm like the video; in legacy data one increment per shard
\* sits on top of the base.
StatInit ==
    /\ hash = [u \in Users |-> IF u \in Warm THEN [NoHash EXCEPT !.status = Active]
                                             ELSE NoHash]
    /\ base = IF Legacy THEN [Gone EXCEPT !.live = TRUE] ELSE Gone
    /\ shards = [s \in Shards |-> IF Legacy THEN [Gone EXCEPT !.live = TRUE, !.count = 1]
                                            ELSE Gone]
    /\ json = Gone
    /\ nextEpoch = Blank + 1
    /\ lastShard \in Shards
    /\ stored = IF Legacy THEN Cardinality(Shards) ELSE Cardinality(Warm)
    /\ owed = stored
    /\ proc = [p \in Procs |-> Free]
    /\ deltas = <<>>
    /\ evictions = 0

-----------------------------------------------------------------------------
(* A request: setActionAsync and SetActionState.                           *)

\* GetVideoStat.
Begin(w, u, active) ==
    /\ proc[w].pc = "idle"
    /\ proc' = [proc EXCEPT ![w] = [@ EXCEPT !.pc = "script", !.user = u, !.active = active,
                                             !.initial = stored]]
    /\ UNCHANGED <<cacheVars, stored, deltas, evictions, owed>>

RunStatScript(w) ==
    /\ proc[w].pc = "script"
    /\ LET p == proc[w]
           delta == ScriptDelta(hash[p.user], p.active, NoKey) IN
       /\ Script(p.user, p.active, NoKey, p.initial)
       /\ owed' = (IF base.live THEN owed ELSE p.initial) + delta
       /\ deltas' = IF delta = 0 THEN deltas ELSE Append(deltas, delta)
    /\ proc' = [proc EXCEPT ![w].pc = "base"]
    /\ UNCHANGED <<stored, evictions>>

-----------------------------------------------------------------------------
(* A feed request: getStats, and BatchGetFeedStats with SetStats on a miss. *)

\* MGET of the JSON misses.
Miss(r) ==
    /\ proc[r].pc = "idle"
    /\ ~json.live
    /\ proc' = [proc EXCEPT ![r].pc = "base"]
    /\ UNCHANGED <<cacheVars, stored, deltas, evictions, owed>>

\* BatchGetFeedStats.
Load(r) ==
    /\ proc[r].pc = "load"
    /\ proc' = [proc EXCEPT ![r] = [@ EXCEPT !.pc = "json", !.count = stored]]
    /\ UNCHANGED <<cacheVars, stored, deltas, evictions, owed>>

-----------------------------------------------------------------------------
(* Both: actionStatWithPresence, and the JSON rewritten.                   *)

TakeBase(p) ==
    /\ proc[p].pc = "base"
    /\ proc' = [proc EXCEPT ![p] =
                  IF base.live
                    THEN [@ EXCEPT !.pc = "shards", !.base = base, !.sum = 0, !.todo = Shards]
                    ELSE [@ EXCEPT !.pc = "fallback"]]
    /\ UNCHANGED <<cacheVars, stored, deltas, evictions, owed>>

\* The pipelined HGETALLs run in the order of the shards, other clients'
\* commands in between.
ReadShard(p) ==
    /\ proc[p].pc = "shards"
    /\ LET q == proc[p]
           s == Min(q.todo)
           sum == q.sum + IF s \in Matching(q.base, shards) THEN shards[s].count ELSE 0
       IN  proc' = [proc EXCEPT ![p] =
                      IF q.todo = {s}
                        THEN [q EXCEPT !.pc = "json", !.count = Clamp(q.base.count + sum),
                                       !.todo = {}, !.sum = 0, !.base = Gone]
                        ELSE [q EXCEPT !.todo = @ \ {s}, !.sum = sum]]
    /\ UNCHANGED <<cacheVars, stored, deltas, evictions, owed>>

\* actionStatFallback: the JSON, else what a request read from MySQL, else a
\* feed request loads it.
TakeFallback(p) ==
    /\ proc[p].pc = "fallback"
    /\ proc' = [proc EXCEPT ![p] =
                  IF json.live        THEN [@ EXCEPT !.pc = "json", !.count = json.count]
                  ELSE IF p \in Writers THEN [@ EXCEPT !.pc = "json", !.count = proc[p].initial]
                  ELSE [@ EXCEPT !.pc = "load"]]
    /\ UNCHANGED <<cacheVars, stored, deltas, evictions, owed>>

StoreJSON(p) ==
    /\ proc[p].pc = "json"
    /\ WriteJSON(proc[p].count)
    /\ proc' = [proc EXCEPT ![p] = IF p \in Writers THEN [Free EXCEPT !.pc = "done"] ELSE Free]
    /\ UNCHANGED <<hash, base, shards, nextEpoch, lastShard, stored, deltas, evictions, owed>>

-----------------------------------------------------------------------------
(* The environment.                                                        *)

\* The worker writes the next delta to MySQL.
Persist ==
    /\ deltas # <<>>
    /\ stored' = Clamp(stored + Head(deltas))
    /\ deltas' = Tail(deltas)
    /\ UNCHANGED <<cacheVars, proc, evictions, owed>>

LoseBase ==
    /\ evictions < MaxEvictions
    /\ EvictBase
    /\ evictions' = evictions + 1
    /\ UNCHANGED <<proc, stored, deltas, owed>>

LoseJSON == ExpireJSON /\ UNCHANGED statVars

Step(p) ==
    \/ RunStatScript(p) \/ Load(p)
    \/ TakeBase(p) \/ ReadShard(p) \/ TakeFallback(p) \/ StoreJSON(p)

StatNext ==
    \/ \E w \in Writers, u \in Users, active \in BOOLEAN : Begin(w, u, active)
    \/ \E r \in Readers : Miss(r)
    \/ \E p \in Procs : Step(p)
    \/ Persist \/ LoseBase \/ LoseJSON

StatSpec == StatInit /\ [][StatNext]_counterVars

\* Requests run on, and the JSON expires after 15 seconds.
StatFairSpec ==
    /\ StatSpec
    /\ \A p \in Procs : WF_counterVars(Step(p))
    /\ WF_counterVars(LoseJSON)

-----------------------------------------------------------------------------
(* Properties.                                                             *)

Total == base.count + ShardSum(shards, Matching(base, shards))

\* base and its shards add up to the snapshot the base was made from plus each
\* change credited since, exactly once, however often the base was lost and
\* rebuilt over shards that stayed (the epochs of actionStateScript).
CountedOnce == base.live => Total = owed

\* A read that overlapped a rebuild or another writer may store a wrong count
\* in the JSON, but the JSON does not stay wrong: in the end it shows the
\* counter whenever there is one to show.
JSONConverges == <>[](base.live /\ json.live => json.count = Clamp(Total))
=============================================================================
