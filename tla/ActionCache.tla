---------------------------- MODULE ActionCache ----------------------------
(***************************************************************************)
(* The Redis side of likes and favourites on one video: the action hash of *)
(* each user, the counter hash (base), its shards of increments and the    *)
(* stat JSON the feed reads.  Script is the Lua script actionStateScript,  *)
(* atomic in Redis; the reads that follow it are separate commands.        *)
(*                                                                         *)
(* A counter carries the epoch of the base it belongs to.  Missing is a    *)
(* hash without the field (data written before the field existed), Blank   *)
(* the empty string the script binds shards of such a base to, and larger  *)
(* numbers are the random values of newInteractionStatEpoch.               *)
(***************************************************************************)
EXTENDS Interaction, FiniteSetsExt

CONSTANTS
    Shards,   \* counter shards (0..15 in the code)
    ShardOf,  \* userID % 16
    Warm      \* users whose active action hash is already in Redis

VARIABLES
    hash,       \* interaction:action:v1:{user}:{video}:{type}
    base,       \* video:stat:counter:v1:{video}
    shards,     \* video:stat:counter:v1:{video}:shard:{n}
    json,       \* video:stat:v1:{video}
    nextEpoch,  \* the next fresh epoch
    lastShard   \* the shard the last script touched: it expires with base

cacheVars == <<hash, base, shards, json, nextEpoch, lastShard>>

ASSUME CacheAssumption ==
    /\ IsFiniteSet(Shards) /\ Shards \subseteq Nat /\ Shards # {}
    /\ ShardOf \in [Users -> Shards]
    /\ Warm \subseteq Users

Missing == 0
Blank == 1

\* What HGetAll(...)["epoch"] yields in Go: "" for a missing field.
EpochRead(epoch) == IF epoch = Missing THEN Blank ELSE epoch

Hash == [status : Statuses, key : Keys \cup {NoKey}]
NoHash == [status |-> Absent, key |-> NoKey]

\* A counter hash, and the JSON: a key that may be gone.
Counter == [live : BOOLEAN, count : Int, epoch : Nat]
Gone == [live |-> FALSE, count |-> 0, epoch |-> Missing]

CacheTypeOK ==
    /\ hash \in [Users -> Hash]
    /\ base \in Counter
    /\ shards \in [Shards -> Counter]
    /\ json \in Counter
    /\ nextEpoch \in Nat
    /\ lastShard \in Shards

CacheInit ==
    /\ hash = [u \in Users |-> IF u \in Warm THEN [NoHash EXCEPT !.status = Active]
                                             ELSE NoHash]
    /\ base = Gone
    /\ shards = [s \in Shards |-> Gone]
    /\ json = Gone
    /\ nextEpoch = Blank + 1
    /\ lastShard \in Shards

-----------------------------------------------------------------------------
(* actionStateScript.                                                      *)

SameKey(stored, key) == stored.key = key /\ key # NoKey

\* Mutant of ScriptDelta: a like in a row of likes counts again.
ScriptDeltaRepeats(stored, active, key) ==
    IF SameKey(stored, key) THEN 0
    ELSE IF active THEN 1
    ELSE IF stored.status # Active THEN 0 ELSE -1

\* Mutant of ScriptDelta: a like after a cancellation counts for two.
ScriptDeltaTwice(stored, active, key) ==
    IF SameKey(stored, key) \/ stored.status = StatusOf(active) THEN 0
    ELSE IF active THEN (IF stored.status = Absent THEN 1 ELSE 2)
    ELSE IF stored.status = Absent THEN 0 ELSE -1

\* Mutant of ScriptDelta: cancellations are not counted.
ScriptDeltaLikesOnly(stored, active, key) ==
    IF SameKey(stored, key) \/ stored.status = StatusOf(active) \/ ~active THEN 0 ELSE 1

ScriptDelta(stored, active, key) ==
    IF SameKey(stored, key) \/ stored.status = StatusOf(active) THEN 0
    ELSE IF active THEN 1
    ELSE IF stored.status = Absent THEN 0 ELSE -1

\* effectiveStatus: a repeated key answers with the stored state.
ScriptStatus(stored, active, key) ==
    IF SameKey(stored, key) THEN stored.status ELSE StatusOf(active)

\* Mutant of BaseAfter: the snapshot overwrites a base that is there.
BaseAfterReset(initial) ==
    [live |-> TRUE, count |-> initial, epoch |-> IF base.live THEN base.epoch ELSE nextEpoch]

\* Mutant of BaseAfter: a base made anew keeps no epoch of its own.
BaseAfterNoEpoch(initial) ==
    IF base.live THEN base
                 ELSE [live |-> TRUE, count |-> initial, epoch |-> Blank]

BaseAfter(initial) ==
    IF base.live THEN base
                 ELSE [live |-> TRUE, count |-> initial, epoch |-> nextEpoch]

\* Mutant of ShardAfter: a shard left from another base keeps its count.
ShardAfterKept(shard, epoch, delta) ==
    [live |-> TRUE, count |-> (IF shard.live THEN shard.count ELSE 0) + delta, epoch |-> epoch]

\* A shard left from another base is zeroed and bound to this one.
ShardAfter(shard, epoch, delta) ==
    LET kept == IF shard.live /\ shard.epoch = epoch THEN shard.count ELSE 0
    IN  [live |-> TRUE, count |-> kept + delta, epoch |-> epoch]

\* `initial` is the like_count the request read from MySQL beforehand.
Script(u, active, key, initial) ==
    LET delta == ScriptDelta(hash[u], active, key)
        epoch == EpochRead(BaseAfter(initial).epoch)
        s     == ShardOf[u]
    IN  /\ hash' = [hash EXCEPT ![u] =
                      [status |-> ScriptStatus(@, active, key), key |-> key]]
        /\ base' = BaseAfter(initial)
        /\ shards' = [shards EXCEPT ![s] = ShardAfter(@, epoch, delta)]
        /\ nextEpoch' = IF base.live THEN nextEpoch ELSE nextEpoch + 1
        /\ lastShard' = s
        /\ UNCHANGED json

-----------------------------------------------------------------------------
(* Reading the count: the base, then the shards, then the JSON rewritten.  *)

\* The shards whose increments belong on top of base b.
Matching(b, sh) == {s \in Shards : sh[s].live /\ EpochRead(sh[s].epoch) = EpochRead(b.epoch)}

\* What the shards of S have counted.
ShardSum(sh, S) == MapThenSumSet(LAMBDA s : sh[s].count, S)

\* applyActionStatShardDeltas.
CountOver(b, sh) == Clamp(b.count + ShardSum(sh, Matching(b, sh)))

\* setActionStatJSON; whoever calls it ignores its error.
WriteJSON(count) == json' \in {json, [live |-> TRUE, count |-> count, epoch |-> Missing]}

-----------------------------------------------------------------------------
(* Keys that go away.  The script renews base and the shard it touches for *)
(* the same 24 hours, so a shard no user of which acts expires under a     *)
(* base the others keep alive, and base expires with the last of them.     *)

ExpireShard(s) ==
    /\ shards[s].live
    /\ base.live => s # lastShard
    /\ shards' = [shards EXCEPT ![s] = Gone]
    /\ UNCHANGED <<hash, base, json, nextEpoch, lastShard>>

ExpireCounters ==
    /\ base.live
    /\ base' = Gone
    /\ shards' = [s \in Shards |-> Gone]
    /\ UNCHANGED <<hash, json, nextEpoch, lastShard>>

\* Redis evicts the base under memory pressure; its shards stay.
EvictBase ==
    /\ base.live
    /\ base' = Gone
    /\ UNCHANGED <<hash, shards, json, nextEpoch, lastShard>>

\* 30 days without an action of u, or an eviction.
ExpireHash(u) ==
    /\ hash[u] # NoHash
    /\ hash' = [hash EXCEPT ![u] = NoHash]
    /\ UNCHANGED <<base, shards, json, nextEpoch, lastShard>>

\* Mutant of ExpireJSON: the JSON is written without a TTL.
ExpireJSONNever == FALSE

\* actionStatJSONTTL, 15 seconds.
ExpireJSON ==
    /\ json.live
    /\ json' = Gone
    /\ UNCHANGED <<hash, base, shards, nextEpoch, lastShard>>
=============================================================================
