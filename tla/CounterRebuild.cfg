CONSTANTS
    u1 = u1
    u2 = u2
    Users = {u1, u2}
    Keys = {}
    NoKey = NoKey
    KeyTarget <- MCKeyTarget
    KeyUse = "optional"
    Shards = {1, 2}
    ShardOf <- MCShardOf
    Warm = {u1}
    Writers = {w1, w2}
    Readers = {f1}
    Legacy = FALSE
    MaxEvictions = 1
SPECIFICATION StatFairSpec
INVARIANT CountedOnce
PROPERTY JSONConverges
CHECK_DEADLOCK FALSE
