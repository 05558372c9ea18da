CONSTANTS
    u1 = u1
    u2 = u2
    r1 = r1
    r2 = r2
    r3 = r3
    k1 = k1
    k2 = k2
    k3 = k3
    k4 = k4
    Users <- TwoUsers
    Keys = {k1}
    NoKey = NoKey
    KeyTarget <- MCKeyTarget
    KeyUse = "optional"
    InitiallyLiked = {u1}
    Warm = {u1}
    MaxClock = 2
    Shards = {1, 2}
    ShardOf <- TwoShards
    Requests = {r1, r2}
    Author = u2
    Faults = {"publish", "db", "lookup", "workerCrash", "credit", "syncdb", "expire"}
SPECIFICATION FairSpec
INVARIANT TypeOK
INVARIANT QuiescentAgreement
INVARIANT QuiescentCounts
INVARIANT QuiescentHotScore
PROPERTY ActionsLand
CHECK_DEADLOCK FALSE
