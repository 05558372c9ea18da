CONSTANTS
    u1 = u1
    u2 = u2
    r1 = r1
    r2 = r2
    r3 = r3
    k1 = k1
    k2 = k2
    k3 = k3
    k4 = k4
    Users <- OneUser
    Keys = {k1, k2, k3, k4}
    NoKey = NoKey
    KeyTarget <- MCKeyTarget
    KeyUse = "fresh"
    InitiallyLiked = {}
    Warm = {}
    MaxClock = 3
    Shards = {1}
    ShardOf <- OneShard
    Requests = {r1, r2}
    Author = u2
    Faults = {"script", "read", "publish", "lost", "apiCrash", "syncdb", "db", "workerCrash", "unpublish", "expire", "evict", "message"}
SPECIFICATION Spec
CHECK_DEADLOCK FALSE
SYMMETRY RequestSymmetry
INVARIANT CountIsActiveRows
PROPERTY ImplementsFacts
PROPERTY AppliedInOrder
