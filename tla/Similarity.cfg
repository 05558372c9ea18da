CONSTANTS
    Videos = {1, 2, 3}
    Hot <- HotScores
    Sim <- Similarities
    Embedded = {1, 2}
    Followed = {2, 3}
    Limit = 1
    PoolLimit = 2
    Quota = 1
    RouteTime = 1
    WaitTime = 2
    CollectTime = 1
    Tolerance = 15
    LastMinute = 1
    MaxClimbs = 1
    MaxChanges = 1
SPECIFICATION Spec
PROPERTY SimilarityCounts
