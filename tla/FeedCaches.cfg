CONSTANTS
    v1 = v1
    v2 = v2
    Videos <- TwoVideos
    Requests = {r1, r2}
    Deletes = {d1}
    VideoOf <- OneVideo
    CardTTL = 1
    MarkerTTL = 2
    MaxRun = 1
    HotVideos = {h1, h2}
    Deltas <- UpAndDown
    Credits = {r1, r2}
    Readers = {p1, p2}
    Limit = 1
    WindowMinutes = 2
    BucketTTL = 3
    WindowTTL = 1
    LastMinute = 3
SPECIFICATION EitherSpec
INVARIANT DeletedHidden
INVARIANT NotStale
INVARIANT WindowsExpire
PROPERTY UnionExact
SYMMETRY Alike
CHECK_DEADLOCK FALSE
