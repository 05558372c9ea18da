CONSTANTS
    c1 = c1
    c2 = c2
    Users = {1, 2, 3}
    Keys = {k1}
    NoKey = NoKey
    InitialFollows <- OldAndNew
    Asks <- AsksOfOne
    Calls = {c1, c2}
    Nobody = Nobody
    Videos = {1, 2}
    AuthorOf <- OneAuthor
    UploadKeys = {ku}
    NoUploadKey = NoUploadKey
    Threshold = 3
    BatchSize = 1
    BackfillLimit = 2
    InboxMax = 2
    OutboxMax = 2
    PageSize = 1
    Lapsing = {2}
SPECIFICATION Spec
INVARIANT TypeOK
INVARIANT StatsAreDegrees
INVARIANT OneVideoPerKey
INVARIANT FollowersServed
INVARIANT FollowersOnly
SYMMETRY CallSymmetry
CHECK_DEADLOCK FALSE
