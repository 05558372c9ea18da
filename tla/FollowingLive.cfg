CONSTANTS
    c1 = c1
    c2 = c2
    Users = {1, 2, 3}
    Keys = {}
    NoKey = NoKey
    InitialFollows <- OldAndNew
    Asks <- AsksOfBoth
    Calls = {c1, c2}
    Nobody = Nobody
    Videos = {1, 2}
    AuthorOf <- OneAuthor
    UploadKeys = {}
    NoUploadKey = NoUploadKey
    Threshold = 2
    BatchSize = 1
    BackfillLimit = 2
    InboxMax = 2
    OutboxMax = 2
    PageSize = 1
    Lapsing = {1}
SPECIFICATION FairSpec
INVARIANT PagesComplete
CHECK_DEADLOCK FALSE
PROPERTY CallsEnd
PROPERTY FollowersSee
