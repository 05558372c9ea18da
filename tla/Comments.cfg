CONSTANTS
    u1 = u1
    u2 = u2
    u3 = u3
    k1 = k1
    c1 = c1
    c2 = c2
    c3 = c3
    d1 = d1
    d2 = d2
    Users = {u1, u2, u3}
    Author = u2
    Admins = {u3}
    Keys = {k1}
    NoKey = NoKey
    Calls = {c1, c2, c3, d1, d2}
    Asks <- AnyoneOrAuthor
    Likers = {l1}
    Readers = {f1}
    Workloads <- TableOrDisplay
    MaxComments = 3
SPECIFICATION FairSpec
INVARIANT CountIsLiveComments
INVARIANT OneCommentPerKey
INVARIANT QuietHotScore
INVARIANT QuietTold
PROPERTY JSONConverges
CHECK_DEADLOCK FALSE
