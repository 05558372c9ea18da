CONSTANTS
    r1 = r1
    r2 = r2
    Kinds = {"timeline", "hot", "comments", "messages", "follows"}
    Rows = {1, 2, 3}
    Times = {1, 2}
    Scores = {1, 2}
    Limit = 1
    Readers <- TwoReaders
    Processes = {p1}
    MaxChanges = 1
SPECIFICATION FairSpec
INVARIANT ListedOnce
PROPERTY WaitersReleased
