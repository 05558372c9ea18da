CONSTANTS
    Families = {f1, f2}
    Tokens = {t1, t2, t3, t4}
    NoToken = NoToken
    Calls = {c1, c2, c3}
    Uploads = {u1, u2}
    Offers <- SomeOffers
SPECIFICATION EitherSpec
INVARIANT SingleActive
INVARIANT RotatedOnce
INVARIANT WipedIsDead
INVARIANT WipedForCause
INVARIANT FilesMatchAnswers
SYMMETRY Symmetry
PROPERTY ImplementsSessions
CHECK_DEADLOCK FALSE
