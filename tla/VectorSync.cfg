CONSTANTS
    Videos = {1, 2}
    PageSize = 1
    MaxFailures = 2
    MaxCrashes = 2
SPECIFICATION FairSpec
INVARIANT Synced
PROPERTY VectorsReady
CHECK_DEADLOCK FALSE
