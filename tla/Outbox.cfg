SPECIFICATION FairSpec
CONSTANTS
    o1 = o1
    o2 = o2
    j1 = j1
    j2 = j2
    Orders <- TwoOrders
    Jobs <- TwoJobs
    MaxCrashes = 1
CHECK_DEADLOCK FALSE
INVARIANTS MarkedRowsArePublished FlagExcludes
PROPERTY EveryRowIsPublished
