SPECIFICATION FairSpec
CONSTANTS
    o1 = o1
    o2 = o2
    o3 = o3
    o4 = o4
    p1 = p1
    p2 = p2
    Unknown = Unknown
    Orders <- FourOrders
    Products <- TwoProducts
    Items <- CompetingItems
    InitialStock <- SmallStock
    Limit = 3
    IntLimit = 3
CHECK_DEADLOCK FALSE
INVARIANTS DocumentsExist NothingVanishes
PROPERTY EveryOrderIsAnswered
