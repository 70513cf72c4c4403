SPECIFICATION OverlapsSpec
CONSTANTS
    o1 = o1
    o2 = o2
    o3 = o3
    p1 = p1
    p2 = p2
    p3 = p3
    Unknown = Unknown
    Orders <- ThreeOrders
    Products <- ThreeProducts
    Items <- OverlappingItems
    InitialStock <- SmallStock
    Limit = 2
    IntLimit = 3
CHECK_DEADLOCK FALSE
INVARIANT NegativeNeedsOverlap
PROPERTY ImplementsInventory
