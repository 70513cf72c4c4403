SPECIFICATION RacesSpec
CONSTANTS
    o1 = o1
    o2 = o2
    o3 = o3
    o4 = o4
    o5 = o5
    p1 = p1
    Unknown = Unknown
    Orders <- FiveOrders
    Products <- OneProduct
    Items <- ItemsOfOneProduct
    InitialStock <- StockForTwo
    Limit = 3
    IntLimit = 8
SYMMETRY EqualOrders
CHECK_DEADLOCK FALSE
INVARIANT OversellIsBounded
