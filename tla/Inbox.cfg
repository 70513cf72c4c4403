SPECIFICATION FairSpec
CONSTANTS
    o1 = o1
    o2 = o2
    d1 = d1
    d2 = d2
    Orders <- TwoOrders
    Deliveries <- TwoDeliveries
    MaxCopies = 2
    MaxCrashes = 1
CHECK_DEADLOCK FALSE
INVARIANTS NothingIsLost RepeatedHandlingHasCause
PROPERTY EveryEventIsProcessed
