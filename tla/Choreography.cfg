SPECIFICATION FairSpec
CONSTANTS
    o1 = o1
    o2 = o2
    p1 = p1
    Unknown = Unknown
    Orders <- TwoOrders
    Products <- OneProduct
    Items <- OnePieceEach
    InitialStock <- LastPiece
    Limit = 2
    IntLimit = 4
    Versions <- BothVersions
    PaymentQueues <- NamedOrWired
    PaymentAnswers <- EitherBranch
    MaxCrashes = 1
CHECK_DEADLOCK FALSE
INVARIANTS TypeOK NoOrderForgotten
PROPERTIES OnlyDoubleAnswersFlip EveryOrderIsDecided ImplementsOrderProcess
