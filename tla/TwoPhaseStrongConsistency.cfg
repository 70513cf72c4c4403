SPECIFICATION Spec
CONSTANTS
    t1 = t1
    t2 = t2
    orderApi = orderApi
    stockApi = stockApi
    NoNode = NoNode
    Transactions <- OneRun
    Nodes <- TwoNodes
SYMMETRY Symmetry
CHECK_DEADLOCK FALSE
INVARIANT StrongConsistency
