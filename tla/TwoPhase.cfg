SPECIFICATION FairSpec
CONSTANTS
    t1 = t1
    t2 = t2
    orderApi = orderApi
    stockApi = stockApi
    NoNode = NoNode
    Transactions <- TwoRuns
    Nodes <- TwoNodes
CHECK_DEADLOCK FALSE
INVARIANTS
    CommitNeedsEveryVote RollbackOnlyAfterCommit DoneRowsAreTrue
    FinishedIsUniform FaultFreeCommits LeftCommittedHadFailure
PROPERTIES
    ImplementsLedger RunsEnd
