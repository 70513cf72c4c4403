----------------------- MODULE MCTwoPhaseCoordinator -----------------------
(***************************************************************************)
(* Instances of TwoPhaseCoordinator for TLC: one run of the endpoint, or    *)
(* two concurrent ones, over two services.                                  *)
(***************************************************************************)
EXTENDS TwoPhaseCoordinator, TLC

CONSTANTS t1, t2, orderApi, stockApi

OneRun == {t1}
TwoRuns == {t1, t2}
TwoNodes == {orderApi, stockApi}

\* Nothing distinguishes the nodes, nor the runs; used for safety only.
Symmetry == Permutations(Transactions) \union Permutations(Nodes)

=============================================================================
