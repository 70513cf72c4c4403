------------------------ MODULE MCOrchestrationSaga ------------------------
(***************************************************************************)
(* Instances of OrchestrationSaga for TLC: orders for the last piece of one *)
(* product, with and without a crash.                                       *)
(***************************************************************************)
EXTENDS OrchestrationSaga, TLC

CONSTANTS o1, o2, p1

TwoOrders == {o1, o2}
OneProduct == {p1}

OnePieceEach == [o \in TwoOrders |-> <<[product |-> p1, count |-> 1]>>]

LastPiece == [p \in OneProduct |-> 1]

\* The branch Payment.API takes, and the one it has for a refusal.
EitherBranch == {TRUE, FALSE}

=============================================================================
