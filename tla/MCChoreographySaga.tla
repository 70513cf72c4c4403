------------------------- MODULE MCChoreographySaga -------------------------
(***************************************************************************)
(* Instances of ChoreographySaga for TLC: two orders for the last piece of   *)
(* one product, with at most one crash of one of the three processes.        *)
(***************************************************************************)
EXTENDS ChoreographySaga, TLC

CONSTANTS o1, o2, p1

TwoOrders == {o1, o2}
OneProduct == {p1}

OnePieceEach == [o \in TwoOrders |-> <<[product |-> p1, count |-> 1]>>]

LastPiece == [p \in OneProduct |-> 1]

BothVersions == {"basic", "saga"}
SagaOnly == {"saga"}

\* The queue RabbitMQSettings names for Payment.API, and the one it reads.
Wired == {Stock_OrderCreatedEventQueue}
NamedOrWired == {Payment_StockReservedEventQueue, Stock_OrderCreatedEventQueue}

\* "if (true)", and the branch beside it that the code keeps for a refusal.
AsWritten == {TRUE}
EitherBranch == {TRUE, FALSE}

=============================================================================
