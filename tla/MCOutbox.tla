------------------------------ MODULE MCOutbox ------------------------------
(***************************************************************************)
(* An instance of OutboxPublisher for TLC: two orders, and two runs of the  *)
(* job at a time.                                                           *)
(***************************************************************************)
EXTENDS OutboxPublisher

CONSTANTS o1, o2, j1, j2

TwoOrders == {o1, o2}
TwoJobs == {j1, j2}

=============================================================================
