------------------------------ MODULE MCInbox ------------------------------
(***************************************************************************)
(* An instance of Inbox for TLC: two orders, each published twice, and two  *)
(* deliveries at a time.                                                    *)
(***************************************************************************)
EXTENDS Inbox

CONSTANTS o1, o2, d1, d2

TwoOrders == {o1, o2}
TwoDeliveries == {d1, d2}

=============================================================================
