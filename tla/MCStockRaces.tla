---------------------------- MODULE MCStockRaces ----------------------------
(***************************************************************************)
(* An instance of StockRaces for TLC: five orders for one product.  With    *)
(* three deliveries at a time it is the smallest in which a lost update     *)
(* oversells the product by more than two reservations.                     *)
(***************************************************************************)
EXTENDS StockRaces, TLC

CONSTANTS o1, o2, o3, o4, o5, p1

FiveOrders == {o1, o2, o3, o4, o5}

OneProduct == {p1}

Line(p, n) == [product |-> p, count |-> n]

\* o1 may give back what two of the others took.
ItemsOfOneProduct ==
    [o \in FiveOrders |-> <<Line(p1, IF o = o1 THEN 1 ELSE 2)>>]

StockForTwo == p1 :> 3

EqualOrders == Permutations({o2, o3, o4, o5})

=============================================================================
