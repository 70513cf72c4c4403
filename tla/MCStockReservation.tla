------------------------- MODULE MCStockReservation -------------------------
(***************************************************************************)
(* Instances of StockReservation for TLC: orders that compete for two      *)
(* products, one of them for a product that does not exist.                 *)
(***************************************************************************)
EXTENDS StockReservation, TLC

CONSTANTS o1, o2, o3, o4, p1, p2

ThreeOrders == {o1, o2, o3}
FourOrders == ThreeOrders \union {o4}
TwoProducts == {p1, p2}

Line(p, n) == [product |-> p, count |-> n]

\* o1 and o2 list the products in opposite orders and cannot both be
\* served; o4 asks for a product without a document.
CompetingItems ==
    o1 :> <<Line(p1, 1), Line(p2, 2)>> @@
    o2 :> <<Line(p2, 1), Line(p1, 2)>> @@
    o3 :> <<Line(p1, 1)>> @@
    o4 :> <<Line(Unknown, 1)>>

SmallStock == p1 :> 2 @@ p2 :> 2

=============================================================================
