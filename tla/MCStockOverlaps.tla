-------------------------- MODULE MCStockOverlaps --------------------------
(***************************************************************************)
(* An instance of StockOverlaps for TLC: two of the three orders can be     *)
(* served and share a product, two share another; the third asks for a      *)
(* product that does not exist.                                             *)
(***************************************************************************)
EXTENDS StockOverlaps, TLC

CONSTANTS o1, o2, o3, p1, p2, p3

ThreeOrders == {o1, o2, o3}
ThreeProducts == {p1, p2, p3}

Line(p, n) == [product |-> p, count |-> n]

\* o3 asks for as few pieces of p3 as an int can count: any stock is enough,
\* and subtracting it wraps around.
OverlappingItems ==
    o1 :> <<Line(p1, 1), Line(p2, 2)>> @@
    o2 :> <<Line(Unknown, 1), Line(p1, 1)>> @@
    o3 :> <<Line(p2, 1), Line(p3, -IntLimit)>>

SmallStock == p1 :> 1 @@ p2 :> 2 @@ p3 :> 0

=============================================================================
