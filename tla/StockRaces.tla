----------------------------- MODULE StockRaces -----------------------------
(***************************************************************************)
(* How far deliveries that race oversell a product.  A delivery that        *)
(* replaces a document with a copy read before another replacement gives    *)
(* back what that one took: pieces are then sold twice, and no number of    *)
(* deliveries bounds how often.  A history variable tells where it happened. *)
(***************************************************************************)
EXTENDS StockReservation

VARIABLE lost  \* products some replacement of which lost another one

\* FindOneAndReplaceAsync overwrites a count the delivery has not read.
LosesUpdate(o) ==
    /\ step[o] = "replace"
    /\ step'[o] = "reserve"
    /\ stock[Item(o).product] # copy[o]

RacesInit == Init /\ lost = {}

RacesNext ==
    /\ Next \/ Crash
    /\ lost' = lost \union {Item(o).product : o \in {a \in Orders : LosesUpdate(a)}}

RacesSpec == RacesInit /\ [][RacesNext]_<<vars, lost>>

-----------------------------------------------------------------------------
\* The race between the check and the replacement oversells a product by at
\* most one reservation for each further delivery in progress, crashes
\* included, until an update of it is lost (orders that list a product once, and
\* ask for no negative number: that of int.MinValue wraps around).
OversellIsBounded ==
    \A p \in Products \ lost :
        (\A o \in Orders : ListsOnce(o, p)) /\ (\A n \in CountsOf(p) : n >= 0)
            => stock[p] >= -(Limit - 1) * Max({0} \union CountsOf(p))

=============================================================================
