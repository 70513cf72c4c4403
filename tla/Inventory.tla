----------------------------- MODULE Inventory -----------------------------
(***************************************************************************)
(* What a stock service promises to its callers: an order takes all of its  *)
(* items in one step, and only if each is available, or none of them, and   *)
(* is decided once.  Nothing is promised of the products that have been     *)
(* disturbed, and of the outcome of the orders that are unsettled.          *)
(***************************************************************************)
EXTENDS Integers, Sequences, Functions

CONSTANTS Orders, Products, Items, InitialStock

VARIABLES available,  \* [Products -> Int]
          outcome,    \* [Orders -> {"pending", "reserved", "refused"}]
          disturbed,  \* products
          unsettled   \* orders

vars == <<available, outcome, disturbed, unsettled>>

Lines(o) == DOMAIN Items[o]

Wanted(o, p) ==
    SumFunctionOnSet([i \in Lines(o) |-> Items[o][i].count],
                     {i \in Lines(o) : Items[o][i].product = p})

Enough(o, i) == available[Items[o][i].product] >= Items[o][i].count

Init ==
    /\ available = InitialStock
    /\ outcome = [o \in Orders |-> "pending"]
    /\ disturbed \subseteq Products
    /\ unsettled = {}

\* The next value of what is not, and does not become, disturbed or unsettled.
Becomes(p, n) == p \notin disturbed' => available'[p] = n

Decides(o, new) == o \notin unsettled' => outcome'[o] = new

Reserve(o) ==
    /\ outcome[o] = "pending"
    /\ \A i \in Lines(o) : /\ Items[o][i].product \in Products
                           /\ Items[o][i].product \notin disturbed => Enough(o, i)
    /\ \A p \in Products : Becomes(p, available[p] - Wanted(o, p))
    /\ \A a \in Orders : Decides(a, IF a = o THEN "reserved" ELSE outcome[a])

Refuse(o) ==
    /\ outcome[o] = "pending"
    /\ \E i \in Lines(o) : \/ Items[o][i].product \notin Products \ disturbed
                           \/ ~Enough(o, i)
    /\ \A p \in Products : Becomes(p, available[p])
    /\ \A a \in Orders : Decides(a, IF a = o THEN "refused" ELSE outcome[a])

Disturb ==
    /\ \A p \in Products : Becomes(p, available[p])
    /\ \A a \in Orders : Decides(a, outcome[a])

Next ==
    /\ disturbed \subseteq disturbed'
    /\ unsettled \subseteq unsettled'
    /\ Disturb \/ \E o \in Orders \ unsettled : Reserve(o) \/ Refuse(o)

Spec == Init /\ [][Next]_vars

=============================================================================
