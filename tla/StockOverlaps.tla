--------------------------- MODULE StockOverlaps ---------------------------
(***************************************************************************)
(* What the stock consumer promises wherever its deliveries do not overlap. *)
(* Nothing keeps two deliveries apart (StockRaces), but on a product that   *)
(* no two of them are about to take at once the two loops of the consumer   *)
(* are one atomic step of a stock service, whatever happens to the others.  *)
(* History variables tell where deliveries overlapped, and which of them a  *)
(* crash cut short after the check.                                         *)
(***************************************************************************)
EXTENDS StockReservation

VARIABLES contended,   \* products two deliveries were about to take at once
          interrupted  \* orders a crash redelivered after they were decided

history == <<contended, interrupted>>

\* The delivery has found item i in sufficient number, and not replaced it yet.
Awaits(o, i) ==
    \/ step[o] = "check" /\ enough[o] /\ i < next[o]
    \/ step[o] \in {"reserve", "replace"} /\ i >= next[o]

AwaitsProduct(o, p) ==
    \E i \in DOMAIN Items[o] : Items[o][i].product = p /\ Awaits(o, i)

Contended ==
    {p \in Products : \E a, b \in Orders :
                         a # b /\ AwaitsProduct(a, p) /\ AwaitsProduct(b, p)}

\* The first foreach is over, and its result has had an effect.
Decided(o) == step[o] \in {"reserve", "replace", "refuse", "sent"}

OverlapsInit == Init /\ contended = {} /\ interrupted = {}

OverlapsNext ==
    /\ \/ Next /\ UNCHANGED interrupted
       \/ Crash /\ interrupted' = interrupted \union {o \in Orders : Decided(o)}
    /\ contended' = contended \union Contended'

OverlapsSpec == OverlapsInit /\ [][OverlapsNext]_<<vars, history>>

-----------------------------------------------------------------------------
\* Every order lists the product once, in a number that is not negative.
Orderly(p) ==
    (\A o \in Orders : ListsOnce(o, p)) /\ (\A n \in CountsOf(p) : n >= 0)

\* Below zero a count falls only where two deliveries found the same pieces: a
\* crash and the redelivery after it, which takes the pieces once more, are no
\* cause.  (Two lines for one product, or a count of int.MinValue, are others:
\* each line passes the check by itself, and the difference wraps around.)
NegativeNeedsOverlap ==
    \A p \in Products \ contended :
        Orderly(p) /\ InitialStock[p] >= 0 => stock[p] >= 0

\* The order takes its items from the moment its check is over: what of p the
\* second foreach has still to take is not available.
Outstanding(o, p) ==
    SumFunctionOnSet([i \in DOMAIN Items[o] |-> Items[o][i].count],
                     {i \in DOMAIN Items[o] :
                        /\ step[o] \in {"reserve", "replace"}
                        /\ i >= next[o]
                        /\ Items[o][i].product = p})

Available(p) == stock[p] - SumFunction([o \in Orders |-> Outstanding(o, p)])

Outcome(o) ==
    IF step[o] \in {"reserve", "replace"} \/ "reserved" \in answers[o] THEN "reserved"
    ELSE IF step[o] = "refuse" \/ "notReserved" \in answers[o] THEN "refused"
    ELSE "pending"

\* Overlaps, disorderly orders and crashes each touch their products only.
Disturbed ==
    {p \in Products :
        \/ p \in contended
        \/ ~Orderly(p)
        \/ \E o \in interrupted : \E i \in DOMAIN Items[o] : Items[o][i].product = p}

StockService == INSTANCE Inventory WITH
    available <- [p \in Products |-> Available(p)],
    outcome <- [o \in Orders |-> Outcome(o)],
    disturbed <- Disturbed,
    unsettled <- interrupted

\* The consumer is an atomic stock service to every order that no crash cut
\* short, on every product that no such order and no overlap has touched.
ImplementsInventory == StockService!Spec

=============================================================================
