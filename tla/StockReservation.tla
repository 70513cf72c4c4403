-------------------------- MODULE StockReservation --------------------------
(***************************************************************************)
(* Stock.API's OrderCreatedEventConsumer: it finds every item of an order   *)
(* in the MongoDB collection, and only if all are there in sufficient       *)
(* number reads and replaces the documents one after the other, without a   *)
(* transaction, a version or a lock.  MassTransit runs up to Limit          *)
(* deliveries at once, and delivers again what a dead process had not       *)
(* acknowledged.                                                            *)
(***************************************************************************)
EXTENDS Integers, Sequences, FiniteSets, FiniteSetsExt

CONSTANTS Orders,        \* each the OrderCreatedEvent of one order
          Products,      \* ProductIds with a document in the collection
          Unknown,       \* a ProductId with none
          Items,         \* [Orders -> Seq(OrderItem)]: OrderItems
          InitialStock,  \* [Products -> Ints]: the seed data
          Limit,         \* deliveries consumed at the same time
          IntLimit       \* 2^31: an int lies between -IntLimit and IntLimit - 1

ASSUME LimitAssumption == Limit \in Nat \ {0}

ASSUME IntAssumption == IntLimit \in Nat \ {0}

\* The range of a C# int, and its unchecked arithmetic.
Ints == -IntLimit .. IntLimit - 1

Wrap(n) == ((n + IntLimit) % (2 * IntLimit)) - IntLimit

\* The endpoint of Order.API validates neither the product nor the count.
OrderItem == [product : Products \union {Unknown}, count : Ints]

ASSUME OrdersAssumption == IsFiniteSet(Orders)

ASSUME ProductsAssumption == Unknown \notin Products

ASSUME ItemsAssumption == Items \in [Orders -> Seq(OrderItem)]

ASSUME StockAssumption == InitialStock \in [Products -> Ints]

VARIABLES stock,   \* [Products -> Ints]: Count of each document
          step,    \* [Orders -> Steps]: where the delivery is
          next,    \* the item the running foreach is at
          enough,  \* stockResult: TRUE while every item was found
          copy,    \* Count of the document held between read and replace
          answers  \* events sent for the order

vars == <<stock, step, next, enough, copy, answers>>

-----------------------------------------------------------------------------
Steps == {"none", "queued", "check", "reserve", "replace", "refuse", "sent",
          "done"}

Answers == {"reserved", "notReserved"}

Active(o) == step[o] \notin {"none", "queued", "done"}

Item(o) == Items[o][next[o]]

LoopOver(o) == next[o] > Len(Items[o])

Init ==
    /\ stock = InitialStock
    /\ step = [o \in Orders |-> "none"]
    /\ next = [o \in Orders |-> 1]
    /\ enough = [o \in Orders |-> TRUE]
    /\ copy = [o \in Orders |-> 0]
    /\ answers = [o \in Orders |-> {}]

\* Order.API publishes the event of a new order.
Arrive(o) ==
    /\ step[o] = "none"
    /\ step' = [step EXCEPT ![o] = "queued"]
    /\ UNCHANGED <<stock, next, enough, copy, answers>>

\* The broker hands the message to a new consumer object.
Deliver(o) ==
    /\ step[o] = "queued"
    /\ Cardinality({other \in Orders : Active(other)}) < Limit
    /\ step' = [step EXCEPT ![o] = "check"]
    /\ next' = [next EXCEPT ![o] = 1]
    /\ enough' = [enough EXCEPT ![o] = TRUE]
    /\ UNCHANGED <<stock, copy, answers>>

\* Mutant: the count is not compared.
InStockAtAll(item) == item.product \in Products

\* Mutant: a product that is not found does not refuse the order.
InStockIfFound(item) ==
    item.product \in Products => stock[item.product] >= item.count

\* FindAsync(product and Count >= wanted).Any().
InStock(item) == item.product \in Products /\ stock[item.product] >= item.count

\* Mutant: the result of the last item overrides the others.
CheckKeepsLast(o) ==
    /\ step[o] = "check"
    /\ ~LoopOver(o)
    /\ enough' = [enough EXCEPT ![o] = InStock(Item(o))]
    /\ next' = [next EXCEPT ![o] = @ + 1]
    /\ UNCHANGED <<stock, step, copy, answers>>

\* One turn of the first foreach; it does not stop at a missing item.
CheckItem(o) ==
    /\ step[o] = "check"
    /\ ~LoopOver(o)
    /\ enough' = [enough EXCEPT ![o] = @ /\ InStock(Item(o))]
    /\ next' = [next EXCEPT ![o] = @ + 1]
    /\ UNCHANGED <<stock, step, copy, answers>>

\* Mutant: there is no else branch.
DecideIfEnough(o) ==
    /\ step[o] = "check"
    /\ LoopOver(o)
    /\ enough[o]
    /\ step' = [step EXCEPT ![o] = "reserve"]
    /\ next' = [next EXCEPT ![o] = 1]
    /\ UNCHANGED <<stock, enough, copy, answers>>

\* stockResult.TrueForAll
Decide(o) ==
    /\ step[o] = "check"
    /\ LoopOver(o)
    /\ step' = [step EXCEPT ![o] = IF enough[o] THEN "reserve" ELSE "refuse"]
    /\ next' = [next EXCEPT ![o] = 1]
    /\ UNCHANGED <<stock, enough, copy, answers>>

\* One turn of the second foreach is a read, a subtraction in memory and a
\* replacement of the whole document.
ReadItem(o) ==
    /\ step[o] = "reserve"
    /\ ~LoopOver(o)
    /\ copy' = [copy EXCEPT ![o] = stock[Item(o).product]]
    /\ step' = [step EXCEPT ![o] = "replace"]
    /\ UNCHANGED <<stock, next, enough, answers>>

\* Mutant: the document keeps the count of the item, not the difference.
ReplaceItemByCount(o) ==
    /\ step[o] = "replace"
    /\ stock' = [stock EXCEPT ![Item(o).product] = Wrap(-Item(o).count)]
    /\ next' = [next EXCEPT ![o] = @ + 1]
    /\ step' = [step EXCEPT ![o] = "reserve"]
    /\ UNCHANGED <<enough, copy, answers>>

ReplaceItem(o) ==
    /\ step[o] = "replace"
    /\ stock' = [stock EXCEPT ![Item(o).product] = Wrap(copy[o] - Item(o).count)]
    /\ next' = [next EXCEPT ![o] = @ + 1]
    /\ step' = [step EXCEPT ![o] = "reserve"]
    /\ UNCHANGED <<enough, copy, answers>>

Answer(o, answer) ==
    /\ answers' = [answers EXCEPT ![o] = @ \union {answer}]
    /\ step' = [step EXCEPT ![o] = "sent"]
    /\ UNCHANGED <<stock, next, enough, copy>>

\* Send to Payment's queue, or Publish.
SendStockReserved(o) ==
    /\ step[o] = "reserve"
    /\ LoopOver(o)
    /\ Answer(o, "reserved")

PublishStockNotReserved(o) ==
    /\ step[o] = "refuse"
    /\ Answer(o, "notReserved")

\* Consume has returned and the broker forgets the message.
Acknowledge(o) ==
    /\ step[o] = "sent"
    /\ step' = [step EXCEPT ![o] = "done"]
    /\ UNCHANGED <<stock, next, enough, copy, answers>>

\* The process dies; what it had not acknowledged is queued again.
Crash ==
    /\ \E o \in Orders : Active(o)
    /\ step' = [o \in Orders |-> IF Active(o) THEN "queued" ELSE step[o]]
    /\ next' = [o \in Orders |-> 1]
    /\ enough' = [o \in Orders |-> TRUE]
    /\ copy' = [o \in Orders |-> 0]
    /\ UNCHANGED <<stock, answers>>

\* The consumer's own steps.
Consume(o) ==
    \/ CheckItem(o)
    \/ Decide(o)
    \/ ReadItem(o)
    \/ ReplaceItem(o)
    \/ SendStockReserved(o)
    \/ PublishStockNotReserved(o)
    \/ Acknowledge(o)

Step(o) == Arrive(o) \/ Deliver(o) \/ Consume(o)

Next == \E o \in Orders : Step(o)

Spec == Init /\ [][Next]_vars

\* The broker delivers what is queued once a slot is free, and every await of
\* the consumer returns.
FairSpec == Spec /\ \A o \in Orders : WF_vars(Deliver(o)) /\ WF_vars(Consume(o))

CrashSpec == Init /\ [][Next \/ Crash]_vars

-----------------------------------------------------------------------------
\* Each variable has its type (stockResult, Count, the loop variables).
TypeOK ==
    /\ stock \in [Products -> Ints]
    /\ step \in [Orders -> Steps]
    /\ next \in [Orders -> Nat \ {0}]
    /\ enough \in [Orders -> BOOLEAN]
    /\ copy \in [Orders -> Ints]
    /\ answers \in [Orders -> SUBSET Answers]
    /\ \A o \in Orders :
          /\ next[o] <= Len(Items[o]) + 1
          /\ step[o] = "replace" => ~LoopOver(o)

\* The second foreach never meets a product without a document, whose
\* FirstOrDefaultAsync would be null: the first foreach has found them all.
DocumentsExist ==
    \A o \in Orders : \A i \in DOMAIN Items[o] :
        \/ step[o] \in {"reserve", "replace"}
        \/ step[o] = "check" /\ enough[o] /\ i < next[o]
        => Items[o][i].product \in Products

\* The counts orders ask of a product.
CountsOf(p) ==
    UNION {{Items[o][i].count : i \in {j \in DOMAIN Items[o] :
                                          Items[o][j].product = p}} : o \in Orders}

ListsOnce(o, p) ==
    \A i, j \in DOMAIN Items[o] :
        Items[o][i].product = p /\ Items[o][j].product = p => i = j

\* Items of the order whose document has been replaced.
Replaced(o) ==
    CASE step[o] \in {"reserve", "replace"} -> 1 .. next[o] - 1
      [] "reserved" \in answers[o]          -> DOMAIN Items[o]
      [] OTHER                              -> {}

Taken(o, p) ==
    SumFunctionOnSet([i \in DOMAIN Items[o] |-> Items[o][i].count],
                     {i \in Replaced(o) : Items[o][i].product = p})

\* Without crashes, stock leaves only with a reservation: a lost update may
\* give back what was taken, but nothing vanishes that no order took.  (What an
\* order with a negative count put back may be lost as well.)
NothingVanishes ==
    \A p \in Products :
        (\A n \in CountsOf(p) : n >= 0)
            => stock[p] >= InitialStock[p] - SumFunction([o \in Orders |-> Taken(o, p)])

\* Every order that arrives is answered and acknowledged.
EveryOrderIsAnswered == \A o \in Orders : step[o] = "queued" ~> step[o] = "done"

=============================================================================
