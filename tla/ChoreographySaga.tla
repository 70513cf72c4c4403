-------------------------- MODULE ChoreographySaga --------------------------
(***************************************************************************)
(* SagaPatternChoreographyPractice, and BasicMicroserviceArchitecture, its  *)
(* first version: Order.API, Stock.API and Payment.API joined only by       *)
(* events.  Stock.API's consumer is StockReservation, whose "queued" is an  *)
(* OrderCreatedEvent in stock-order-created-event-queue; the other events are*)
(* counted here, each type in the one queue it is put in.                   *)
(*                                                                           *)
(* A receive endpoint is a queue and the consumers configured on it.  Two    *)
(* processes on one queue compete for its messages, and a process that has   *)
(* no consumer for the type it was handed moves the message to _skipped; a   *)
(* message whose consumer throws goes to _error (MassTransit's defaults).    *)
(***************************************************************************)
EXTENDS Integers, Sequences, FiniteSets

CONSTANTS Orders, Products, Unknown, Items, InitialStock, Limit, IntLimit,
          Versions,        \* the versions of the system
          PaymentQueues,   \* what Payment.API's Program.cs may listen on
          PaymentAnswers,  \* the conditions the if in Payment.API may see
          MaxCrashes       \* bound: how often a process dies

\* RabbitMQSettings
Stock_OrderCreatedEventQueue == "stock-order-created-event-queue"
Payment_StockReservedEventQueue == "payment-stock-reserved-queue"

ASSUME VersionsAssumption == Versions \subseteq {"basic", "saga"}

ASSUME PaymentQueuesAssumption ==
    PaymentQueues \subseteq {Stock_OrderCreatedEventQueue, Payment_StockReservedEventQueue}

ASSUME PaymentAnswersAssumption ==
    PaymentAnswers \subseteq BOOLEAN /\ PaymentAnswers # {}

ASSUME MaxCrashesAssumption == MaxCrashes \in Nat

VARIABLES stock, step, next, enough, copy, answers,  \* StockReservation
          version,      \* the version that runs
          order,        \* [Orders -> OrderStatus]: table Orders of Order.API
          posting,      \* orders saved by a POST that has not published yet
          queue,        \* [Events -> [Orders -> Nat]]: copies waiting
          publishing,   \* [Orders -> [BOOLEAN -> Nat]]: Publish begun by Payment.API
          unacked,      \* [Orders -> Nat]: deliveries Payment.API has not acknowledged
          paymentQueue, \* the queue of PaymentQueues it listens on
          payments,     \* [Orders -> SUBSET BOOLEAN]: how its if has gone
          dead,         \* [Orders -> SUBSET Fates]: events nobody will consume
          crashes       \* processes that have died so far

stockVars == <<stock, step, next, enough, copy, answers>>
paymentVars == <<paymentQueue, publishing, unacked, payments>>
vars == <<version, stockVars, order, posting, queue, paymentVars, dead, crashes>>

Stock == INSTANCE StockReservation

\* What StockReservation assumes of its constants.
ASSUME StockAssumption ==
    /\ {Limit, IntLimit} \subseteq Nat \ {0} /\ IsFiniteSet(Orders) /\ Unknown \notin Products
    /\ Items \in [Orders -> Seq(Stock!OrderItem)]
    /\ InitialStock \in [Products -> Stock!Ints]

-----------------------------------------------------------------------------
OrderStatus == {"none", "Suspend", "Completed", "Failed"}

Events == {"StockReserved", "StockNotReserved", "PaymentCompleted", "PaymentFailed"}

\* "answered": in _error, but only after its answer was sent.
Fates == {"lost", "skipped", "error", "answered"}

Put(e, o) == queue' = [queue EXCEPT ![e][o] = @ + 1]

Take(e, o) ==
    /\ queue[e][o] > 0
    /\ queue' = [queue EXCEPT ![e][o] = @ - 1]

Die == crashes < MaxCrashes /\ crashes' = crashes + 1

Bury(orders, fate) ==
    dead' = [o \in Orders |-> IF o \in orders THEN dead[o] \union {fate} ELSE dead[o]]

Init ==
    /\ version \in Versions
    /\ Stock!Init
    /\ order = [o \in Orders |-> "none"]
    /\ posting = {}
    /\ queue = [e \in Events |-> [o \in Orders |-> 0]]
    /\ publishing = [o \in Orders |-> [paid \in BOOLEAN |-> 0]]
    /\ paymentQueue \in PaymentQueues
    /\ unacked = [o \in Orders |-> 0]
    /\ payments = [o \in Orders |-> {}]
    /\ dead = [o \in Orders |-> {}]
    /\ crashes = 0

\* POST /create-order saves the order and only then publishes.
CreateOrder(o) ==
    /\ order[o] = "none"
    /\ order' = [order EXCEPT ![o] = "Suspend"]
    /\ posting' = posting \union {o}
    /\ UNCHANGED <<version, stockVars, queue, paymentVars, dead, crashes>>

PublishOrderCreated(o) ==
    /\ o \in posting
    /\ posting' = posting \ {o}
    /\ Stock!Arrive(o)
    /\ UNCHANGED <<version, order, queue, paymentVars, dead, crashes>>

\* Stock.API works on; only its answers leave the process.
StockWorks(o) ==
    /\ \/ Stock!Deliver(o)
       \/ Stock!CheckItem(o)
       \/ Stock!Decide(o)
       \/ Stock!ReadItem(o)
       \/ Stock!ReplaceItem(o)
       \/ version = "saga" /\ Stock!Acknowledge(o)
    /\ UNCHANGED <<version, order, posting, queue, paymentVars, dead, crashes>>

StockAnswers(o) ==
    /\ \/ Stock!SendStockReserved(o) /\ Put("StockReserved", o)
       \/ Stock!PublishStockNotReserved(o) /\ Put("StockNotReserved", o)
    /\ UNCHANGED <<version, order, posting, paymentVars, dead, crashes>>

\* The basic consumer ends in "throw new NotImplementedException()": what it has
\* answered is moved to _error.
StockThrows(o) ==
    /\ version = "basic"
    /\ Stock!Acknowledge(o)
    /\ Bury({o}, "answered")
    /\ UNCHANGED <<version, order, posting, queue, paymentVars, crashes>>

StockCrash ==
    /\ Stock!Crash
    /\ Die
    /\ UNCHANGED <<version, order, posting, queue, paymentVars, dead>>

\* Mutant: a message without a consumer is acknowledged and dropped.
PaymentDrops(o) ==
    /\ paymentQueue = Stock_OrderCreatedEventQueue
    /\ step[o] = "queued"
    /\ step' = [step EXCEPT ![o] = "none"]
    /\ UNCHANGED <<version, stock, next, enough, copy, answers,
                   order, posting, queue, paymentVars, dead, crashes>>

\* Payment.API reads the queue it was given and has no consumer for orders.
PaymentSkips(o) ==
    /\ paymentQueue = Stock_OrderCreatedEventQueue
    /\ step[o] = "queued"
    /\ step' = [step EXCEPT ![o] = "none"]
    /\ Bury({o}, "skipped")
    /\ UNCHANGED <<version, stock, next, enough, copy, answers,
                   order, posting, queue, paymentVars, crashes>>

\* Consume starts a Publish, does not await it and returns.
PaymentConsumes(o, paid) ==
    /\ paymentQueue = Payment_StockReservedEventQueue
    /\ Take("StockReserved", o)
    /\ publishing' = [publishing EXCEPT ![o][paid] = @ + 1]
    /\ unacked' = [unacked EXCEPT ![o] = @ + 1]
    /\ payments' = [payments EXCEPT ![o] = @ \union {paid}]
    /\ UNCHANGED <<version, stockVars, order, posting, paymentQueue, dead, crashes>>

PaymentAcknowledges(o) ==
    /\ unacked[o] > 0
    /\ unacked' = [unacked EXCEPT ![o] = @ - 1]
    /\ UNCHANGED <<version, stockVars, order, posting, paymentQueue, queue, publishing, payments, dead, crashes>>

PaymentEvent(paid) == IF paid THEN "PaymentCompleted" ELSE "PaymentFailed"

\* Mutant: the event is built and never published.
PaymentForgets(o, paid) ==
    /\ publishing[o][paid] > 0
    /\ publishing' = [publishing EXCEPT ![o][paid] = @ - 1]
    /\ UNCHANGED <<version, stockVars, order, posting, paymentQueue, queue, unacked, payments, dead, crashes>>

PaymentPublishes(o, paid) ==
    /\ publishing[o][paid] > 0
    /\ publishing' = [publishing EXCEPT ![o][paid] = @ - 1]
    /\ Put(PaymentEvent(paid), o)
    /\ UNCHANGED <<version, stockVars, order, posting, paymentQueue, unacked, payments, dead, crashes>>

Unpublished == {o \in Orders : \E paid \in BOOLEAN : publishing[o][paid] > 0}

\* Publishes begun for deliveries that will not come again.
Abandoned ==
    {o \in Orders : publishing[o][TRUE] + publishing[o][FALSE] > unacked[o]}

\* What Payment.API had not acknowledged is queued again; what it had
\* acknowledged and not published is gone.
PaymentCrash ==
    /\ \E o \in Orders : o \in Unpublished \/ unacked[o] > 0
    /\ Die
    /\ publishing' = [o \in Orders |-> [paid \in BOOLEAN |-> 0]]
    /\ unacked' = [o \in Orders |-> 0]
    /\ queue' = [queue EXCEPT !["StockReserved"] =
                    [o \in Orders |-> @[o] + unacked[o]]]
    /\ Bury(Abandoned, "lost")
    /\ UNCHANGED <<version, stockVars, order, posting, paymentQueue, payments>>

\* Mutants: the wrong member of OrderStatus, and a status it does not have.
AlwaysCompleted == [e \in Events \ {"StockReserved"} |-> "Completed"]

CancelledWhenUnpaid ==
    [e \in Events \ {"StockReserved"} |->
        CASE e = "PaymentCompleted" -> "Completed"
          [] e = "StockNotReserved" -> "Failed"
          [] e = "PaymentFailed"    -> "Cancelled"]

\* The three consumers of Order.API each write one status, whatever the order's
\* status is.
NewStatus == [e \in Events \ {"StockReserved"} |->
                 IF e = "PaymentCompleted" THEN "Completed" ELSE "Failed"]

\* Mutant: SaveChangesAsync is missing.
OrderConsumesUnsaved(o, e) ==
    /\ e \in DOMAIN NewStatus
    /\ Take(e, o)
    /\ UNCHANGED <<version, stockVars, order, posting, paymentVars, dead, crashes>>

OrderConsumes(o, e) ==
    /\ e \in DOMAIN NewStatus
    /\ Take(e, o)
    /\ order' = [order EXCEPT ![o] = NewStatus[e]]
    /\ UNCHANGED <<version, stockVars, posting, paymentVars, dead, crashes>>

\* Mutant: the orders are in memory and come back as they were created.
OrderCrashForgets ==
    /\ Die
    /\ order' = [o \in Orders |-> IF order[o] = "none" THEN "none" ELSE "Suspend"]
    /\ posting' = {}
    /\ Bury(posting, "lost")
    /\ UNCHANGED <<version, stockVars, queue, paymentVars>>

\* Order.API dies, and takes with it the events its POSTs have not published.
OrderCrash ==
    /\ posting # {}
    /\ Die
    /\ posting' = {}
    /\ Bury(posting, "lost")
    /\ UNCHANGED <<version, stockVars, order, queue, paymentVars>>

\* It may die with a status saved and the event not acknowledged.
OrderCrashAfterSave(o, e) ==
    /\ e \in DOMAIN NewStatus
    /\ queue[e][o] > 0
    /\ Die
    /\ order' = [order EXCEPT ![o] = NewStatus[e]]
    /\ posting' = {}
    /\ Bury(posting, "lost")
    /\ UNCHANGED <<version, stockVars, queue, paymentVars>>

\* The saga's Stock.API listens on Order.API's queue too; its consumer dereferences the
\* _context nothing ever assigned, and the message goes to _error.
StockCompensates(o) ==
    /\ version = "saga"
    /\ Take("PaymentFailed", o)
    /\ Bury({o}, "error")
    /\ UNCHANGED <<version, stockVars, order, posting, paymentVars, crashes>>

\* What one order's messages do next, crashes aside.
Proceed(o) ==
    \/ PublishOrderCreated(o)
    \/ StockWorks(o)
    \/ StockAnswers(o)
    \/ StockThrows(o)
    \/ PaymentSkips(o)
    \/ \E paid \in PaymentAnswers : PaymentConsumes(o, paid) \/ PaymentPublishes(o, paid)
    \/ PaymentAcknowledges(o)
    \/ \E e \in Events : OrderConsumes(o, e)
    \/ StockCompensates(o)

Next ==
    \/ \E o \in Orders :
          \/ CreateOrder(o)
          \/ Proceed(o)
          \/ \E e \in Events : OrderCrashAfterSave(o, e)
    \/ OrderCrash
    \/ StockCrash
    \/ PaymentCrash

Spec == Init /\ [][Next]_vars

\* Every process runs what it has begun and every broker delivers what is
\* queued; a crash is never due, and at most MaxCrashes happen.
FairSpec == Spec /\ \A o \in Orders : WF_vars(Proceed(o))

-----------------------------------------------------------------------------
\* Each variable has its type; the consumer's own are StockReservation's.
TypeOK ==
    /\ version \in Versions
    /\ Stock!TypeOK
    /\ order \in [Orders -> OrderStatus]
    /\ posting \subseteq Orders
    /\ queue \in [Events -> [Orders -> Nat]]
    /\ publishing \in [Orders -> [BOOLEAN -> Nat]]
    /\ unacked \in [Orders -> Nat]
    /\ paymentQueue \in PaymentQueues
    /\ payments \in [Orders -> SUBSET BOOLEAN]
    /\ dead \in [Orders -> SUBSET Fates]
    /\ crashes \in 0 .. MaxCrashes

InFlight(o) ==
    \/ o \in posting
    \/ step[o] \notin {"none", "sent", "done"}
    \/ \E e \in Events : queue[e][o] > 0
    \/ o \in Unpublished

\* An event of the order's met its fate before it was consumed.
Gone(o) == dead[o] \ {"answered"} # {}

\* An order still Suspend can be found: an event of its is under way, or one
\* was lost in a crash, skipped or put in an error queue.
NoOrderForgotten ==
    \A o \in Orders :
        order[o] = "Suspend" => InFlight(o) \/ Gone(o)

Decided(o) == order[o] \in {"Completed", "Failed"}

\* The status written to an order changes again only if a redelivery made
\* Stock.API or Payment.API answer twice, and differently.
OnlyDoubleAnswersFlip ==
    [][\A o \in Orders :
          Decided(o) /\ order'[o] # order[o]
            => Cardinality(answers[o]) = 2 \/ Cardinality(payments[o]) = 2]_vars

\* Reserved, and waiting in a queue nobody reads.
Unheard(o) ==
    queue["StockReserved"][o] > 0 /\ paymentQueue # Payment_StockReservedEventQueue

\* Every order is decided at last, unless one of its events met its fate or
\* Payment.API listens elsewhere.
EveryOrderIsDecided ==
    \A o \in Orders : order[o] = "Suspend" ~> Decided(o) \/ Gone(o) \/ Unheard(o)

\* "// Payment....": what follows a reservation is the payment.
PaymentFollowsReservation ==
    \A o \in Orders : "reserved" \in answers[o] ~> payments[o] # {}

-----------------------------------------------------------------------------
Process == INSTANCE OrderProcess WITH
    status <- order,
    reservation <- answers,
    payment <- payments,
    disrupted <- crashes > 0

\* The choreography implements the order process too.  That it ends is
\* EveryOrderIsDecided: Stock.API competes with Order.API for the message of
\* a failed payment.
ImplementsOrderProcess == Process!Spec

=============================================================================
