------------------------- MODULE OrchestrationSaga -------------------------
(***************************************************************************)
(* SagaPatternOrchestrationPractice: OrderStateMachine drives Stock.API and *)
(* Payment.API and tells Order.API how an order ended.  Its instances are   *)
(* rows of SQL Server, locked while a message is handled.  There is no      *)
(* outbox: what a transition sends is in the broker before the row is       *)
(* saved, and the row is saved before the message is acknowledged.          *)
(*                                                                          *)
(* A handler of an instance that has a row is one step when its process     *)
(* survives: the row is locked until it ends.  A new instance has no row to *)
(* lock: it has sent OrderCreatedEvent and is not inserted yet.  When the   *)
(* process dies in a handler, the message comes again, and what remains of  *)
(* it is what an "Unsaved" step (sent, not saved) or an "Unacked" step      *)
(* (sent and saved) has done.  The consumer of OrderCreatedEvent is that of *)
(* StockReservation, one delivery for each instance.                        *)
(***************************************************************************)
EXTENDS Integers, Sequences, FiniteSets

CONSTANTS Orders, Products, Unknown, Items, InitialStock, Limit, IntLimit,
          PaymentAnswers,  \* the conditions the if in Payment.API may see
          MaxCrashes       \* bound: how many handlers a dying process cuts short

ASSUME PaymentAnswersAssumption ==
    PaymentAnswers \subseteq BOOLEAN /\ PaymentAnswers # {}

ASSUME MaxCrashesAssumption == MaxCrashes \in Nat

\* CorrelationIds: <<o, k>> is the k-th Guid drawn for order o.  Only a crash
\* makes the state machine draw another, so that these are enough.
Instances == Orders \X (1 .. MaxCrashes + 1)

VARIABLES stock, step, next, enough, copy, answers,  \* StockReservation
          order,     \* [Orders -> OrderStatus]: table Orders of Order.API
          posting,   \* orders saved by a POST that has not sent yet
          saga,      \* [Instances -> States]: CurrentState
          queue,     \* [Messages -> Nat]: copies waiting
          payments,  \* [Instances -> SUBSET BOOLEAN]: how Payment.API's if went
          lost,      \* orders whose POST died before it sent
          early,     \* orders answered while their instance was not inserted yet
          crashes    \* handlers cut short so far

stockVars == <<stock, step, next, enough, copy, answers>>
vars == <<stockVars, order, posting, saga, queue, payments, lost, early, crashes>>

Stock == INSTANCE StockReservation WITH
    Orders <- Instances,
    Items <- [i \in Instances |-> Items[i[1]]]

\* What StockReservation assumes of its constants.
ASSUME StockAssumption ==
    /\ {Limit, IntLimit} \subseteq Nat \ {0} /\ IsFiniteSet(Orders) /\ Unknown \notin Products
    /\ Items \in [Orders -> Seq(Stock!OrderItem)]
    /\ InitialStock \in [Products -> Stock!Ints]

-----------------------------------------------------------------------------
OrderStatus == {"none", "Suspend", "Completed", "Failed"}

\* "unborn": no such Guid yet.  "starting": its OrderCreatedEvent is sent, its
\* row is not inserted.  "unsaved": drawn by a handler that died before that.
\* "Final": finalized, and the row removed (SetCompletedWhenFinalized).
States == {"unborn", "starting", "unsaved", "OrderCreated", "StockReserved",
           "StockNotReserved", "PaymentFailed", "Final"}

Saved == States \ {"unborn", "starting", "unsaved", "Final"}

SagaEvents == {"StockReserved", "StockNotReserved", "PaymentCompleted", "PaymentFailed"}

InstanceEvents == SagaEvents \union {"PaymentStarted", "StockRollBack"}

OrderEvents == {"OrderStarted", "OrderCompleted", "OrderFailed"}

Messages == [event : InstanceEvents, of : Instances]
                \union [event : OrderEvents, of : Orders]

Message(e, x) == [event |-> e, of |-> x]

\* The queue after taking one set of messages out and putting another in.
Exchange(out, in) ==
    /\ \A m \in out : queue[m] > 0
    /\ queue' = [m \in Messages |->
                    queue[m] + (IF m \in in THEN 1 ELSE 0) - (IF m \in out THEN 1 ELSE 0)]

Die == crashes < MaxCrashes /\ crashes' = crashes + 1

InstancesOf(o) == {i \in Instances : i[1] = o}

\* The instance CorrelateBy finds for an OrderId.
SavedFor(o) == {i \in InstancesOf(o) : saga[i] \in Saved}

Drawn(o) == {i \in InstancesOf(o) : saga[i] # "unborn"}

NewId(o) == <<o, Cardinality(Drawn(o)) + 1>>

Init ==
    /\ Stock!Init
    /\ order = [o \in Orders |-> "none"]
    /\ posting = {}
    /\ saga = [i \in Instances |-> "unborn"]
    /\ queue = [m \in Messages |-> 0]
    /\ payments = [i \in Instances |-> {}]
    /\ lost = {}
    /\ early = {}
    /\ crashes = 0

-----------------------------------------------------------------------------
(* Order.API *)

CreateOrder(o) ==
    /\ order[o] = "none"
    /\ order' = [order EXCEPT ![o] = "Suspend"]
    /\ posting' = posting \union {o}
    /\ UNCHANGED <<stockVars, saga, queue, payments, lost, early, crashes>>

SendOrderStarted(o) ==
    /\ o \in posting
    /\ posting' = posting \ {o}
    /\ Exchange({}, {Message("OrderStarted", o)})
    /\ UNCHANGED <<stockVars, order, saga, payments, lost, early, crashes>>

\* A POST that has saved its order dies before it sends.
OrderCrash(o) ==
    /\ o \in posting
    /\ Die
    /\ posting' = posting \ {o}
    /\ lost' = lost \union {o}
    /\ UNCHANGED <<stockVars, order, saga, queue, payments, early>>

\* Mutant: both consumers write Completed.
AlwaysCompleted == [e \in {"OrderCompleted", "OrderFailed"} |-> "Completed"]

NewStatus == [e \in {"OrderCompleted", "OrderFailed"} |->
                 IF e = "OrderCompleted" THEN "Completed" ELSE "Failed"]

OrderConsumes(o, e) ==
    /\ e \in DOMAIN NewStatus
    /\ Exchange({Message(e, o)}, {})
    /\ order' = [order EXCEPT ![o] = NewStatus[e]]
    /\ UNCHANGED <<stockVars, posting, saga, payments, lost, early, crashes>>

OrderUnacked(o, e) ==
    /\ e \in DOMAIN NewStatus
    /\ queue[Message(e, o)] > 0
    /\ Die
    /\ order' = [order EXCEPT ![o] = NewStatus[e]]
    /\ UNCHANGED <<stockVars, posting, saga, queue, payments, lost, early>>

-----------------------------------------------------------------------------
(* SagaStateMachine.Service *)

\* Mutant: the message is not acknowledged.
StartUnacknowledged(o) ==
    /\ queue[Message("OrderStarted", o)] > 0
    /\ SavedFor(o) = {}
    /\ saga' = [saga EXCEPT ![NewId(o)] = "starting"]
    /\ Stock!Arrive(NewId(o))
    /\ UNCHANGED <<order, posting, queue, payments, lost, early, crashes>>

\* Initially(When(OrderStartedEvent)): a new instance asks for the stock.
StartInstance(o) ==
    /\ SavedFor(o) = {}
    /\ Exchange({Message("OrderStarted", o)}, {})
    /\ saga' = [saga EXCEPT ![NewId(o)] = "starting"]
    /\ Stock!Arrive(NewId(o))
    /\ UNCHANGED <<order, posting, payments, lost, early, crashes>>

\* TransitionTo(OrderCreated), and the row.
InsertInstance(i) ==
    /\ saga[i] = "starting"
    /\ saga' = [saga EXCEPT ![i] = "OrderCreated"]
    /\ UNCHANGED <<stockVars, order, posting, queue, payments, lost, early, crashes>>

\* The process dies before the row is inserted, or after.
StartCutShort(i, state) ==
    /\ saga[i] = "starting"
    /\ saga' = [saga EXCEPT ![i] = state]
    /\ Exchange({}, {Message("OrderStarted", i[1])})
    /\ Die
    /\ UNCHANGED <<stockVars, order, posting, payments, lost, early>>

StartUnsaved(i) == StartCutShort(i, "unsaved")

StartUnacked(i) == StartCutShort(i, "OrderCreated")

\* The event is not accepted in any state but Initial: the error queue.
StartRefused(o) ==
    /\ SavedFor(o) # {}
    /\ Exchange({Message("OrderStarted", o)}, {})
    /\ UNCHANGED <<stockVars, order, posting, saga, payments, lost, early, crashes>>

\* Mutant: Finalize is missing.
NextStateUnfinalized == [e \in SagaEvents |-> e]

\* During(OrderCreated, ...) and During(StockReserved, ...).
NextState == [e \in SagaEvents |->
    CASE e = "StockReserved"    -> "StockReserved"
      [] e = "StockNotReserved" -> "StockNotReserved"
      [] e = "PaymentCompleted" -> "Final"
      [] e = "PaymentFailed"    -> "PaymentFailed"]

Accepts(i, e) ==
    saga[i] = IF e \in {"StockReserved", "StockNotReserved"} THEN "OrderCreated"
                                                             ELSE "StockReserved"

\* Mutants: Order.API is told before the payment, and not told at all.
SendsEarly(i, e) ==
    CASE e = "StockReserved"    -> <<Message("OrderCompleted", i[1]),
                                     Message("PaymentStarted", i)>>
      [] e = "PaymentCompleted" -> <<>>
      [] OTHER                  -> <<Message("OrderFailed", i[1])>>

SendsNothing(i, e) ==
    IF e = "StockReserved" THEN <<Message("PaymentStarted", i)>> ELSE <<>>

\* What the transition sends, in this order.
Sends(i, e) ==
    CASE e = "StockReserved"    -> <<Message("PaymentStarted", i)>>
      [] e = "StockNotReserved" -> <<Message("OrderFailed", i[1])>>
      [] e = "PaymentCompleted" -> <<Message("OrderCompleted", i[1])>>
      [] e = "PaymentFailed"    -> <<Message("OrderFailed", i[1]),
                                     Message("StockRollBack", i)>>

FirstSends(i, e, n) == {Sends(i, e)[k] : k \in 1 .. n}

React(i, e) ==
    /\ Accepts(i, e)
    /\ Exchange({Message(e, i)}, FirstSends(i, e, Len(Sends(i, e))))
    /\ saga' = [saga EXCEPT ![i] = NextState[e]]
    /\ UNCHANGED <<stockVars, order, posting, payments, lost, early, crashes>>

\* The process dies after some of the sends, the row as it was.
ReactUnsaved(i, e) ==
    /\ Accepts(i, e)
    /\ queue[Message(e, i)] > 0
    /\ \E n \in 1 .. Len(Sends(i, e)) : Exchange({}, FirstSends(i, e, n))
    /\ Die
    /\ UNCHANGED <<stockVars, order, posting, saga, payments, lost, early>>

ReactUnacked(i, e) ==
    /\ Accepts(i, e)
    /\ queue[Message(e, i)] > 0
    /\ Exchange({}, FirstSends(i, e, Len(Sends(i, e))))
    /\ saga' = [saga EXCEPT ![i] = NextState[e]]
    /\ Die
    /\ UNCHANGED <<stockVars, order, posting, payments, lost, early>>

\* An event its state has no handler for, or whose instance is not there.
ReactRefused(i, e) ==
    /\ e \in SagaEvents
    /\ ~Accepts(i, e)
    /\ Exchange({Message(e, i)}, {})
    /\ early' = IF saga[i] = "starting" THEN early \union {i[1]} ELSE early
    /\ UNCHANGED <<stockVars, order, posting, saga, payments, lost, crashes>>

-----------------------------------------------------------------------------
(* Stock.API *)

StockWorks(i) ==
    /\ \/ Stock!Deliver(i)
       \/ Stock!CheckItem(i)
       \/ Stock!Decide(i)
       \/ Stock!ReadItem(i)
       \/ Stock!ReplaceItem(i)
       \/ Stock!Acknowledge(i)
    /\ UNCHANGED <<order, posting, saga, queue, payments, lost, early, crashes>>

StockAnswers(i) ==
    /\ \/ /\ Stock!SendStockReserved(i)
          /\ Exchange({}, {Message("StockReserved", i)})
       \/ /\ Stock!PublishStockNotReserved(i)
          /\ Exchange({}, {Message("StockNotReserved", i)})
    /\ UNCHANGED <<order, posting, saga, payments, lost, early, crashes>>

StockCrash ==
    /\ Stock!Crash
    /\ Die
    /\ UNCHANGED <<order, posting, saga, queue, payments, lost, early>>

\* StockRollbackMessageConsumer dereferences the _context nothing assigns.
StockRollsBack(i) ==
    /\ Exchange({Message("StockRollBack", i)}, {})
    /\ UNCHANGED <<stockVars, order, posting, saga, payments, lost, early, crashes>>

-----------------------------------------------------------------------------
(* Payment.API *)

PaymentEvent(paid) == IF paid THEN "PaymentCompleted" ELSE "PaymentFailed"

Pay(i, paid) ==
    /\ payments' = [payments EXCEPT ![i] = @ \union {paid}]
    /\ UNCHANGED <<stockVars, order, posting, saga, lost, early>>

PaymentConsumes(i, paid) ==
    /\ Pay(i, paid)
    /\ Exchange({Message("PaymentStarted", i)}, {Message(PaymentEvent(paid), i)})
    /\ UNCHANGED crashes

PaymentUnacked(i, paid) ==
    /\ queue[Message("PaymentStarted", i)] > 0
    /\ Pay(i, paid)
    /\ Exchange({}, {Message(PaymentEvent(paid), i)})
    /\ Die

-----------------------------------------------------------------------------
\* What one order's messages do next, crashes aside.
Proceed(o) ==
    \/ SendOrderStarted(o)
    \/ \E e \in OrderEvents : OrderConsumes(o, e)
    \/ StartInstance(o)
    \/ StartRefused(o)
    \/ \E i \in InstancesOf(o) :
          \/ InsertInstance(i)
          \/ \E e \in SagaEvents : React(i, e) \/ ReactRefused(i, e)
          \/ StockWorks(i)
          \/ StockAnswers(i)
          \/ StockRollsBack(i)
          \/ \E paid \in PaymentAnswers : PaymentConsumes(i, paid)

\* A process dies in the handler of a message.
Interrupt(o) ==
    \/ OrderCrash(o)
    \/ \E e \in OrderEvents : OrderUnacked(o, e)
    \/ \E i \in InstancesOf(o) :
          \/ StartUnsaved(i)
          \/ StartUnacked(i)
          \/ \E e \in SagaEvents : ReactUnsaved(i, e) \/ ReactUnacked(i, e)
          \/ \E paid \in PaymentAnswers : PaymentUnacked(i, paid)

Next ==
    \/ \E o \in Orders : CreateOrder(o) \/ Proceed(o) \/ Interrupt(o)
    \/ StockCrash

Spec == Init /\ [][Next]_vars

\* Every process runs what it has begun and every broker delivers what is
\* queued; a crash is never due.
FairSpec == Spec /\ \A o \in Orders : WF_vars(Proceed(o))

-----------------------------------------------------------------------------
\* Each variable has its type; the consumer's own are StockReservation's.
TypeOK ==
    /\ Stock!TypeOK
    /\ order \in [Orders -> OrderStatus]
    /\ posting \subseteq Orders
    /\ saga \in [Instances -> States]
    /\ queue \in [Messages -> Nat]
    /\ payments \in [Instances -> SUBSET BOOLEAN]
    /\ lost \subseteq Orders
    /\ early \subseteq Orders
    /\ crashes \in 0 .. MaxCrashes

\* An order is Completed only if one saga instance of it reserved the stock and
\* was paid, and Failed only if an instance of it was refused one of the two.
StatusIsJustified ==
    \A o \in Orders :
        /\ order[o] = "Completed" =>
              \E i \in InstancesOf(o) : "reserved" \in answers[i] /\ TRUE \in payments[i]
        /\ order[o] = "Failed" =>
              \E i \in InstancesOf(o) : "notReserved" \in answers[i] \/ FALSE \in payments[i]

\* A second saga of one order is only ever born of a crash: CorrelateBy finds
\* the first, failed or running, by its OrderId.
SecondSagaNeedsCrash ==
    \A o \in Orders : Cardinality(Drawn(o)) <= 1 + crashes

Decided(o) == order[o] \in {"Completed", "Failed"}

\* A decided order changes again only if two sagas served it, or one was
\* answered twice and differently.
OnlyDuplicatesFlip ==
    [][\A o \in Orders :
          Decided(o) /\ order'[o] # order[o] =>
              \/ Cardinality(Drawn(o)) > 1
              \/ \E i \in InstancesOf(o) :
                    2 \in {Cardinality(answers[i]), Cardinality(payments[i])}]_vars

\* Every order is decided at last, whatever dies and whatever is refused, but
\* for the order whose POST died between the save and the send, and the one that
\* Stock.API answered before the state machine had inserted its instance.
EveryOrderIsDecided ==
    \A o \in Orders :
        order[o] = "Suspend" ~> Decided(o) \/ o \in lost \/ o \in early

-----------------------------------------------------------------------------
\* An order is asked for as often as it has sagas.
Process == INSTANCE OrderProcess WITH
    status <- order,
    reservation <- [o \in Orders |-> UNION {answers[i] : i \in InstancesOf(o)}],
    payment <- [o \in Orders |-> UNION {payments[i] : i \in InstancesOf(o)}],
    disrupted <- crashes > 0

\* The orchestrated saga implements the order process: without a crash each
\* side is asked once and the outcome is final, and after one no outcome is
\* written that no answer stands for.
ImplementsOrderProcess == Process!Spec

=============================================================================
