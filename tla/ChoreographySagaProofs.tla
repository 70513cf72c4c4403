----------------------- MODULE ChoreographySagaProofs -----------------------
(***************************************************************************)
(* For any orders, products and seed data, either version, either queue and  *)
(* any number of crashes: an order of the choreography can always be found,  *)
(* its status changes twice only by two answers, and the choreography is an  *)
(* OrderProcess.  What the consumer of Stock.API does to the counts is       *)
(* StockReservationProofs; here only its steps and its answers matter.       *)
(***************************************************************************)
EXTENDS ChoreographySaga, FiniteSetTheorems, TLAPS

-----------------------------------------------------------------------------
(* The invariant, order by order. *)

Shape ==
    /\ step \in [Orders -> Stock!Steps]
    /\ answers \in [Orders -> SUBSET Stock!Answers]
    /\ order \in [Orders -> OrderStatus]
    /\ posting \subseteq Orders
    /\ queue \in [Events -> [Orders -> Nat]]
    /\ publishing \in [Orders -> [BOOLEAN -> Nat]]
    /\ unacked \in [Orders -> Nat]
    /\ payments \in [Orders -> SUBSET BOOLEAN]
    /\ dead \in [Orders -> SUBSET Fates]
    /\ crashes \in Nat

\* Publishes Payment.API has begun.
PaidBegun(o) == publishing[o][TRUE]

RefusedBegun(o) == publishing[o][FALSE]

\* Nothing is known of an order that was not created.
Untouched(o) ==
    /\ o \notin posting
    /\ step[o] = "none"
    /\ answers[o] = {}
    /\ payments[o] = {}
    /\ \A e \in Events : queue[e][o] = 0
    /\ PaidBegun(o) = 0 /\ RefusedBegun(o) = 0

\* Every event and every status stands for an answer that was given.
Caused(o) ==
    /\ queue["StockReserved"][o] > 0 => "reserved" \in answers[o]
    /\ queue["StockNotReserved"][o] > 0 => "notReserved" \in answers[o]
    /\ unacked[o] > 0 => "reserved" \in answers[o]
    /\ payments[o] # {} => "reserved" \in answers[o]
    /\ queue["PaymentCompleted"][o] > 0 \/ PaidBegun(o) > 0 => TRUE \in payments[o]
    /\ queue["PaymentFailed"][o] > 0 \/ RefusedBegun(o) > 0 => FALSE \in payments[o]
    /\ order[o] = "Completed" => TRUE \in payments[o]
    /\ order[o] = "Failed" => "notReserved" \in answers[o] \/ FALSE \in payments[o]

\* The events of an order that are under way.
Tokens(o) ==
    queue["StockReserved"][o] + queue["StockNotReserved"][o]
        + queue["PaymentCompleted"][o] + queue["PaymentFailed"][o]
        + PaidBegun(o) + RefusedBegun(o)

\* Until a process dies, one event of an order follows the other.
Calm(o) ==
    /\ step[o] \notin {"sent", "done"} => answers[o] = {}
    /\ Tokens(o) <= 1
    /\ Tokens(o) > 0 => order[o] = "Suspend"
    /\ queue["StockReserved"][o] > 0 => payments[o] = {}

OrderInv(o) ==
    /\ order[o] = "none" => Untouched(o)
    /\ Caused(o)
    /\ crashes = 0 => Calm(o)
    /\ order[o] = "Suspend" => InFlight(o) \/ Gone(o)

IInv == Shape /\ \A o \in Orders : OrderInv(o)

\* A step that is not about order a.
Same(a) ==
    /\ step'[a] = step[a]
    /\ answers'[a] = answers[a]
    /\ order'[a] = order[a]
    /\ a \in posting' <=> a \in posting
    /\ \A e \in Events : queue'[e][a] = queue[e][a]
    /\ PaidBegun(a)' = PaidBegun(a) /\ RefusedBegun(a)' = RefusedBegun(a)
    /\ unacked'[a] = unacked[a]
    /\ payments'[a] = payments[a]
    /\ dead'[a] = dead[a]
    /\ crashes' \in {crashes} \union (Nat \ {0})

LEMMA Counts ==
    ASSUME Shape, NEW o \in Orders
    PROVE  /\ queue["StockReserved"][o] \in Nat /\ queue["StockNotReserved"][o] \in Nat
           /\ queue["PaymentCompleted"][o] \in Nat /\ queue["PaymentFailed"][o] \in Nat
           /\ PaidBegun(o) \in Nat /\ RefusedBegun(o) \in Nat
           /\ unacked[o] \in Nat
  BY DEF Shape, Events, PaidBegun, RefusedBegun

LEMMA Begun ==
    ASSUME NEW o \in Orders
    PROVE  o \in Unpublished <=> PaidBegun(o) > 0 \/ RefusedBegun(o) > 0
  BY DEF Unpublished, PaidBegun, RefusedBegun

\* Nothing is begun or published by Payment.API.
SameBegun ==
    \A a \in Orders : /\ PaidBegun(a)' = PaidBegun(a) /\ RefusedBegun(a)' = RefusedBegun(a)
                      /\ a \in Unpublished' <=> a \in Unpublished

LEMMA PublishingUnchanged == UNCHANGED publishing => SameBegun
  BY DEF SameBegun, PaidBegun, RefusedBegun, Unpublished

LEMMA Frame ==
    ASSUME NEW a \in Orders, OrderInv(a), Same(a)
    PROVE  OrderInv(a)'
<1>1. Untouched(a) => Untouched(a)'
  BY DEF Untouched, Same
<1>2. Caused(a)'
  BY DEF OrderInv, Caused, Same, Events
<1>3. crashes' = 0 => Calm(a)'
  BY DEF OrderInv, Calm, Tokens, Same, Events
<1>4. (InFlight(a) \/ Gone(a)) => (InFlight(a) \/ Gone(a))'
  <2>1. a \in Unpublished' <=> a \in Unpublished
    <3>1. a \in Unpublished' <=> PaidBegun(a)' > 0 \/ RefusedBegun(a)' > 0
      BY DEF Unpublished, PaidBegun, RefusedBegun
    <3> QED
      BY <3>1, Begun DEF Same
  <2> QED
    BY <2>1 DEF InFlight, Gone, Same
<1> QED
  BY <1>1, <1>2, <1>3, <1>4 DEF OrderInv, Same

LEMMA InvInit == Init => IInv
<1> SUFFICES ASSUME Init PROVE IInv
  OBVIOUS
<1> USE DEF Init, Stock!Init
<1>1. Shape
  BY DEF Shape, Stock!Steps, Stock!Answers, OrderStatus, Events, Fates
<1>2. ASSUME NEW o \in Orders PROVE OrderInv(o)
  <2>1. PaidBegun(o) = 0 /\ RefusedBegun(o) = 0
    BY DEF PaidBegun, RefusedBegun
  <2> QED
    BY <2>1 DEF OrderInv, Untouched, Caused, Calm, Tokens, Events
<1> QED
  BY <1>1, <1>2 DEF IInv

-----------------------------------------------------------------------------
(* The actions, one by one. *)

\* What a step of Stock.API that sends nothing does to the rest of the system.
LEMMA StockWorksEffect ==
    ASSUME Shape, NEW o \in Orders, StockWorks(o)
    PROVE  /\ step[o] \notin {"none", "done"}
           /\ \E s \in Stock!Steps \ {"none"} :
                 /\ step' = [step EXCEPT ![o] = s]
                 /\ s \in {"sent", "done"} <=> step[o] = "sent"
           /\ UNCHANGED <<version, answers, order, posting, queue, paymentVars, dead, crashes>>
  BY DEF Shape, StockWorks, Stock!Deliver, Stock!CheckItem, Stock!Decide, Stock!ReadItem,
         Stock!ReplaceItem, Stock!Acknowledge, Stock!Steps

LEMMA StockWorksStep ==
    ASSUME IInv, NEW o \in Orders, StockWorks(o)
    PROVE  IInv'
<1>1. PICK s \in Stock!Steps \ {"none"} :
          /\ step' = [step EXCEPT ![o] = s]
          /\ s \in {"sent", "done"} <=> step[o] = "sent"
  BY StockWorksEffect DEF IInv
<1>2. /\ step[o] \notin {"none", "done"}
      /\ UNCHANGED <<answers, order, posting, queue, publishing, unacked, payments, dead, crashes>>
  BY StockWorksEffect DEF IInv, paymentVars
<1>3. Shape' /\ step'[o] = s /\ SameBegun
  BY <1>1, <1>2, PublishingUnchanged DEF IInv, Shape
<1>4. \A a \in Orders \ {o} : Same(a)
  BY <1>1, <1>2, <1>3 DEF IInv, Shape, Same, SameBegun
<1>5. OrderInv(o)'
  <2>1. order[o] # "none"
    BY <1>2 DEF IInv, OrderInv, Untouched
  <2>2. Caused(o)'
    BY <1>2, <1>3 DEF IInv, OrderInv, Caused, SameBegun
  <2>3. crashes = 0 => Calm(o)'
    BY <1>1, <1>2, <1>3 DEF IInv, OrderInv, Calm, Tokens, SameBegun
  <2>4. (InFlight(o) \/ Gone(o)) => (InFlight(o) \/ Gone(o))'
    BY <1>1, <1>2, <1>3 DEF InFlight, Gone, SameBegun
  <2> QED
    BY <1>2, <2>1, <2>2, <2>3, <2>4 DEF IInv, OrderInv
<1> QED
  BY <1>3, <1>4, <1>5, Frame DEF IInv

LEMMA StockAnswersStep ==
    ASSUME IInv, NEW o \in Orders, StockAnswers(o)
    PROVE  IInv'
<1>a. PICK answer \in Stock!Answers, e \in Events :
          /\ step[o] \notin {"none", "queued", "sent", "done"}
          /\ answers' = [answers EXCEPT ![o] = @ \union {answer}]
          /\ step' = [step EXCEPT ![o] = "sent"]
          /\ Put(e, o)
          /\ \/ answer = "reserved" /\ e = "StockReserved"
             \/ answer = "notReserved" /\ e = "StockNotReserved"
  BY DEF StockAnswers, Stock!SendStockReserved, Stock!PublishStockNotReserved, Stock!Answer,
         Stock!Answers, Events
<1>b. UNCHANGED <<order, posting, publishing, unacked, payments, dead, crashes>> /\ SameBegun
  BY PublishingUnchanged DEF StockAnswers, paymentVars
<1>1. /\ step'[o] = "sent" /\ answers'[o] = answers[o] \union {answer}
      /\ queue'[e][o] = queue[e][o] + 1
      /\ \A f \in Events \ {e} : queue'[f][o] = queue[f][o]
      /\ Shape'
  BY <1>a, <1>b DEF IInv, Shape, Put, Stock!Steps
<1>2. \A a \in Orders \ {o} : Same(a)
  BY <1>a, <1>b DEF IInv, Shape, Same, SameBegun, Put
<1>3. order[o] # "none"
  BY <1>a DEF IInv, OrderInv, Untouched
<1>4. Caused(o)'
  BY <1>a, <1>b, <1>1 DEF IInv, OrderInv, Caused, SameBegun, Events
<1>5. crashes = 0 => Calm(o)'
  <2> SUFFICES ASSUME crashes = 0 PROVE Calm(o)'
    OBVIOUS
  <2>1. answers[o] = {} /\ payments[o] = {} /\ order[o] = "Suspend"
    BY <1>a, <1>3 DEF IInv, Shape, OrderInv, Calm, Caused, OrderStatus
  <2>2. /\ \A f \in Events : queue[f][o] = 0
        /\ PaidBegun(o) = 0 /\ RefusedBegun(o) = 0
    <3>1. /\ ~(queue["StockReserved"][o] > 0) /\ ~(queue["StockNotReserved"][o] > 0)
          /\ ~(queue["PaymentCompleted"][o] > 0) /\ ~(queue["PaymentFailed"][o] > 0)
          /\ ~(PaidBegun(o) > 0) /\ ~(RefusedBegun(o) > 0)
      BY <2>1 DEF IInv, OrderInv, Caused
    <3> QED
      BY <3>1, Counts DEF IInv, Events
  <2>3. Tokens(o)' = 1
    BY <1>1, <1>a, <1>b, <2>2 DEF Tokens, SameBegun, Events
  <2> QED
    BY <1>1, <1>b, <2>1, <2>3 DEF Calm
<1>6. InFlight(o)'
  BY <1>1 DEF IInv, Shape, InFlight
<1>7. OrderInv(o)'
  BY <1>b, <1>3, <1>4, <1>5, <1>6 DEF OrderInv
<1> QED
  BY <1>1, <1>2, <1>7, Frame DEF IInv

LEMMA OrderApiStep ==
    ASSUME IInv, NEW o \in Orders,
           CreateOrder(o) \/ PublishOrderCreated(o)
    PROVE  IInv'
<1>a. UNCHANGED <<answers, queue, publishing, unacked, payments, dead, crashes>> /\ SameBegun
  BY PublishingUnchanged
  DEF CreateOrder, PublishOrderCreated, Stock!Arrive, stockVars, paymentVars
<1> USE DEF IInv
<1>1. CASE CreateOrder(o)
  <2>1. Shape' /\ order'[o] = "Suspend" /\ o \in posting' /\ order[o] = "none"
    BY <1>a, <1>1 DEF CreateOrder, Shape, OrderStatus, stockVars
  <2>2. \A a \in Orders \ {o} : Same(a)
    BY <1>a, <1>1 DEF CreateOrder, Shape, Same, SameBegun, stockVars
  <2>3. Untouched(o)
    BY <2>1 DEF OrderInv
  <2>4. Caused(o)'
    BY <1>a, <2>1 DEF OrderInv, Caused, SameBegun
  <2>5. Calm(o)'
    BY <1>a, <2>1, <2>3 DEF Untouched, Calm, Tokens, SameBegun, Events
  <2> QED
    BY <2>1, <2>2, <2>4, <2>5, Frame DEF OrderInv, InFlight
<1>2. CASE PublishOrderCreated(o)
  <2>1. Shape' /\ step'[o] = "queued" /\ step[o] = "none" /\ order' = order /\ o \in posting
    BY <1>a, <1>2 DEF PublishOrderCreated, Stock!Arrive, Shape, Stock!Steps
  <2>2. \A a \in Orders \ {o} : Same(a)
    BY <1>a, <1>2 DEF PublishOrderCreated, Stock!Arrive, Shape, Same, SameBegun
  <2>3. order[o] # "none"
    BY <2>1 DEF OrderInv, Untouched
  <2>4. Caused(o)'
    BY <1>a, <2>1 DEF OrderInv, Caused, SameBegun
  <2>5. crashes = 0 => Calm(o)'
    BY <1>a, <2>1 DEF OrderInv, Calm, Tokens, SameBegun
  <2>6. InFlight(o)'
    BY <2>1 DEF InFlight
  <2> QED
    BY <1>a, <2>1, <2>2, <2>3, <2>4, <2>5, <2>6, Frame DEF OrderInv
<1> QED
  BY <1>1, <1>2

\* A delivery that ends without Stock.API's consumer returning: in _error, or in _skipped.
LEMMA BuriedDeliveryStep ==
    ASSUME IInv, NEW o \in Orders, StockThrows(o) \/ PaymentSkips(o)
    PROVE  IInv'
<1>a. UNCHANGED <<answers, order, posting, queue, publishing, unacked, payments, crashes>>
      /\ SameBegun
  BY PublishingUnchanged DEF StockThrows, PaymentSkips, Stock!Acknowledge, paymentVars
<1> USE DEF IInv
<1>1. PICK s \in Stock!Steps, fate \in Fates :
          /\ step' = [step EXCEPT ![o] = s]
          /\ Bury({o}, fate)
          /\ \/ step[o] = "sent" /\ s = "done" /\ fate = "answered"
             \/ step[o] = "queued" /\ s = "none" /\ fate = "skipped"
  BY DEF StockThrows, PaymentSkips, Stock!Acknowledge, Stock!Steps, Fates
<1>2. Shape' /\ step'[o] = s /\ dead'[o] = dead[o] \union {fate}
  BY <1>a, <1>1 DEF Shape, Bury
<1>3. \A a \in Orders \ {o} : Same(a)
  BY <1>a, <1>1 DEF Shape, Bury, Same, SameBegun
<1>4. order[o] # "none" /\ Caused(o)'
  BY <1>a, <1>1 DEF OrderInv, Caused, Untouched, SameBegun
<1>5. crashes = 0 => Calm(o)'
  BY <1>a, <1>1, <1>2 DEF OrderInv, Calm, Tokens, SameBegun
<1>6. InFlight(o) \/ Gone(o) => (InFlight(o) \/ Gone(o))'
  BY <1>a, <1>1, <1>2 DEF InFlight, Gone, SameBegun
<1> QED
  BY <1>a, <1>2, <1>3, <1>4, <1>5, <1>6, Frame DEF OrderInv

\* One event less in a queue, and nothing more.
LEMMA TakenEvent ==
    ASSUME Shape, NEW o \in Orders, NEW e \in Events, Take(e, o)
    PROVE  /\ queue[e][o] > 0
           /\ queue'[e][o] = queue[e][o] - 1
           /\ \A f \in Events \ {e} : queue'[f][o] = queue[f][o]
           /\ \A a \in Orders \ {o} : \A f \in Events : queue'[f][a] = queue[f][a]
           /\ queue' \in [Events -> [Orders -> Nat]]
<1>1. queue[e][o] - 1 \in Nat
  BY DEF Take, Shape
<1> QED
  BY <1>1 DEF Take, Shape

LEMMA StockCompensatesStep ==
    ASSUME IInv, NEW o \in Orders, StockCompensates(o)
    PROVE  IInv'
<1>a. UNCHANGED <<step, answers, order, posting, publishing, unacked, payments, crashes>>
      /\ SameBegun
  BY PublishingUnchanged DEF StockCompensates, stockVars, paymentVars
<1> USE DEF IInv
<1>1. /\ queue["PaymentFailed"][o] > 0
      /\ queue'["PaymentFailed"][o] = queue["PaymentFailed"][o] - 1
      /\ \A f \in Events \ {"PaymentFailed"} : queue'[f][o] = queue[f][o]
      /\ \A a \in Orders \ {o} : \A f \in Events : queue'[f][a] = queue[f][a]
      /\ queue' \in [Events -> [Orders -> Nat]]
  BY TakenEvent DEF StockCompensates, Events
<1>2. Bury({o}, "error")
  BY DEF StockCompensates
<1>3. Shape' /\ dead'[o] = dead[o] \union {"error"}
  BY <1>a, <1>1, <1>2 DEF Shape, Bury, Fates
<1>4. \A a \in Orders \ {o} : Same(a)
  BY <1>a, <1>1, <1>2 DEF Shape, Bury, Same, SameBegun
<1>5. order[o] # "none" /\ Caused(o)'
  BY <1>a, <1>1, Counts DEF OrderInv, Caused, Untouched, SameBegun, Events
<1>6. crashes = 0 => Calm(o)'
  <2>1. /\ queue'["StockReserved"][o] = queue["StockReserved"][o]
        /\ Tokens(o)' = Tokens(o) - 1
        /\ Tokens(o) \in Nat
    BY <1>a, <1>1, Counts DEF Tokens, SameBegun, Events
  <2> QED
    BY <1>a, <2>1 DEF OrderInv, Calm
<1>7. Gone(o)'
  BY <1>3 DEF Gone
<1> QED
  BY <1>a, <1>3, <1>4, <1>5, <1>6, <1>7, Frame DEF OrderInv

\* Payment.API takes a reservation and begins to publish the event of its answer.
LEMMA PaymentConsumesStep ==
    ASSUME IInv, NEW o \in Orders, NEW paid \in BOOLEAN, PaymentConsumes(o, paid)
    PROVE  IInv'
<1>a. UNCHANGED <<step, answers, order, posting, dead, crashes>>
  BY DEF PaymentConsumes, stockVars
<1> USE DEF IInv
<1>1. /\ queue["StockReserved"][o] > 0
      /\ queue'["StockReserved"][o] = queue["StockReserved"][o] - 1
      /\ \A f \in Events \ {"StockReserved"} : queue'[f][o] = queue[f][o]
      /\ \A a \in Orders \ {o} : \A f \in Events : queue'[f][a] = queue[f][a]
      /\ queue' \in [Events -> [Orders -> Nat]]
  BY TakenEvent DEF PaymentConsumes, Events
<1>2. \/ /\ PaidBegun(o)' = PaidBegun(o) + 1 /\ RefusedBegun(o)' = RefusedBegun(o)
         /\ payments'[o] = payments[o] \union {TRUE}
      \/ /\ PaidBegun(o)' = PaidBegun(o) /\ RefusedBegun(o)' = RefusedBegun(o) + 1
         /\ payments'[o] = payments[o] \union {FALSE}
  BY DEF PaymentConsumes, PaidBegun, RefusedBegun, Shape
<1>b. \/ PaidBegun(o)' = PaidBegun(o) + 1 /\ RefusedBegun(o)' = RefusedBegun(o)
      \/ PaidBegun(o)' = PaidBegun(o) /\ RefusedBegun(o)' = RefusedBegun(o) + 1
  BY <1>2
<1>3. \A a \in Orders \ {o} : /\ PaidBegun(a)' = PaidBegun(a) /\ RefusedBegun(a)' = RefusedBegun(a)
                              /\ payments'[a] = payments[a] /\ unacked'[a] = unacked[a]
  BY DEF PaymentConsumes, PaidBegun, RefusedBegun, Shape
<1>4. Shape'
  <2>1. publishing' \in [Orders -> [BOOLEAN -> Nat]] /\ unacked' \in [Orders -> Nat]
    BY DEF PaymentConsumes, Shape
  <2>2. payments' \in [Orders -> SUBSET BOOLEAN]
    BY DEF PaymentConsumes, Shape
  <2> QED
    BY <1>a, <1>1, <2>1, <2>2 DEF Shape
<1>5. \A a \in Orders \ {o} : Same(a)
  BY <1>a, <1>1, <1>3 DEF Same
<1>6. order[o] # "none" /\ "reserved" \in answers[o]
  BY <1>1 DEF OrderInv, Caused, Untouched, Events
<1>7. Caused(o)'
  BY <1>a, <1>1, <1>2, <1>6, Counts DEF OrderInv, Caused, Events
<1>8. crashes = 0 => Calm(o)'
  <2>1. /\ queue'["StockNotReserved"][o] = queue["StockNotReserved"][o]
        /\ queue'["PaymentCompleted"][o] = queue["PaymentCompleted"][o]
        /\ queue'["PaymentFailed"][o] = queue["PaymentFailed"][o]
        /\ queue'["StockReserved"][o] = queue["StockReserved"][o] - 1
        /\ queue["StockReserved"][o] > 0
    BY <1>1 DEF Events
  <2>2. /\ Tokens(o)' = Tokens(o)
        /\ Tokens(o) <= 1 => queue'["StockReserved"][o] = 0
    BY <1>b, <2>1, Counts DEF Tokens
  <2> QED
    BY <1>a, <2>2, Counts DEF OrderInv, Calm
<1>9. InFlight(o)'
  <2>1. PaidBegun(o)' > 0 \/ RefusedBegun(o)' > 0
    BY <1>b, Counts
  <2> QED
    BY <2>1 DEF InFlight, Unpublished, PaidBegun, RefusedBegun
<1> QED
  BY <1>a, <1>4, <1>5, <1>6, <1>7, <1>8, <1>9, Frame DEF OrderInv

LEMMA PaymentPublishesStep ==
    ASSUME IInv, NEW o \in Orders, NEW paid \in BOOLEAN, PaymentPublishes(o, paid)
    PROVE  IInv'
<1>a. UNCHANGED <<step, answers, order, posting, unacked, payments, dead, crashes>>
  BY DEF PaymentPublishes, stockVars
<1> USE DEF IInv
<1>1. PICK e \in Events :
          /\ \/ /\ e = "PaymentCompleted" /\ PaidBegun(o) > 0
                /\ PaidBegun(o)' = PaidBegun(o) - 1 /\ RefusedBegun(o)' = RefusedBegun(o)
             \/ /\ e = "PaymentFailed" /\ RefusedBegun(o) > 0
                /\ PaidBegun(o)' = PaidBegun(o) /\ RefusedBegun(o)' = RefusedBegun(o) - 1
          /\ Put(e, o)
  BY DEF PaymentPublishes, PaymentEvent, Events, PaidBegun, RefusedBegun, Shape
<1>2. /\ queue'[e][o] = queue[e][o] + 1
      /\ \A f \in Events \ {e} : queue'[f][o] = queue[f][o]
      /\ \A a \in Orders \ {o} : \A f \in Events : queue'[f][a] = queue[f][a]
      /\ queue' \in [Events -> [Orders -> Nat]]
  BY <1>1 DEF Put, Shape
<1>3. \A a \in Orders \ {o} : PaidBegun(a)' = PaidBegun(a) /\ RefusedBegun(a)' = RefusedBegun(a)
  BY DEF PaymentPublishes, PaidBegun, RefusedBegun, Shape
<1>4. Shape'
  <2>1. publishing[o][paid] - 1 \in Nat
    BY DEF PaymentPublishes, Shape
  <2>2. publishing' \in [Orders -> [BOOLEAN -> Nat]]
    BY <2>1 DEF PaymentPublishes, Shape
  <2> QED
    BY <1>a, <1>2, <2>2 DEF Shape
<1>5. \A a \in Orders \ {o} : Same(a)
  BY <1>a, <1>2, <1>3 DEF Same
<1>6. order[o] # "none" /\ Caused(o)'
  BY <1>a, <1>1, <1>2, Counts DEF OrderInv, Caused, Untouched, Events
<1>7. crashes = 0 => Calm(o)'
  <2>1. /\ Tokens(o)' = Tokens(o)
        /\ queue'["StockReserved"][o] = queue["StockReserved"][o]
    BY <1>1, <1>2, Counts DEF Tokens, Events
  <2> QED
    BY <1>a, <2>1 DEF OrderInv, Calm
<1>8. InFlight(o)'
  <2>1. queue'[e][o] > 0
    BY <1>1, <1>2, Counts
  <2> QED
    BY <2>1 DEF InFlight
<1> QED
  BY <1>a, <1>4, <1>5, <1>6, <1>7, <1>8, Frame DEF OrderInv

LEMMA PaymentAcknowledgesStep ==
    ASSUME IInv, NEW o \in Orders, PaymentAcknowledges(o)
    PROVE  IInv'
<1>a. UNCHANGED <<step, answers, order, posting, queue, publishing, payments, dead, crashes>>
      /\ SameBegun
  BY PublishingUnchanged DEF PaymentAcknowledges, stockVars
<1> USE DEF IInv
<1>1. Shape' /\ unacked[o] > 0
  BY <1>a DEF PaymentAcknowledges, Shape
<1>2. \A a \in Orders \ {o} : Same(a)
  BY <1>a DEF PaymentAcknowledges, Shape, Same, SameBegun
<1>3. Caused(o)'
  BY <1>a, <1>1 DEF OrderInv, Caused, SameBegun
<1>4. Untouched(o) => Untouched(o)'
  BY <1>a DEF Untouched, SameBegun
<1>5. InFlight(o) \/ Gone(o) => (InFlight(o) \/ Gone(o))'
  BY <1>a DEF InFlight, Gone, SameBegun
<1>6. Calm(o) => Calm(o)'
  BY <1>a DEF Calm, Tokens, SameBegun
<1> QED
  BY <1>a, <1>1, <1>2, <1>3, <1>4, <1>5, <1>6, Frame DEF OrderInv

LEMMA OrderConsumesStep ==
    ASSUME IInv, NEW o \in Orders, NEW e \in Events, OrderConsumes(o, e)
    PROVE  IInv'
<1>a. UNCHANGED <<step, answers, posting, publishing, unacked, payments, dead, crashes>>
      /\ SameBegun
  BY PublishingUnchanged DEF OrderConsumes, stockVars, paymentVars
<1> USE DEF IInv
<1>1. /\ queue[e][o] > 0
      /\ queue'[e][o] = queue[e][o] - 1
      /\ \A f \in Events \ {e} : queue'[f][o] = queue[f][o]
      /\ \A a \in Orders \ {o} : \A f \in Events : queue'[f][a] = queue[f][a]
      /\ queue' \in [Events -> [Orders -> Nat]]
  BY TakenEvent DEF OrderConsumes
<1>2. /\ e # "StockReserved"
      /\ order' = [order EXCEPT ![o] = IF e = "PaymentCompleted" THEN "Completed" ELSE "Failed"]
  BY DEF OrderConsumes, NewStatus
<1>3. Shape' /\ order'[o] = (IF e = "PaymentCompleted" THEN "Completed" ELSE "Failed")
  BY <1>a, <1>1, <1>2 DEF Shape, OrderStatus
<1>4. \A a \in Orders \ {o} : Same(a)
  BY <1>a, <1>1, <1>2 DEF Shape, Same, SameBegun
<1>5. Caused(o)'
  <2>1. /\ \A f \in Events : queue'[f][o] > 0 => queue[f][o] > 0
        /\ PaidBegun(o)' > 0 => PaidBegun(o) > 0
        /\ RefusedBegun(o)' > 0 => RefusedBegun(o) > 0
    BY <1>a, <1>1, Counts DEF SameBegun, Events
  <2>2. queue[e][o] > 0
    BY <1>1
  <2>3. e = "PaymentCompleted" => TRUE \in payments[o]
    BY <2>2 DEF OrderInv, Caused
  <2>4. e # "PaymentCompleted" => "notReserved" \in answers[o] \/ FALSE \in payments[o]
    BY <1>2, <2>2 DEF OrderInv, Caused, Events
  <2> QED
    BY <1>a, <1>3, <2>1, <2>3, <2>4 DEF OrderInv, Caused, Events
<1>6. crashes = 0 => Calm(o)'
  <2>1. /\ queue'["StockReserved"][o] = queue["StockReserved"][o]
        /\ Tokens(o)' = Tokens(o) - 1
        /\ Tokens(o) \in Nat
    BY <1>a, <1>1, <1>2, Counts DEF Tokens, SameBegun, Events
  <2> QED
    BY <1>a, <2>1 DEF OrderInv, Calm
<1> QED
  BY <1>a, <1>3, <1>4, <1>5, <1>6, Frame DEF OrderInv

-----------------------------------------------------------------------------
(* A process dies: nothing is calm from then on. *)

LEMMA OrderCrashStep ==
    ASSUME IInv, OrderCrash \/ \E o \in Orders : \E e \in Events : OrderCrashAfterSave(o, e)
    PROVE  IInv'
<1>a. UNCHANGED <<step, answers, queue, publishing, unacked, payments>> /\ SameBegun
      /\ posting' = {} /\ Bury(posting, "lost") /\ crashes' = crashes + 1
  BY PublishingUnchanged DEF OrderCrash, OrderCrashAfterSave, Die, stockVars, paymentVars
<1>1. \A o \in Orders :
          \/ order'[o] = order[o]
          \/ \E e \in Events : /\ queue[e][o] > 0 /\ e # "StockReserved"
                               /\ order'[o] = (IF e = "PaymentCompleted" THEN "Completed" ELSE "Failed")
  BY DEF OrderCrash, OrderCrashAfterSave, NewStatus, IInv, Shape
<1>2. Shape'
  <2>1. order' \in [Orders -> OrderStatus]
    BY DEF OrderCrash, OrderCrashAfterSave, NewStatus, IInv, Shape, OrderStatus
  <2>2. dead' \in [Orders -> SUBSET Fates]
    BY <1>a DEF Bury, IInv, Shape, Fates
  <2> QED
    BY <1>a, <2>1, <2>2 DEF IInv, Shape
<1>3. crashes' # 0
  BY <1>a DEF IInv, Shape
<1>4. ASSUME NEW o \in Orders PROVE OrderInv(o)'
  <2>1. order'[o] = "none" => order[o] = "none"
    BY <1>1
  <2>2. Untouched(o) => Untouched(o)'
    BY <1>a DEF Untouched, SameBegun
  <2>3. Caused(o)'
    <3>1. CASE order'[o] = order[o]
      BY <1>a, <3>1 DEF IInv, OrderInv, Caused, SameBegun
    <3>2. CASE order'[o] # order[o]
      <4>1. PICK e \in Events :
                /\ queue[e][o] > 0 /\ e # "StockReserved"
                /\ order'[o] = (IF e = "PaymentCompleted" THEN "Completed" ELSE "Failed")
        BY <1>1, <3>2
      <4>2. e = "PaymentCompleted" => TRUE \in payments[o]
        BY <4>1 DEF IInv, OrderInv, Caused
      <4>3. e # "PaymentCompleted" => "notReserved" \in answers[o] \/ FALSE \in payments[o]
        BY <4>1 DEF IInv, OrderInv, Caused, Events
      <4> QED
        BY <1>a, <4>1, <4>2, <4>3 DEF IInv, OrderInv, Caused, SameBegun
    <3> QED
      BY <3>1, <3>2
  <2>4. order'[o] = "Suspend" => order[o] = "Suspend"
    BY <1>1
  <2>5. o \in posting => Gone(o)'
    BY <1>a DEF Bury, Gone
  <2>6. o \notin posting /\ (InFlight(o) \/ Gone(o)) => (InFlight(o) \/ Gone(o))'
    BY <1>a DEF Bury, InFlight, Gone, SameBegun
  <2> QED
    BY <1>3, <2>1, <2>2, <2>3, <2>4, <2>5, <2>6 DEF IInv, OrderInv
<1> QED
  BY <1>2, <1>4 DEF IInv

LEMMA StockCrashStep ==
    ASSUME IInv, StockCrash
    PROVE  IInv'
<1>a. UNCHANGED <<answers, order, posting, queue, publishing, unacked, payments, dead>>
      /\ SameBegun /\ crashes' = crashes + 1
  BY PublishingUnchanged DEF StockCrash, Stock!Crash, Die, paymentVars
<1>1. step' = [o \in Orders |-> IF Stock!Active(o) THEN "queued" ELSE step[o]]
  BY DEF StockCrash, Stock!Crash
<1>2. Shape' /\ crashes' # 0
  BY <1>a, <1>1 DEF IInv, Shape, Stock!Steps
<1>3. ASSUME NEW o \in Orders PROVE OrderInv(o)'
  <2>1. \/ step'[o] = step[o]
        \/ step'[o] = "queued" /\ step[o] \notin {"none", "done"}
    BY <1>1 DEF Stock!Active
  <2>2. Untouched(o) => Untouched(o)'
    BY <1>a, <2>1 DEF Untouched, SameBegun
  <2>3. Caused(o)'
    BY <1>a DEF IInv, OrderInv, Caused, SameBegun
  <2>4. (InFlight(o) \/ Gone(o)) => (InFlight(o) \/ Gone(o))'
    BY <1>a, <2>1 DEF InFlight, Gone, SameBegun
  <2> QED
    BY <1>a, <1>2, <2>2, <2>3, <2>4 DEF IInv, OrderInv
<1> QED
  BY <1>2, <1>3 DEF IInv

\* A reservation that was not acknowledged comes again, and only a publish whose
\* reservation was is lost.
LEMMA PaymentCrashStep ==
    ASSUME IInv, PaymentCrash
    PROVE  IInv'
<1>a. UNCHANGED <<step, answers, order, posting, payments>>
      /\ Bury(Abandoned, "lost") /\ crashes' = crashes + 1
  BY DEF PaymentCrash, Die, stockVars
<1>1. ASSUME NEW o \in Orders
      PROVE  /\ PaidBegun(o)' = 0 /\ RefusedBegun(o)' = 0 /\ unacked'[o] = 0
             /\ queue'["StockReserved"][o] = queue["StockReserved"][o] + unacked[o]
             /\ \A e \in Events \ {"StockReserved"} : queue'[e][o] = queue[e][o]
  BY DEF PaymentCrash, PaidBegun, RefusedBegun, IInv, Shape, Events
<1>2. Shape' /\ crashes' # 0
  <2>1. dead' \in [Orders -> SUBSET Fates]
    BY <1>a DEF Bury, IInv, Shape, Fates
  <2>2. queue' \in [Events -> [Orders -> Nat]] /\ unacked' \in [Orders -> Nat]
    BY DEF PaymentCrash, IInv, Shape, Events
  <2>3. publishing' \in [Orders -> [BOOLEAN -> Nat]]
    BY DEF PaymentCrash
  <2> QED
    BY <1>a, <2>1, <2>2, <2>3 DEF IInv, Shape
<1>3. ASSUME NEW o \in Orders PROVE OrderInv(o)'
  <2>1. Untouched(o) /\ ~(unacked[o] > 0) => Untouched(o)'
    <3>1. ~(unacked[o] > 0) => \A e \in Events : queue'[e][o] = queue[e][o]
      BY <1>1, Counts DEF IInv, Events
    <3> QED
      BY <1>a, <1>1, <3>1 DEF Untouched
  <2>2. Untouched(o) => ~(unacked[o] > 0)
    BY DEF IInv, OrderInv, Caused, Untouched
  <2>3. Caused(o)'
    <3>1. /\ queue'["StockReserved"][o] > 0 => queue["StockReserved"][o] > 0 \/ unacked[o] > 0
          /\ ~(PaidBegun(o)' > 0) /\ ~(RefusedBegun(o)' > 0) /\ ~(unacked'[o] > 0)
      BY <1>1, Counts DEF IInv, Events
    <3> QED
      BY <1>a, <1>1, <3>1 DEF IInv, OrderInv, Caused, Events
  <2>4. dead'[o] = IF o \in Abandoned THEN dead[o] \union {"lost"} ELSE dead[o]
    BY <1>a DEF Bury
  <2>5. o \in Unpublished /\ o \notin Abandoned => queue'["StockReserved"][o] > 0
    <3>1. o \notin Abandoned => PaidBegun(o) + RefusedBegun(o) <= unacked[o]
      <4>1. o \notin Abandoned => ~(PaidBegun(o) + RefusedBegun(o) > unacked[o])
        BY DEF Abandoned, PaidBegun, RefusedBegun
      <4> QED
        BY <4>1, Counts DEF IInv
    <3> QED
      BY <1>1, <3>1, Begun, Counts DEF IInv
  <2>6. \A e \in Events : queue[e][o] > 0 => queue'[e][o] > 0
    BY <1>1, Counts DEF IInv, Events
  <2>7. (InFlight(o) \/ Gone(o)) => (InFlight(o) \/ Gone(o))'
    BY <1>a, <2>4, <2>5, <2>6 DEF InFlight, Gone, Events
  <2> QED
    BY <1>a, <1>2, <2>1, <2>2, <2>3, <2>7 DEF IInv, OrderInv
<1> QED
  BY <1>2, <1>3 DEF IInv

-----------------------------------------------------------------------------
LEMMA InvStep == IInv /\ [Next]_vars => IInv'
<1> SUFFICES ASSUME IInv, [Next]_vars PROVE IInv'
  OBVIOUS
<1>1. CASE UNCHANGED vars
  BY <1>1 DEF vars, stockVars, paymentVars, IInv, Shape, OrderInv, Untouched, Caused, Calm, Tokens,
              InFlight, Gone, Unpublished, PaidBegun, RefusedBegun
<1>2. CASE Next
  BY <1>2, OrderApiStep, StockWorksStep, StockAnswersStep, BuriedDeliveryStep, StockCompensatesStep,
     PaymentConsumesStep, PaymentPublishesStep, PaymentAcknowledgesStep, OrderConsumesStep,
     OrderCrashStep, StockCrashStep, PaymentCrashStep, PaymentAnswersAssumption
  DEF Next, Proceed
<1> QED
  BY <1>1, <1>2

LEMMA IInvHolds == Spec => []IInv
  BY InvInit, InvStep, PTL DEF Spec

-----------------------------------------------------------------------------
\* An order that is still Suspend has an event under way, or one that was lost in a
\* crash, skipped or put in an error queue (the consumers of the three services).
THEOREM OrdersAreFound == Spec => []NoOrderForgotten
<1>1. IInv => NoOrderForgotten
  BY DEF IInv, OrderInv, NoOrderForgotten
<1> QED
  BY <1>1, IInvHolds, PTL

\* A decided order changes only by an event that is consumed or redelivered.
LEMMA FlipStep ==
    ASSUME IInv, Next, NEW o \in Orders, Decided(o), order'[o] # order[o]
    PROVE  /\ \/ order[o] = "Completed" /\ order'[o] = "Failed"
              \/ order[o] = "Failed" /\ order'[o] = "Completed"
           /\ UNCHANGED <<answers, payments>>
<1>1. \E p \in Orders : \E e \in Events : OrderConsumes(p, e) \/ OrderCrashAfterSave(p, e)
  <2>1. \A p \in Orders : CreateOrder(p) => order'[o] = order[o]
    BY DEF CreateOrder, Decided, IInv, Shape
  <2> QED
    BY <2>1
    DEF Next, Proceed, PublishOrderCreated, StockWorks, StockAnswers, StockThrows, PaymentSkips,
        PaymentConsumes, PaymentPublishes, PaymentAcknowledges, StockCompensates, OrderCrash,
        StockCrash, PaymentCrash
<1>2. UNCHANGED <<answers, payments>>
  BY <1>1 DEF OrderConsumes, OrderCrashAfterSave, stockVars, paymentVars
<1>3. order'[o] \in {"Completed", "Failed"}
  BY <1>1 DEF OrderConsumes, OrderCrashAfterSave, NewStatus, IInv, Shape
<1> QED
  BY <1>2, <1>3 DEF Decided

LEMMA PairSize ==
    ASSUME NEW S, NEW a \in S, NEW b \in S, a # b, \A x \in S : x = a \/ x = b
    PROVE  Cardinality(S) = 2
<1>1. IsFiniteSet({a}) /\ Cardinality({a}) = 1
  BY FS_Singleton
<1>2. Cardinality({a} \union {b}) = 2
  BY <1>1, FS_AddElement
<1>3. S = {a} \union {b}
  OBVIOUS
<1> QED
  BY <1>2, <1>3

\* The status of an order flips only if Stock.API or Payment.API has given both its
\* answers for it, whatever crashes and redeliveries there were.
THEOREM FlipsNeedTwoAnswers == Spec => OnlyDoubleAnswersFlip
<1> DEFINE Flip == \A o \in Orders :
               Decided(o) /\ order'[o] # order[o]
                   => Cardinality(answers[o]) = 2 \/ Cardinality(payments[o]) = 2
<1>1. IInv /\ IInv' /\ [Next]_vars => [Flip]_vars
  <2> SUFFICES ASSUME IInv, IInv', Next, NEW o \in Orders, Decided(o), order'[o] # order[o]
               PROVE  Cardinality(answers[o]) = 2 \/ Cardinality(payments[o]) = 2
    OBVIOUS
  <2>1. /\ TRUE \in payments[o]
        /\ "reserved" \in answers[o]
        /\ "notReserved" \in answers[o] \/ FALSE \in payments[o]
    BY FlipStep DEF IInv, OrderInv, Caused
  <2>2. CASE "notReserved" \in answers[o]
    <3>1. \A x \in answers[o] : x = "reserved" \/ x = "notReserved"
      BY DEF IInv, Shape, Stock!Answers
    <3> QED
      BY <2>1, <2>2, <3>1, PairSize
  <2>3. CASE FALSE \in payments[o]
    <3>1. \A x \in payments[o] : x = TRUE \/ x = FALSE
      BY DEF IInv, Shape
    <3>2. TRUE # FALSE
      OBVIOUS
    <3> QED
      BY <2>1, <2>3, <3>1, <3>2, PairSize, Zenon
  <2> QED
    BY <2>1, <2>2, <2>3
<1> QED
  BY <1>1, IInvHolds, PTL DEF Spec, OnlyDoubleAnswersFlip

-----------------------------------------------------------------------------
(* The choreography is an OrderProcess. *)

LEMMA ProcessInit == Init => Process!Init
  BY DEF Init, Stock!Init, Process!Init

\* Until a process dies nothing is answered twice, and nothing decided twice.
LEMMA StockAnswersOnce ==
    ASSUME IInv, NEW o \in Orders, StockAnswers(o)
    PROVE  Process!Next
<1>1. PICK answer \in {"reserved", "notReserved"} :
          /\ step[o] \notin {"none", "sent", "done"}
          /\ answers' = [answers EXCEPT ![o] = @ \union {answer}]
  BY DEF StockAnswers, Stock!SendStockReserved, Stock!PublishStockNotReserved, Stock!Answer
<1>2. UNCHANGED <<order, payments, crashes>>
  BY DEF StockAnswers, paymentVars
<1>3. order[o] # "none"
  BY <1>1 DEF IInv, OrderInv, Untouched
<1>4. crashes = 0 => answers[o] = {} /\ order[o] = "Suspend"
  BY <1>1, <1>3 DEF IInv, Shape, OrderInv, Calm, Caused, OrderStatus
<1>5. crashes' > 0 \/ crashes = 0
  BY <1>2 DEF IInv, Shape
<1>6. Process!AnswerStock(o, answer)
  BY <1>1, <1>2, <1>3, <1>4, <1>5 DEF Process!AnswerStock
<1> QED
  BY <1>2, <1>6 DEF Process!Next, Process!Serve

LEMMA PaymentAnswersOnce ==
    ASSUME IInv, NEW o \in Orders, NEW paid \in BOOLEAN, PaymentConsumes(o, paid)
    PROVE  Process!Next
<1>1. UNCHANGED <<order, answers, crashes>> /\ payments' = [payments EXCEPT ![o] = @ \union {paid}]
  BY DEF PaymentConsumes, stockVars
<1>2. queue["StockReserved"][o] > 0
  BY DEF PaymentConsumes, Take
<1>3. "reserved" \in answers[o]
  BY <1>2 DEF IInv, OrderInv, Caused
<1>4. crashes = 0 => payments[o] = {} /\ order[o] = "Suspend"
  <2>1. Tokens(o) > 0
    BY <1>2, Counts DEF IInv, Tokens
  <2> QED
    BY <1>2, <2>1 DEF IInv, OrderInv, Calm
<1>5. crashes' > 0 \/ crashes = 0
  BY <1>1 DEF IInv, Shape
<1>6. Process!AnswerPayment(o, paid)
  BY <1>1, <1>3, <1>4, <1>5 DEF Process!AnswerPayment
<1> QED
  BY <1>1, <1>6 DEF Process!Next, Process!Serve

LEMMA OrderDecidedOnce ==
    ASSUME IInv, NEW o \in Orders, NEW e \in Events,
           OrderConsumes(o, e) \/ OrderCrashAfterSave(o, e)
    PROVE  Process!Next
<1>1. /\ queue[e][o] > 0 /\ e # "StockReserved"
      /\ order' = [order EXCEPT ![o] = IF e = "PaymentCompleted" THEN "Completed" ELSE "Failed"]
      /\ UNCHANGED <<answers, payments>>
  BY DEF OrderConsumes, OrderCrashAfterSave, Take, NewStatus, stockVars, paymentVars
<1>2. crashes' > 0 \/ crashes = 0
  BY DEF OrderConsumes, OrderCrashAfterSave, Die, IInv, Shape
<1>3. crashes > 0 => crashes' > 0
  BY DEF OrderConsumes, OrderCrashAfterSave, Die, IInv, Shape
<1>4. crashes = 0 => order[o] = "Suspend"
  <2>1. Tokens(o) > 0
    BY <1>1, Counts DEF IInv, Tokens, Events
  <2> QED
    BY <2>1 DEF IInv, OrderInv, Calm
<1>5. CASE e = "PaymentCompleted"
  <2>1. TRUE \in payments[o]
    BY <1>1, <1>5 DEF IInv, OrderInv, Caused
  <2>2. Process!Complete(o)
    BY <1>1, <1>2, <1>4, <1>5, <2>1 DEF Process!Complete
  <2> QED
    BY <1>3, <2>2 DEF Process!Next, Process!Serve
<1>6. CASE e # "PaymentCompleted"
  <2>1. "notReserved" \in answers[o] \/ FALSE \in payments[o]
    BY <1>1, <1>6 DEF IInv, OrderInv, Caused, Events
  <2>2. Process!Fail(o)
    BY <1>1, <1>2, <1>4, <1>6, <2>1 DEF Process!Fail
  <2> QED
    BY <1>3, <2>2 DEF Process!Next, Process!Serve
<1> QED
  BY <1>5, <1>6

\* What the customer and the two answers do not show.
LEMMA ProcessStutters ==
    ASSUME IInv, UNCHANGED <<order, answers, payments>>, crashes' = crashes \/ crashes' = crashes + 1
    PROVE  Process!Next
  BY DEF Process!Next, IInv, Shape

LEMMA ProcessStep == IInv /\ [Next]_vars => [Process!Next]_Process!vars
<1> SUFFICES ASSUME IInv, [Next]_vars PROVE [Process!Next]_Process!vars
  OBVIOUS
<1>1. CASE UNCHANGED vars
  BY <1>1 DEF vars, stockVars, paymentVars, Process!vars
<1>2. ASSUME NEW o \in Orders, CreateOrder(o) PROVE Process!Next
  <2>1. UNCHANGED crashes /\ Process!Place(o)
    BY <1>2 DEF CreateOrder, stockVars, paymentVars, Process!Place
  <2> QED
    BY <2>1 DEF Process!Next, Process!Serve
<1>3. ASSUME NEW o \in Orders,
             \/ PublishOrderCreated(o) \/ StockWorks(o) \/ StockThrows(o) \/ PaymentSkips(o)
             \/ PaymentAcknowledges(o) \/ StockCompensates(o)
             \/ \E paid \in PaymentAnswers : PaymentPublishes(o, paid)
      PROVE  Process!Next
  <2>1. StockWorks(o) => UNCHANGED <<order, answers, payments, crashes>>
    BY StockWorksEffect DEF IInv, paymentVars
  <2>2. UNCHANGED <<order, answers, payments, crashes>>
    BY <1>3, <2>1
    DEF PublishOrderCreated, Stock!Arrive, StockThrows, Stock!Acknowledge, PaymentSkips,
        PaymentAcknowledges, StockCompensates, PaymentPublishes, stockVars, paymentVars
  <2> QED
    BY <2>2, ProcessStutters
<1>4. ASSUME OrderCrash \/ StockCrash \/ PaymentCrash PROVE Process!Next
  <2>1. UNCHANGED <<order, answers, payments>> /\ crashes' = crashes + 1
    BY <1>4 DEF OrderCrash, StockCrash, Stock!Crash, PaymentCrash, Die, stockVars, paymentVars
  <2> QED
    BY <2>1, ProcessStutters
<1>5. CASE Next
  BY <1>2, <1>3, <1>4, <1>5, StockAnswersOnce, PaymentAnswersOnce, OrderDecidedOnce,
     PaymentAnswersAssumption
  DEF Next, Proceed
<1> QED
  BY <1>1, <1>5

\* The customer of the choreography sees an order process: until a process dies, each
\* side answers once and the outcome is final; after that, no outcome is written that
\* no answer stands for.
THEOREM ChoreographyIsOrderProcess == Spec => ImplementsOrderProcess
  BY ProcessInit, ProcessStep, IInvHolds, PTL DEF Spec, ImplementsOrderProcess, Process!Spec

-----------------------------------------------------------------------------
(* Types.  Those of Stock.API are a theorem of StockReservationProofs, whose *)
(* steps are the ones Stock.API takes here, but for a message skipped.       *)

Consumer == INSTANCE StockReservationProofs WITH lost <- {}, contended <- {}, interrupted <- {}

LEMMA ConsumerTypes ==
    ASSUME Consumer!TypeInv
    PROVE  /\ [Consumer!Next \/ Consumer!Crash]_(Consumer!vars) => Consumer!TypeInv'
           /\ Stock!TypeOK
  BY Consumer!TypeStep, StockAssumption
  DEF Consumer!OrderItem, Stock!OrderItem, Consumer!Ints, Stock!Ints,
      Consumer!IsFiniteSet, IsFiniteSet, Consumer!TypeInv, Consumer!TypeOK, Stock!TypeOK, Consumer!Steps, Stock!Steps,
      Consumer!Answers, Stock!Answers, Consumer!LoopOver, Stock!LoopOver

LEMMA ConsumerInit == Stock!Init => Consumer!TypeInv
<1>1. Stock!Init => Consumer!Init
  BY DEF Stock!Init, Consumer!Init
<1>2. Consumer!Init => Consumer!TypeInv
  BY Consumer!TypeInit, StockAssumption
  DEF Consumer!OrderItem, Stock!OrderItem, Consumer!Ints, Stock!Ints,
      Consumer!IsFiniteSet, IsFiniteSet
<1> QED
  BY <1>1, <1>2

\* The consumer is the same module in both.
LEMMA ConsumerStep ==
    ASSUME Consumer!TypeInv,
           (\E o \in Orders : Stock!Step(o)) \/ Stock!Crash \/ UNCHANGED stockVars
    PROVE  Consumer!TypeInv'
<1>1. ASSUME NEW o \in Orders, Stock!Step(o)
      PROVE  Consumer!Step(o)
  BY <1>1
  DEF Stock!Step, Consumer!Step, Stock!Consume, Consumer!Consume, Stock!Arrive,
      Consumer!Arrive, Stock!Deliver, Consumer!Deliver, Stock!CheckItem,
      Consumer!CheckItem, Stock!Decide, Consumer!Decide, Stock!ReadItem,
      Consumer!ReadItem, Stock!ReplaceItem, Consumer!ReplaceItem, Stock!Answer,
      Consumer!Answer, Stock!SendStockReserved, Consumer!SendStockReserved,
      Stock!PublishStockNotReserved, Consumer!PublishStockNotReserved,
      Stock!Acknowledge, Consumer!Acknowledge, Stock!Active, Consumer!Active,
      Stock!LoopOver, Consumer!LoopOver, Stock!Item, Consumer!Item, Stock!InStock,
      Consumer!InStock, Stock!Wrap, Consumer!Wrap, Stock!Cardinality,
      Consumer!Cardinality
<1>2. Stock!Crash => Consumer!Crash
  BY DEF Stock!Crash, Consumer!Crash, Stock!Active, Consumer!Active
<1>3. UNCHANGED stockVars => UNCHANGED Consumer!vars
  BY DEF stockVars, Consumer!vars
<1> QED
  BY <1>1, <1>2, <1>3, ConsumerTypes DEF Consumer!Next

SagaTypes ==
    /\ Shape /\ Consumer!TypeInv
    /\ version \in Versions
    /\ paymentQueue \in PaymentQueues
    /\ crashes \in 0 .. MaxCrashes

\* PaymentSkips takes back what is queued, and nothing else.
LEMMA SkipTypes ==
    ASSUME Consumer!TypeInv, NEW o \in Orders, PaymentSkips(o)
    PROVE  Consumer!TypeInv'
  BY DEF PaymentSkips, Consumer!TypeInv, Consumer!TypeOK, Consumer!DocumentsExist,
         Consumer!Steps, Consumer!LoopOver

LEMMA SagaTypesInit == Init => Consumer!TypeInv /\ version \in Versions
                                 /\ paymentQueue \in PaymentQueues /\ crashes \in 0 .. MaxCrashes
  BY ConsumerInit, MaxCrashesAssumption DEF Init

LEMMA SagaTypesStep == IInv' /\ SagaTypes /\ [Next]_vars => SagaTypes'
<1> SUFFICES ASSUME IInv', SagaTypes, [Next]_vars PROVE SagaTypes'
  OBVIOUS
<1>1. /\ UNCHANGED <<version, paymentQueue>>
      /\ crashes' = crashes \/ Die
  BY DEF Next, Proceed, CreateOrder, PublishOrderCreated, StockWorks, StockAnswers, StockThrows,
         PaymentSkips, PaymentConsumes, PaymentPublishes, PaymentAcknowledges, OrderConsumes,
         StockCompensates, OrderCrashAfterSave, OrderCrash, StockCrash, PaymentCrash,
         paymentVars, vars
<1>2. crashes' \in 0 .. MaxCrashes
  BY <1>1, MaxCrashesAssumption DEF SagaTypes, Die
<1>3. \/ \E o \in Orders : Stock!Step(o)
      \/ Stock!Crash
      \/ UNCHANGED stockVars
      \/ \E o \in Orders : PaymentSkips(o)
  BY DEF Next, Proceed, CreateOrder, PublishOrderCreated, StockWorks, StockAnswers, StockThrows,
         PaymentConsumes, PaymentPublishes, PaymentAcknowledges, OrderConsumes,
         StockCompensates, OrderCrashAfterSave, OrderCrash, StockCrash, PaymentCrash,
         vars, Stock!Step, Stock!Consume
<1>4. Consumer!TypeInv'
  BY <1>3, ConsumerStep, SkipTypes DEF SagaTypes
<1> QED
  BY <1>1, <1>2, <1>4 DEF SagaTypes, IInv

\* Every variable has its type, those of the consumer included, in either version, on
\* either queue and whatever process dies.
THEOREM TypeCorrect == Spec => []TypeOK
<1>1. SagaTypes => TypeOK
  BY ConsumerTypes DEF SagaTypes, Shape, TypeOK
<1>2. Init => SagaTypes
  BY InvInit, SagaTypesInit DEF SagaTypes, IInv
<1> QED
  BY <1>1, <1>2, SagaTypesStep, IInvHolds, PTL DEF Spec

=============================================================================
