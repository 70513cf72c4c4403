----------------------- MODULE OrchestrationSagaProofs -----------------------
(***************************************************************************)
(* For any orders and any number of crashes: the state machine gives an     *)
(* order no status that no answer stands for, draws a second instance only  *)
(* after a crash, and overturns a status only by two instances or two       *)
(* answers.  What the consumer of Stock.API does to the counts is           *)
(* StockReservationProofs; here only its steps and its answers matter.      *)
(***************************************************************************)
EXTENDS OrchestrationSaga, FiniteSetTheorems, TLAPS

-----------------------------------------------------------------------------
(* Every message stands for an answer that was given. *)

Shape ==
    /\ step \in [Instances -> Stock!Steps]
    /\ answers \in [Instances -> SUBSET Stock!Answers]
    /\ order \in [Orders -> OrderStatus]
    /\ posting \subseteq Orders
    /\ saga \in [Instances -> States]
    /\ queue \in [Messages -> Nat]
    /\ payments \in [Instances -> SUBSET BOOLEAN]
    /\ crashes \in 0 .. MaxCrashes

\* An instance of the order was served, or was refused one of the two.
Paid(o) == \E i \in InstancesOf(o) : "reserved" \in answers[i] /\ TRUE \in payments[i]

Refused(o) == \E i \in InstancesOf(o) : "notReserved" \in answers[i] \/ FALSE \in payments[i]

Cause(m) ==
    /\ m.event \in {"StockReserved", "PaymentStarted"} => "reserved" \in answers[m.of]
    /\ m.event = "StockNotReserved" => "notReserved" \in answers[m.of]
    /\ m.event = "PaymentCompleted" => TRUE \in payments[m.of]
    /\ m.event = "PaymentFailed" => FALSE \in payments[m.of]
    /\ m.event = "OrderCompleted" => Paid(m.of)
    /\ m.event = "OrderFailed" => Refused(m.of)

MessagesCaused == \A m \in Messages : queue[m] > 0 => Cause(m)

SagasCaused ==
    \A i \in Instances :
        saga[i] = "StockReserved" \/ payments[i] # {} => "reserved" \in answers[i]

UnbornUnserved ==
    \A i \in Instances : saga[i] = "unborn" => step[i] = "none" /\ answers[i] = {}

CauseInv == Shape /\ MessagesCaused /\ SagasCaused /\ UnbornUnserved /\ StatusIsJustified

\* Answers are given, never taken back.
Grows ==
    \A i \in Instances : answers[i] \subseteq answers'[i] /\ payments[i] \subseteq payments'[i]

LEMMA CausesStay ==
    ASSUME Grows
    PROVE  /\ \A o \in Orders : (Paid(o) => Paid(o)') /\ (Refused(o) => Refused(o)')
           /\ \A m \in Messages : Cause(m) => Cause(m)'
<1>1. \A o \in Orders : (Paid(o) => Paid(o)') /\ (Refused(o) => Refused(o)')
  BY DEF Paid, Refused, Grows, InstancesOf
<1>2. ASSUME NEW m \in Messages, Cause(m) PROVE Cause(m)'
  <2>1. CASE m.event \in OrderEvents
    <3>1. m.of \in Orders
      BY <2>1 DEF Messages, OrderEvents, InstanceEvents, SagaEvents
    <3> QED
      BY <1>1, <1>2, <2>1, <3>1 DEF Cause, OrderEvents
  <2>2. CASE m.event \in InstanceEvents
    <3>1. m.of \in Instances
      BY <2>2 DEF Messages, OrderEvents, InstanceEvents, SagaEvents
    <3> QED
      BY <1>2, <2>2, <3>1 DEF Cause, InstanceEvents, SagaEvents, Grows
  <2> QED
    BY <2>1, <2>2 DEF Messages
<1> QED
  BY <1>1, <1>2

LEMMA Exchanged ==
    ASSUME Shape, NEW out, NEW in, Exchange(out, in)
    PROVE  /\ queue' \in [Messages -> Nat]
           /\ \A m \in Messages : queue'[m] > 0 => queue[m] > 0 \/ m \in in
           /\ \A m \in Messages \ (out \union in) : queue'[m] = queue[m]
<1>1. ASSUME NEW m \in Messages
      PROVE  queue[m] + (IF m \in in THEN 1 ELSE 0) - (IF m \in out THEN 1 ELSE 0) \in Nat
  <2>1. queue[m] \in Nat /\ (m \in out => queue[m] > 0)
    BY DEF Shape, Exchange
  <2> QED
    BY <2>1
<1>2. queue' = [m \in Messages |->
                  queue[m] + (IF m \in in THEN 1 ELSE 0) - (IF m \in out THEN 1 ELSE 0)]
  BY DEF Exchange
<1>3. queue' \in [Messages -> Nat]
  BY <1>1, <1>2
<1>4. ASSUME NEW m \in Messages
      PROVE  /\ queue'[m] > 0 => queue[m] > 0 \/ m \in in
             /\ m \notin out \union in => queue'[m] = queue[m]
  <2>1. queue[m] \in Nat
    BY DEF Shape
  <2>2. queue'[m] = queue[m] + (IF m \in in THEN 1 ELSE 0) - (IF m \in out THEN 1 ELSE 0)
    BY <1>2
  <2> QED
    BY <2>1, <2>2
<1> QED
  BY <1>3, <1>4

\* What is sent stands for an answer.
LEMMA CausedBySends ==
    ASSUME Shape, MessagesCaused, Grows, NEW out, NEW in, Exchange(out, in),
           \A m \in in : Cause(m)'
    PROVE  MessagesCaused'
  BY Exchanged, CausesStay DEF MessagesCaused

\* What a step must show to keep the invariant.
LEMMA CauseKept ==
    ASSUME CauseInv, Shape', Grows, MessagesCaused',
           \A i \in Instances :
              /\ saga'[i] = "StockReserved" \/ payments'[i] # {} =>
                    \/ saga[i] = "StockReserved" \/ payments[i] # {}
                    \/ "reserved" \in answers'[i]
              /\ saga'[i] = "unborn" =>
                    saga[i] = "unborn" /\ step'[i] = step[i] /\ answers'[i] = answers[i],
           \A o \in Orders :
              /\ order'[o] = "Completed" => order[o] = "Completed" \/ Paid(o)'
              /\ order'[o] = "Failed" => order[o] = "Failed" \/ Refused(o)'
    PROVE  CauseInv'
<1>1. SagasCaused'
  BY DEF CauseInv, SagasCaused, Grows
<1>2. UnbornUnserved'
  BY DEF CauseInv, UnbornUnserved
<1>3. StatusIsJustified <=>
          \A o \in Orders : /\ order[o] = "Completed" => Paid(o)
                            /\ order[o] = "Failed" => Refused(o)
  BY DEF StatusIsJustified, Paid, Refused
<1>4. StatusIsJustified' <=>
          \A o \in Orders : /\ order'[o] = "Completed" => Paid(o)'
                            /\ order'[o] = "Failed" => Refused(o)'
  BY DEF StatusIsJustified, Paid, Refused
<1>5. StatusIsJustified'
  BY <1>3, <1>4, CausesStay DEF CauseInv
<1> QED
  BY <1>1, <1>2, <1>5 DEF CauseInv

LEMMA CauseInit == Init => CauseInv
<1> SUFFICES ASSUME Init PROVE CauseInv
  OBVIOUS
<1> USE DEF Init, Stock!Init
<1>1. Shape
  BY MaxCrashesAssumption DEF Shape, Stock!Steps, Stock!Answers, OrderStatus, States
<1>2. MessagesCaused
  BY DEF MessagesCaused
<1> QED
  BY <1>1, <1>2 DEF CauseInv, SagasCaused, UnbornUnserved, StatusIsJustified

-----------------------------------------------------------------------------
(* The actions, one by one. *)

LEMMA MessageFacts ==
    /\ \A o \in Orders, e \in OrderEvents : Message(e, o) \in Messages
    /\ \A i \in Instances, e \in InstanceEvents : Message(e, i) \in Messages
    /\ \A e, x : Message(e, x).event = e /\ Message(e, x).of = x
    /\ SagaEvents \subseteq InstanceEvents
    /\ \A o \in Orders : \A i \in InstancesOf(o) : i \in Instances /\ i[1] = o
    /\ \A i \in Instances : i[1] \in Orders /\ i \in InstancesOf(i[1])
  BY DEF Message, Messages, InstanceEvents, InstancesOf, Instances

LEMMA OrderApiCause ==
    ASSUME CauseInv, NEW o \in Orders,
           CreateOrder(o) \/ SendOrderStarted(o) \/ OrderCrash(o)
    PROVE  CauseInv'
<1>a. UNCHANGED <<step, answers, saga, payments>> /\ Grows
  BY DEF CreateOrder, SendOrderStarted, OrderCrash, stockVars, Grows
<1>1. UNCHANGED queue \/ Exchange({}, {Message("OrderStarted", o)})
  BY DEF CreateOrder, SendOrderStarted, OrderCrash
<1>2. Shape'
  <2>1. queue' \in [Messages -> Nat]
    BY <1>1, Exchanged DEF CauseInv, Shape
  <2>2. order' \in [Orders -> OrderStatus] /\ posting' \subseteq Orders
    BY DEF CreateOrder, SendOrderStarted, OrderCrash, CauseInv, Shape, OrderStatus
  <2>3. crashes' \in 0 .. MaxCrashes
    BY MaxCrashesAssumption DEF CreateOrder, SendOrderStarted, OrderCrash, Die, CauseInv, Shape
  <2> QED
    BY <1>a, <2>1, <2>2, <2>3 DEF CauseInv, Shape
<1>3. MessagesCaused'
  <2>1. Cause(Message("OrderStarted", o))'
    BY DEF Cause, Message
  <2>2. CASE UNCHANGED queue
    BY <1>a, <2>2, CausesStay DEF CauseInv, MessagesCaused
  <2>3. CASE Exchange({}, {Message("OrderStarted", o)})
    BY <1>a, <2>1, <2>3, CausedBySends DEF CauseInv
  <2> QED
    BY <1>1, <2>2, <2>3
<1>4. \A p \in Orders : order'[p] = order[p] \/ order'[p] = "Suspend"
  BY DEF CreateOrder, SendOrderStarted, OrderCrash, CauseInv, Shape
<1> QED
  BY <1>a, <1>2, <1>3, <1>4, CauseKept

LEMMA OrderDecidedCause ==
    ASSUME CauseInv, NEW o \in Orders, NEW e \in OrderEvents,
           OrderConsumes(o, e) \/ OrderUnacked(o, e)
    PROVE  CauseInv'
<1>a. UNCHANGED <<step, answers, saga, payments, posting>> /\ Grows
  BY DEF OrderConsumes, OrderUnacked, stockVars, Grows
<1>1. /\ queue[Message(e, o)] > 0
      /\ UNCHANGED queue \/ Exchange({Message(e, o)}, {})
      /\ e \in {"OrderCompleted", "OrderFailed"}
      /\ order' = [order EXCEPT ![o] = IF e = "OrderCompleted" THEN "Completed" ELSE "Failed"]
  BY DEF OrderConsumes, OrderUnacked, Exchange, NewStatus
<1>2. Shape'
  <2>1. queue' \in [Messages -> Nat]
    BY <1>1, Exchanged DEF CauseInv, Shape
  <2>2. order' \in [Orders -> OrderStatus]
    BY <1>1 DEF CauseInv, Shape, OrderStatus
  <2>3. crashes' \in 0 .. MaxCrashes
    BY MaxCrashesAssumption DEF OrderConsumes, OrderUnacked, Die, CauseInv, Shape
  <2> QED
    BY <1>a, <2>1, <2>2, <2>3 DEF CauseInv, Shape
<1>3. MessagesCaused'
  <2>1. CASE UNCHANGED queue
    BY <1>a, <2>1, CausesStay DEF CauseInv, MessagesCaused
  <2>2. CASE Exchange({Message(e, o)}, {})
    BY <1>a, <2>2, CausedBySends DEF CauseInv
  <2> QED
    BY <1>1, <2>1, <2>2
<1>4. /\ e = "OrderCompleted" => Paid(o)'
      /\ e = "OrderFailed" => Refused(o)'
  <2>1. Cause(Message(e, o))
    BY <1>1, MessageFacts DEF CauseInv, MessagesCaused
  <2>2. /\ e = "OrderCompleted" => Paid(o)
        /\ e = "OrderFailed" => Refused(o)
    BY <2>1, MessageFacts DEF Cause
  <2> QED
    BY <1>a, <2>2, CausesStay
<1>5. \A p \in Orders : /\ p # o => order'[p] = order[p]
                        /\ p = o /\ e = "OrderCompleted" => order'[p] = "Completed"
                        /\ p = o /\ e = "OrderFailed" => order'[p] = "Failed"
  BY <1>1 DEF CauseInv, Shape
<1> QED
  BY <1>a, <1>1, <1>2, <1>3, <1>4, <1>5, CauseKept

LEMMA StartCause ==
    ASSUME CauseInv, NEW o \in Orders, StartInstance(o)
    PROVE  CauseInv'
<1> DEFINE i == NewId(o)
<1> HIDE DEF i
<1>1. /\ saga' = [saga EXCEPT ![i] = "starting"]
      /\ step[i] = "none"
      /\ step' = [step EXCEPT ![i] = "queued"]
      /\ UNCHANGED <<answers, order, posting, payments, crashes>>
      /\ Exchange({Message("OrderStarted", o)}, {})
  BY DEF StartInstance, Stock!Arrive, i
<1>2. Grows
  BY <1>1 DEF Grows
<1>3. Shape'
  <2>1. queue' \in [Messages -> Nat]
    BY <1>1, Exchanged DEF CauseInv, Shape
  <2>2. step' \in [Instances -> Stock!Steps] /\ saga' \in [Instances -> States]
    BY <1>1 DEF CauseInv, Shape, Stock!Steps, States
  <2> QED
    BY <1>1, <2>1, <2>2 DEF CauseInv, Shape
<1>4. MessagesCaused'
  BY <1>1, <1>2, CausedBySends DEF CauseInv
<1>5. \A j \in Instances : /\ saga'[j] = "StockReserved" => saga[j] = "StockReserved"
                           /\ saga'[j] = "unborn" => saga[j] = "unborn" /\ step'[j] = step[j]
  BY <1>1 DEF CauseInv, Shape
<1> QED
  BY <1>1, <1>2, <1>3, <1>4, <1>5, CauseKept

\* How the handler of OrderStartedEvent ends, whether its process survives or not.
StartEnds(i) == InsertInstance(i) \/ StartUnsaved(i) \/ StartUnacked(i)

LEMMA StartEndsFacts ==
    ASSUME NEW i \in Instances, StartEnds(i)
    PROVE  /\ saga[i] = "starting"
           /\ \E state \in {"OrderCreated", "unsaved"} : saga' = [saga EXCEPT ![i] = state]
           /\ UNCHANGED <<stockVars, order, posting, payments, lost, early>>
           /\ \/ UNCHANGED <<queue, crashes>>
              \/ Exchange({}, {Message("OrderStarted", i[1])}) /\ Die
  BY DEF StartEnds, InsertInstance, StartUnsaved, StartUnacked, StartCutShort

LEMMA StartEndsCause ==
    ASSUME CauseInv, NEW i \in Instances, StartEnds(i)
    PROVE  CauseInv'
<1>1. /\ \E state \in {"OrderCreated", "unsaved"} : saga' = [saga EXCEPT ![i] = state]
      /\ UNCHANGED <<step, answers, order, posting, payments>>
      /\ UNCHANGED queue \/ Exchange({}, {Message("OrderStarted", i[1])})
      /\ crashes' = crashes \/ Die
  BY StartEndsFacts DEF stockVars
<1>2. Grows
  BY <1>1 DEF Grows
<1>3. Shape'
  <2>1. queue' \in [Messages -> Nat]
    BY <1>1, Exchanged DEF CauseInv, Shape
  <2>2. saga' \in [Instances -> States]
    BY <1>1 DEF CauseInv, Shape, States
  <2>3. crashes' \in 0 .. MaxCrashes
    BY <1>1, MaxCrashesAssumption DEF Die, CauseInv, Shape
  <2> QED
    BY <1>1, <2>1, <2>2, <2>3 DEF CauseInv, Shape
<1>4. MessagesCaused'
  <2>1. CASE UNCHANGED queue
    BY <1>2, <2>1, CausesStay DEF CauseInv, MessagesCaused
  <2>2. CASE Exchange({}, {Message("OrderStarted", i[1])})
    <3>1. Cause(Message("OrderStarted", i[1]))'
      BY DEF Cause, Message
    <3> QED
      BY <1>2, <2>2, <3>1, CausedBySends DEF CauseInv
  <2> QED
    BY <1>1, <2>1, <2>2
<1>5. \A j \in Instances : /\ saga'[j] = "StockReserved" => saga[j] = "StockReserved"
                           /\ saga'[j] = "unborn" => saga[j] = "unborn"
  BY <1>1 DEF CauseInv, Shape
<1> QED
  BY <1>1, <1>2, <1>3, <1>4, <1>5, CauseKept

\* A message that is only taken out: refused by the state machine, or of no effect.
LEMMA RefusedCause ==
    ASSUME CauseInv,
           \/ \E o \in Orders : StartRefused(o)
           \/ \E i \in Instances : StockRollsBack(i) \/ \E e \in SagaEvents : ReactRefused(i, e)
    PROVE  CauseInv'
<1>1. /\ UNCHANGED <<step, answers, order, posting, saga, payments, crashes>>
      /\ \E m \in Messages : Exchange({m}, {})
  BY MessageFacts
  DEF StartRefused, StockRollsBack, ReactRefused, stockVars, OrderEvents, InstanceEvents
<1>2. Grows
  BY <1>1 DEF Grows
<1>3. Shape' /\ MessagesCaused'
  BY <1>1, <1>2, Exchanged, CausedBySends DEF CauseInv, Shape
<1> QED
  BY <1>1, <1>2, <1>3, CauseKept

\* Everything a transition sends stands for the answer it reacts to.
LEMMA SentByTransition ==
    ASSUME CauseInv, NEW i \in Instances, NEW e \in SagaEvents, Accepts(i, e),
           queue[Message(e, i)] > 0, NEW n \in 1 .. Len(Sends(i, e)), NEW m \in FirstSends(i, e, n)
    PROVE  Cause(m)
<1>1. Cause(Message(e, i))
  BY MessageFacts DEF CauseInv, MessagesCaused
<1>2. i[1] \in Orders /\ i \in InstancesOf(i[1])
  BY MessageFacts
<1>3. PICK k \in 1 .. n : m = Sends(i, e)[k]
  BY DEF FirstSends
<1>4. CASE e = "StockReserved"
  <2>1. m = Message("PaymentStarted", i)
    BY <1>3, <1>4 DEF Sends
  <2>2. "reserved" \in answers[i]
    BY <1>1, <1>4, MessageFacts DEF Cause
  <2>3. m.event = "PaymentStarted" /\ m.of = i
    BY <2>1, MessageFacts
  <2> QED
    BY <2>2, <2>3 DEF Cause
<1>5. CASE e = "StockNotReserved"
  <2>1. m = Message("OrderFailed", i[1])
    BY <1>3, <1>5 DEF Sends
  <2>2. "notReserved" \in answers[i]
    BY <1>1, <1>5, MessageFacts DEF Cause
  <2>3. Refused(i[1])
    BY <1>2, <2>2 DEF Refused
  <2>4. m.event = "OrderFailed" /\ m.of = i[1]
    BY <2>1, MessageFacts
  <2> QED
    BY <2>3, <2>4 DEF Cause
<1>6. CASE e = "PaymentCompleted"
  <2>1. m = Message("OrderCompleted", i[1])
    BY <1>3, <1>6 DEF Sends
  <2>2. "reserved" \in answers[i]
    BY <1>6 DEF Accepts, CauseInv, SagasCaused
  <2>3. TRUE \in payments[i]
    BY <1>1, <1>6, MessageFacts DEF Cause
  <2>4. Paid(i[1])
    BY <1>2, <2>2, <2>3 DEF Paid
  <2>5. m.event = "OrderCompleted" /\ m.of = i[1]
    BY <2>1, MessageFacts
  <2> QED
    BY <2>4, <2>5 DEF Cause
<1>7. CASE e = "PaymentFailed"
  <2>1. m \in {Message("OrderFailed", i[1]), Message("StockRollBack", i)}
    BY <1>3, <1>7 DEF Sends
  <2>2. FALSE \in payments[i]
    BY <1>1, <1>7, MessageFacts DEF Cause
  <2>3. Refused(i[1])
    BY <1>2, <2>2 DEF Refused
  <2>4. /\ m.event \in {"OrderFailed", "StockRollBack"}
        /\ m.event = "OrderFailed" => m.of = i[1]
    BY <2>1, MessageFacts
  <2> QED
    BY <2>3, <2>4 DEF Cause
<1> QED
  BY <1>4, <1>5, <1>6, <1>7 DEF SagaEvents

LEMMA ReactCause ==
    ASSUME CauseInv, NEW i \in Instances, NEW e \in SagaEvents,
           React(i, e) \/ ReactUnsaved(i, e) \/ ReactUnacked(i, e)
    PROVE  CauseInv'
<1>1. /\ Accepts(i, e)
      /\ queue[Message(e, i)] > 0
      /\ UNCHANGED <<step, answers, order, posting, payments>>
      /\ saga' = saga \/ saga' = [saga EXCEPT ![i] = NextState[e]]
  BY DEF React, ReactUnsaved, ReactUnacked, Exchange, stockVars
<1>2. PICK out \in {{Message(e, i)}, {}}, n \in 1 .. Len(Sends(i, e)) :
          Exchange(out, FirstSends(i, e, n))
  <2>1. Len(Sends(i, e)) \in 1 .. Len(Sends(i, e))
    BY DEF Sends, SagaEvents
  <2> QED
    BY <2>1 DEF React, ReactUnsaved, ReactUnacked
<1>3. Grows
  BY <1>1 DEF Grows
<1>4. NextState[e] \in States \ {"unborn"} /\ (NextState[e] = "StockReserved" => e = "StockReserved")
  BY DEF NextState, SagaEvents, States
<1>5. Shape'
  <2>1. queue' \in [Messages -> Nat]
    BY <1>2, Exchanged DEF CauseInv
  <2>2. saga' \in [Instances -> States]
    BY <1>1, <1>4 DEF CauseInv, Shape
  <2>3. crashes' \in 0 .. MaxCrashes
    BY MaxCrashesAssumption DEF React, ReactUnsaved, ReactUnacked, Die, CauseInv, Shape
  <2> QED
    BY <1>1, <2>1, <2>2, <2>3 DEF CauseInv, Shape
<1>6. \A m \in FirstSends(i, e, n) : Cause(m)
  BY <1>1, <1>2, SentByTransition
<1>7. MessagesCaused'
  <2>1. \A m \in FirstSends(i, e, n) : Cause(m)'
    BY <1>1, <1>6 DEF Cause, Paid, Refused
  <2> QED
    BY <1>2, <1>3, <2>1, CausedBySends DEF CauseInv
<1>8. e = "StockReserved" => "reserved" \in answers[i]
  <2>1. Cause(Message(e, i))
    BY <1>1, MessageFacts DEF CauseInv, MessagesCaused
  <2> QED
    BY <2>1, MessageFacts DEF Cause
<1>9. \A j \in Instances :
          /\ saga'[j] = "StockReserved" => saga[j] = "StockReserved" \/ "reserved" \in answers[j]
          /\ saga'[j] = "unborn" => saga[j] = "unborn"
  BY <1>1, <1>4, <1>8 DEF CauseInv, Shape
<1> QED
  BY <1>1, <1>3, <1>5, <1>7, <1>9, CauseKept

\* A step of the consumer that sends nothing.
LEMMA StockWorksCause ==
    ASSUME CauseInv, NEW i \in Instances, StockWorks(i)
    PROVE  CauseInv'
<1>1. PICK s \in Stock!Steps :
          /\ step[i] # "none"
          /\ step' = [step EXCEPT ![i] = s] \/ step' = step
          /\ UNCHANGED <<answers, order, posting, saga, queue, payments, crashes>>
  <2>1. UNCHANGED <<answers, order, posting, saga, queue, payments, crashes>>
    BY DEF StockWorks, Stock!Deliver, Stock!CheckItem, Stock!Decide, Stock!ReadItem,
           Stock!ReplaceItem, Stock!Acknowledge
  <2>2. step[i] # "none"
    BY DEF StockWorks, Stock!Deliver, Stock!CheckItem, Stock!Decide, Stock!ReadItem,
           Stock!ReplaceItem, Stock!Acknowledge
  <2>3. /\ Stock!Deliver(i) => step' = [step EXCEPT ![i] = "check"]
        /\ Stock!CheckItem(i) => step' = step
        /\ Stock!ReadItem(i) => step' = [step EXCEPT ![i] = "replace"]
        /\ Stock!ReplaceItem(i) => step' = [step EXCEPT ![i] = "reserve"]
        /\ Stock!Acknowledge(i) => step' = [step EXCEPT ![i] = "done"]
    BY DEF Stock!Deliver, Stock!CheckItem, Stock!ReadItem, Stock!ReplaceItem, Stock!Acknowledge
  <2>4. Stock!Decide(i) => \/ step' = [step EXCEPT ![i] = "reserve"]
                           \/ step' = [step EXCEPT ![i] = "refuse"]
    BY DEF Stock!Decide
  <2> QED
    BY <2>1, <2>2, <2>3, <2>4 DEF StockWorks, Stock!Steps
<1>2. Grows /\ Shape'
  BY <1>1 DEF Grows, CauseInv, Shape
<1>3. MessagesCaused'
  BY <1>1, <1>2, CausesStay DEF CauseInv, MessagesCaused
<1>4. \A j \in Instances : saga'[j] = "unborn" => step'[j] = step[j]
  BY <1>1 DEF CauseInv, Shape, UnbornUnserved
<1> QED
  BY <1>1, <1>2, <1>3, <1>4, CauseKept

\* The consumer answers, and its message says what it answered.
LEMMA StockAnswersCause ==
    ASSUME CauseInv, NEW i \in Instances, StockAnswers(i)
    PROVE  CauseInv'
<1>1. PICK a \in Stock!Answers, e \in {"StockReserved", "StockNotReserved"} :
          /\ e = (IF a = "reserved" THEN "StockReserved" ELSE "StockNotReserved")
          /\ step[i] # "none"
          /\ Stock!Answer(i, a)
          /\ Exchange({}, {Message(e, i)})
          /\ UNCHANGED <<order, posting, saga, payments, crashes>>
  BY DEF StockAnswers, Stock!SendStockReserved, Stock!PublishStockNotReserved, Stock!Answers
<1>2. /\ step' = [step EXCEPT ![i] = "sent"]
      /\ answers' = [answers EXCEPT ![i] = @ \union {a}]
  BY <1>1 DEF Stock!Answer
<1>3. /\ a \in answers'[i] /\ Grows
      /\ \A j \in Instances \ {i} : answers'[j] = answers[j] /\ step'[j] = step[j]
  BY <1>1, <1>2 DEF Grows, CauseInv, Shape
<1>4. Shape'
  BY <1>1, <1>2, Exchanged DEF CauseInv, Shape, Stock!Steps
<1>5. MessagesCaused'
  <2>1. Message(e, i).event = e /\ Message(e, i).of = i
    BY DEF Message
  <2>2. Cause(Message(e, i))'
    BY <1>1, <1>3, <2>1 DEF Cause, Stock!Answers
  <2> QED
    BY <1>1, <1>3, <2>2, CausedBySends DEF CauseInv
<1>6. saga[i] # "unborn"
  BY <1>1 DEF CauseInv, UnbornUnserved
<1> QED
  BY <1>1, <1>3, <1>4, <1>5, <1>6, CauseKept

LEMMA StockCrashCause ==
    ASSUME CauseInv, StockCrash
    PROVE  CauseInv'
<1>1. /\ UNCHANGED <<answers, order, posting, saga, queue, payments>>
      /\ step' = [i \in Instances |-> IF Stock!Active(i) THEN "queued" ELSE step[i]]
  BY DEF StockCrash, Stock!Crash
<1>2. \A i \in Instances : step[i] = "none" => step'[i] = step[i]
  BY <1>1 DEF Stock!Active
<1>3. crashes' \in 0 .. MaxCrashes
  BY MaxCrashesAssumption DEF StockCrash, Die, CauseInv, Shape
<1>4. Shape' /\ Grows
  BY <1>1, <1>3 DEF CauseInv, Shape, Grows, Stock!Steps
<1>5. MessagesCaused'
  BY <1>1, <1>4, CausesStay DEF CauseInv, MessagesCaused
<1> QED
  BY <1>1, <1>2, <1>4, <1>5, CauseKept DEF CauseInv, UnbornUnserved

\* Payment.API answers an instance whose stock is reserved.
LEMMA PaymentCause ==
    ASSUME CauseInv, NEW i \in Instances, NEW paid \in PaymentAnswers,
           PaymentConsumes(i, paid) \/ PaymentUnacked(i, paid)
    PROVE  CauseInv'
<1> DEFINE m == Message("PaymentStarted", i)
           a == Message(PaymentEvent(paid), i)
<1>1. /\ UNCHANGED <<step, answers, order, posting, saga>>
      /\ payments' = [payments EXCEPT ![i] = @ \union {paid}]
      /\ queue[m] > 0
      /\ Exchange({m}, {a}) \/ Exchange({}, {a})
  BY DEF PaymentConsumes, PaymentUnacked, Pay, Exchange, stockVars
<1>2. paid \in BOOLEAN
  BY PaymentAnswersAssumption
<1>3. payments' \in [Instances -> SUBSET BOOLEAN]
  BY <1>1, <1>2 DEF CauseInv, Shape
<1>4. /\ paid \in payments'[i]
      /\ \A j \in Instances : payments[j] \subseteq payments'[j]
      /\ \A j \in Instances \ {i} : payments'[j] = payments[j]
  BY <1>1, <1>2 DEF CauseInv, Shape
<1>5. Grows
  BY <1>1, <1>4 DEF Grows
<1>6. crashes' \in 0 .. MaxCrashes
  BY MaxCrashesAssumption DEF PaymentConsumes, PaymentUnacked, Die, CauseInv, Shape
<1>7. queue' \in [Messages -> Nat]
  BY <1>1, Exchanged DEF CauseInv
<1>8. Shape'
  BY <1>1, <1>3, <1>6, <1>7 DEF CauseInv, Shape
<1>9. MessagesCaused'
  <2>1. /\ paid => a.event = "PaymentCompleted"
        /\ ~paid => a.event = "PaymentFailed"
        /\ a.of = i
    BY <1>2, MessageFacts DEF PaymentEvent
  <2>2. Cause(a)'
    <3>1. CASE paid
      <4>1. TRUE \in payments'[i]
        BY <1>2, <1>4, <3>1
      <4> QED
        BY <2>1, <3>1, <4>1 DEF Cause
    <3>2. CASE ~paid
      <4>1. FALSE \in payments'[i]
        BY <1>2, <1>4, <3>2
      <4> QED
        BY <2>1, <3>2, <4>1 DEF Cause
    <3> QED
      BY <3>1, <3>2
  <2> QED
    BY <1>1, <1>5, <2>2, CausedBySends DEF CauseInv
<1>10. "reserved" \in answers[i]
  <2>1. Cause(m)
    BY <1>1, MessageFacts DEF CauseInv, MessagesCaused, InstanceEvents
  <2> QED
    BY <2>1, MessageFacts DEF Cause
<1>11. \A j \in Instances :
          payments'[j] # {} => payments[j] # {} \/ "reserved" \in answers'[j]
  BY <1>1, <1>4, <1>10
<1> QED
  BY <1>1, <1>5, <1>8, <1>9, <1>11, CauseKept

LEMMA CauseStep == CauseInv /\ [Next]_vars => CauseInv'
<1> SUFFICES ASSUME CauseInv, [Next]_vars PROVE CauseInv'
  OBVIOUS
<1>1. ASSUME NEW o \in Orders, CreateOrder(o) \/ Proceed(o) \/ Interrupt(o)
      PROVE  CauseInv'
  <2>1. CASE CreateOrder(o) \/ SendOrderStarted(o) \/ OrderCrash(o)
    BY <2>1, OrderApiCause
  <2>2. CASE \E e \in OrderEvents : OrderConsumes(o, e) \/ OrderUnacked(o, e)
    BY <2>2, OrderDecidedCause
  <2>3. CASE StartInstance(o)
    BY <2>3, StartCause
  <2>4. CASE StartRefused(o)
    BY <2>4, RefusedCause
  <2>5. ASSUME NEW i \in InstancesOf(o),
               \/ StartEnds(i)
               \/ \E e \in SagaEvents : \/ React(i, e) \/ ReactRefused(i, e)
                                        \/ ReactUnsaved(i, e) \/ ReactUnacked(i, e)
               \/ StockWorks(i) \/ StockAnswers(i) \/ StockRollsBack(i)
               \/ \E paid \in PaymentAnswers : PaymentConsumes(i, paid) \/ PaymentUnacked(i, paid)
        PROVE  CauseInv'
    <3>1. i \in Instances
      BY MessageFacts
    <3> QED
      BY <2>5, <3>1, StartEndsCause, ReactCause, RefusedCause, StockWorksCause, StockAnswersCause, PaymentCause
  <2> QED
    BY <1>1, <2>1, <2>2, <2>3, <2>4, <2>5 DEF Proceed, Interrupt, StartEnds
<1>2. ASSUME UNCHANGED vars PROVE CauseInv'
  BY <1>2 DEF vars, stockVars, CauseInv, Shape, MessagesCaused, Cause, Paid, Refused,
              SagasCaused, UnbornUnserved, StatusIsJustified
<1> QED
  BY <1>1, <1>2, StockCrashCause DEF Next

LEMMA CauseInvHolds == Spec => []CauseInv
  BY CauseInit, CauseStep, PTL DEF Spec

\* OrderCompletedEvent and OrderFailedEvent consumers write a status only for an
\* instance of the order that was answered so, for any orders and any crashes.
THEOREM StatusesAreJustified == Spec => []StatusIsJustified
<1>1. CauseInv => StatusIsJustified
  BY DEF CauseInv
<1> QED
  BY <1>1, CauseInvHolds, PTL

-----------------------------------------------------------------------------
(* An instance is drawn for each OrderStartedEvent and for each crash in its *)
(* handler.                                                                 *)

Asked(o) == queue[Message("OrderStarted", o)]

Posting(o) == IF o \in posting THEN 1 ELSE 0

DrawnInv(o) ==
    /\ Cardinality(Drawn(o)) + Asked(o) + Posting(o) <= 1 + crashes
    /\ order[o] = "none" => Drawn(o) = {} /\ Asked(o) = 0 /\ Posting(o) = 0

LEMMA DrawnFinite ==
    ASSUME NEW o \in Orders
    PROVE  IsFiniteSet(Drawn(o)) /\ Cardinality(Drawn(o)) \in Nat
<1>1. IsFiniteSet({o}) /\ IsFiniteSet(1 .. MaxCrashes + 1)
  <2>1. 1 \in Int /\ MaxCrashes + 1 \in Int
    BY MaxCrashesAssumption
  <2> QED
    BY <2>1, FS_Singleton, FS_Interval
<1>2. IsFiniteSet({o} \X (1 .. MaxCrashes + 1))
  BY <1>1, FS_Product
<1>3. Drawn(o) \subseteq {o} \X (1 .. MaxCrashes + 1)
  BY DEF Drawn, InstancesOf, Instances
<1> QED
  BY <1>2, <1>3, FS_Subset, FS_CardinalityType

LEMMA DrawnTypes ==
    ASSUME Shape, NEW o \in Orders
    PROVE  Asked(o) \in Nat /\ Posting(o) \in 0 .. 1 /\ crashes \in Nat
  BY MessageFacts, MaxCrashesAssumption DEF Asked, Posting, Shape, OrderEvents

\* What a step must show that draws nothing for the order and asks for nothing.
LEMMA DrawnKept ==
    ASSUME Shape, Shape', NEW o \in Orders, DrawnInv(o), Drawn(o)' \subseteq Drawn(o),
           Asked(o)' + Posting(o)' <= Asked(o) + Posting(o), crashes' >= crashes,
           order'[o] = "none" => order[o] = "none"
    PROVE  DrawnInv(o)'
<1>1. Cardinality(Drawn(o)') <= Cardinality(Drawn(o)) /\ Cardinality(Drawn(o)') \in Nat
  BY DrawnFinite, FS_Subset, FS_CardinalityType
<1>2. /\ Asked(o) \in Nat /\ Posting(o) \in 0 .. 1 /\ crashes \in Nat
      /\ Asked(o)' \in Nat /\ Posting(o)' \in 0 .. 1 /\ crashes' \in Nat
  <2>1. Message("OrderStarted", o) \in Messages
    BY MessageFacts DEF OrderEvents
  <2> QED
    BY <2>1, DrawnTypes, MaxCrashesAssumption DEF Asked, Posting, Shape
<1>3. Cardinality(Drawn(o)) \in Nat
  BY DrawnFinite
<1>4. Cardinality(Drawn(o)') + Asked(o)' + Posting(o)' <= 1 + crashes'
  BY <1>1, <1>2, <1>3 DEF DrawnInv
<1>5. order'[o] = "none" => Drawn(o)' = {} /\ Asked(o)' = 0 /\ Posting(o)' = 0
  BY <1>2 DEF DrawnInv
<1> QED
  BY <1>4, <1>5 DEF DrawnInv

\* Whatever goes into the queue but an OrderStartedEvent leaves Asked no larger.
LEMMA AskedKept ==
    ASSUME Shape, NEW o \in Orders, NEW out, NEW in, Exchange(out, in),
           Message("OrderStarted", o) \notin in
    PROVE  Asked(o)' <= Asked(o)
<1> DEFINE m == Message("OrderStarted", o)
<1>1. m \in Messages /\ queue[m] \in Nat
  BY MessageFacts DEF Shape, OrderEvents
<1>2. queue'[m] = queue[m] + 0 - (IF m \in out THEN 1 ELSE 0)
  BY <1>1 DEF Exchange
<1> QED
  BY <1>1, <1>2 DEF Asked

\* Order.API: an order is posted once and sent once.
LEMMA OrderApiDraws ==
    ASSUME Shape, Shape', NEW o \in Orders, DrawnInv(o), NEW p \in Orders,
           CreateOrder(p) \/ SendOrderStarted(p) \/ OrderCrash(p)
    PROVE  DrawnInv(o)'
<1> DEFINE m(x) == Message("OrderStarted", x)
<1>1. saga' = saga /\ Drawn(o)' = Drawn(o)
  BY DEF CreateOrder, SendOrderStarted, OrderCrash, Drawn, InstancesOf
<1>2. m(o) \in Messages /\ (o # p => m(o) # m(p)) /\ queue[m(o)] \in Nat
  BY MessageFacts DEF OrderEvents, Shape
<1>3. Asked(o) \in Nat /\ Posting(o) \in 0 .. 1 /\ crashes \in Nat
  BY DrawnTypes
<1>4. Cardinality(Drawn(o)) \in Nat
  BY DrawnFinite
<1>5. CASE CreateOrder(p)
  <2>1. /\ queue' = queue /\ crashes' = crashes /\ order[p] = "none"
        /\ order' = [order EXCEPT ![p] = "Suspend"]
        /\ posting' = posting \union {p}
    BY <1>5 DEF CreateOrder
  <2>2. Asked(o)' = Asked(o)
    BY <2>1 DEF Asked
  <2>3. CASE o = p
    <3>1. Drawn(o) = {} /\ Asked(o) = 0
      BY <2>1, <2>3 DEF DrawnInv
    <3>2. Posting(o)' = 1 /\ order'[o] # "none"
      BY <2>1, <2>3 DEF Posting, Shape
    <3>3. Cardinality(Drawn(o)) = 0
      BY <3>1, FS_EmptySet
    <3> QED
      BY <1>1, <1>3, <2>1, <2>2, <3>1, <3>2, <3>3 DEF DrawnInv
  <2>4. CASE o # p
    <3>1. Posting(o)' = Posting(o) /\ order'[o] = order[o]
      BY <2>1, <2>4 DEF Posting, Shape
    <3> QED
      BY <1>1, <2>1, <2>2, <3>1 DEF DrawnInv
  <2> QED
    BY <2>3, <2>4
<1>6. CASE SendOrderStarted(p)
  <2>1. /\ p \in posting /\ posting' = posting \ {p}
        /\ crashes' = crashes /\ order' = order
        /\ queue'[m(o)] = queue[m(o)] + (IF m(o) \in {m(p)} THEN 1 ELSE 0)
                            - (IF m(o) \in {} THEN 1 ELSE 0)
    BY <1>2, <1>6 DEF SendOrderStarted, Exchange
  <2>2. CASE o = p
    <3>1. Asked(o)' = Asked(o) + 1
      BY <1>2, <2>1, <2>2 DEF Asked
    <3>2. Posting(o) = 1 /\ Posting(o)' = 0
      BY <2>1, <2>2 DEF Posting
    <3>3. order[o] # "none"
      BY <3>2 DEF DrawnInv
    <3> QED
      BY <1>1, <1>3, <1>4, <2>1, <3>1, <3>2, <3>3 DEF DrawnInv
  <2>3. CASE o # p
    <3>1. Asked(o)' = Asked(o)
      BY <1>2, <2>1, <2>3 DEF Asked
    <3>2. Posting(o)' = Posting(o)
      BY <2>1, <2>3 DEF Posting
    <3> QED
      BY <1>1, <2>1, <3>1, <3>2 DEF DrawnInv
  <2> QED
    BY <2>2, <2>3
<1>7. CASE OrderCrash(p)
  <2>1. /\ posting' = posting \ {p} /\ crashes' = crashes + 1 /\ order' = order
        /\ queue' = queue
    BY <1>7 DEF OrderCrash, Die
  <2>2. Asked(o)' = Asked(o)
    BY <2>1 DEF Asked
  <2>3. Posting(o)' <= Posting(o) /\ Posting(o)' \in 0 .. 1
    BY <2>1 DEF Posting
  <2> QED
    BY <1>1, <1>3, <2>1, <2>2, <2>3, DrawnKept
<1> QED
  BY <1>5, <1>6, <1>7

\* A new instance pays with its OrderStartedEvent.
LEMMA StartDraws ==
    ASSUME Shape, Shape', NEW o \in Orders, DrawnInv(o), NEW p \in Orders, StartInstance(p)
    PROVE  DrawnInv(o)'
<1> DEFINE m(x) == Message("OrderStarted", x)
           i == NewId(p)
<1>1. m(o) \in Messages /\ (o # p => m(o) # m(p)) /\ queue[m(o)] \in Nat
  BY MessageFacts DEF OrderEvents, Shape
<1>2. /\ Asked(o) \in Nat /\ Posting(o) \in 0 .. 1 /\ crashes \in Nat
  BY DrawnTypes
<1>3. Cardinality(Drawn(o)) \in Nat
  BY DrawnFinite
<1>4. saga' = [saga EXCEPT ![i] = "starting"]
  BY DEF StartInstance
<1>5. /\ order' = order /\ posting' = posting
      /\ queue[m(p)] > 0
  BY DEF StartInstance, Exchange
<1>6. Posting(o)' = Posting(o)
  BY <1>5 DEF Posting
<1>7. i[1] = p
  BY DEF NewId
<1>8. Drawn(o)' \subseteq Drawn(o) \union {i}
  BY <1>4 DEF Drawn, InstancesOf, Shape
<1>9. o # p => Drawn(o)' \subseteq Drawn(o)
  BY <1>4, <1>7, <1>8 DEF Drawn, InstancesOf
<1>10. /\ Cardinality(Drawn(o)') \in Nat
       /\ Cardinality(Drawn(o)') <= Cardinality(Drawn(o)) + 1
  <2>1. /\ IsFiniteSet(Drawn(o) \union {i})
        /\ Cardinality(Drawn(o) \union {i}) <= Cardinality(Drawn(o)) + 1
        /\ Cardinality(Drawn(o) \union {i}) \in Nat
    <3>1. IsFiniteSet(Drawn(o))
      BY DrawnFinite
    <3>2. /\ IsFiniteSet(Drawn(o) \union {i})
          /\ Cardinality(Drawn(o) \union {i}) =
                IF i \in Drawn(o) THEN Cardinality(Drawn(o)) ELSE Cardinality(Drawn(o)) + 1
      BY <3>1, FS_AddElement, Zenon
    <3> QED
      BY <1>3, <3>2
  <2>2. IsFiniteSet(Drawn(o)') /\ Cardinality(Drawn(o)') <= Cardinality(Drawn(o) \union {i})
    BY <1>8, <2>1, FS_Subset
  <2> QED
    BY <1>3, <2>1, <2>2, FS_CardinalityType
<1>11. crashes' = crashes /\ queue'[m(o)] = queue[m(o)] - (IF o = p THEN 1 ELSE 0)
  BY <1>1 DEF StartInstance, Exchange
<1>12. CASE o = p
  <2>1. order[o] # "none"
    BY <1>5, <1>12 DEF DrawnInv, Asked
  <2>2. crashes' = crashes /\ Asked(o)' = Asked(o) - 1
    BY <1>11, <1>12 DEF Asked
  <2> QED
    BY <1>2, <1>3, <1>5, <1>6, <1>10, <2>1, <2>2 DEF DrawnInv
<1>13. CASE o # p
  <2>1. Asked(o)' = Asked(o) /\ crashes' >= crashes
    BY <1>1, <1>2, <1>11, <1>13 DEF Asked
  <2>2. Asked(o)' + Posting(o)' <= Asked(o) + Posting(o)
    BY <1>2, <1>6, <2>1
  <2> QED
    BY <1>5, <1>9, <1>13, <2>1, <2>2, DrawnKept
<1> QED
  BY <1>12, <1>13

\* A handler cut short leaves its OrderStartedEvent, and pays with the crash.
LEMMA StartEndsDraw ==
    ASSUME Shape, Shape', NEW o \in Orders, DrawnInv(o), NEW i \in Instances, StartEnds(i)
    PROVE  DrawnInv(o)'
<1> DEFINE m(x) == Message("OrderStarted", x)
<1>1. /\ i[1] \in Orders /\ i \in InstancesOf(i[1]) /\ m(o) \in Messages
      /\ (o # i[1] => m(o) # m(i[1])) /\ queue[m(o)] \in Nat
  BY MessageFacts DEF OrderEvents, Shape
<1>2. /\ Asked(o) \in Nat /\ Posting(o) \in 0 .. 1 /\ crashes \in Nat
      /\ Cardinality(Drawn(o)) \in Nat
  BY DrawnTypes, DrawnFinite
<1>3. /\ saga[i] = "starting"
      /\ \E state \in {"OrderCreated", "unsaved"} : saga' = [saga EXCEPT ![i] = state]
      /\ order' = order /\ posting' = posting
  BY StartEndsFacts
<1>4. Drawn(o)' = Drawn(o) /\ Posting(o)' = Posting(o)
  BY <1>3 DEF Drawn, InstancesOf, Shape, Posting
<1>5. \/ crashes' = crashes /\ queue' = queue
      \/ crashes' = crashes + 1 /\ Exchange({}, {m(i[1])})
  BY StartEndsFacts DEF Die
<1>6. CASE crashes' = crashes /\ queue' = queue
  BY <1>3, <1>4, <1>6 DEF DrawnInv, Asked
<1>7. CASE crashes' = crashes + 1 /\ Exchange({}, {m(i[1])})
  <2>1. queue'[m(o)] = queue[m(o)] + (IF m(o) \in {m(i[1])} THEN 1 ELSE 0)
                          - (IF m(o) \in {} THEN 1 ELSE 0)
    BY <1>1, <1>7 DEF Exchange
  <2>2. CASE o = i[1]
    <3>1. Asked(o)' = Asked(o) + 1
      BY <1>1, <2>1, <2>2 DEF Asked
    <3>2. order[o] # "none"
      BY <1>1, <1>3, <2>2 DEF DrawnInv, Drawn
    <3> QED
      BY <1>2, <1>3, <1>4, <1>7, <3>1, <3>2 DEF DrawnInv
  <2>3. CASE o # i[1]
    <3>1. Asked(o)' = Asked(o)
      BY <1>1, <2>1, <2>3 DEF Asked
    <3> QED
      BY <1>2, <1>3, <1>4, <1>7, <3>1 DEF DrawnInv
  <2> QED
    BY <2>2, <2>3
<1> QED
  BY <1>5, <1>6, <1>7

\* What the other handlers keep.
Draws(o) ==
    /\ Drawn(o)' \subseteq Drawn(o)
    /\ Asked(o)' <= Asked(o)
    /\ posting' = posting
    /\ crashes' >= crashes
    /\ order'[o] = "none" => order[o] = "none"

LEMMA NothingDrawn ==
    ASSUME Shape, Shape', NEW o \in Orders, DrawnInv(o), Draws(o)
    PROVE  DrawnInv(o)'
<1>1. Posting(o)' = Posting(o) /\ Posting(o) \in 0 .. 1 /\ Asked(o) \in Nat
  BY DrawnTypes DEF Draws, Posting
<1>2. Asked(o)' \in Nat
  <2>1. Message("OrderStarted", o) \in Messages
    BY MessageFacts DEF OrderEvents
  <2> QED
    BY <2>1 DEF Asked, Shape
<1> QED
  BY <1>1, <1>2, DrawnKept DEF Draws
LEMMA OthersDrawNothing ==
    ASSUME CauseInv, NEW o \in Orders,
           \/ \E p \in Orders : \/ StartRefused(p)
                                \/ \E e \in OrderEvents : OrderConsumes(p, e) \/ OrderUnacked(p, e)
           \/ \E i \in Instances :
                 \/ \E e \in SagaEvents : \/ React(i, e) \/ ReactRefused(i, e)
                                          \/ ReactUnsaved(i, e) \/ ReactUnacked(i, e)
                 \/ StockWorks(i) \/ StockAnswers(i) \/ StockRollsBack(i)
                 \/ \E paid \in PaymentAnswers : PaymentConsumes(i, paid) \/ PaymentUnacked(i, paid)
           \/ StockCrash
    PROVE  Draws(o)
<1> DEFINE m == Message("OrderStarted", o)
<1>a. Shape /\ crashes \in Nat /\ Asked(o) \in Nat
  BY DrawnTypes DEF CauseInv
<1>1. ASSUME NEW p \in Orders, StartRefused(p)
      PROVE  Draws(o)
  <2>1. Exchange({Message("OrderStarted", p)}, {}) /\ UNCHANGED <<saga, posting, crashes, order>>
    BY <1>1 DEF StartRefused
  <2>2. Asked(o)' <= Asked(o)
    BY <1>a, <2>1, AskedKept
  <2> QED
    BY <1>a, <2>1, <2>2 DEF Draws, Drawn, InstancesOf
<1>2. ASSUME NEW p \in Orders, NEW e \in OrderEvents, OrderConsumes(p, e) \/ OrderUnacked(p, e)
      PROVE  Draws(o)
  <2>1. /\ UNCHANGED <<saga, posting>>
        /\ UNCHANGED queue \/ Exchange({Message(e, p)}, {})
        /\ crashes' = crashes \/ crashes' = crashes + 1
        /\ e \in {"OrderCompleted", "OrderFailed"}
        /\ order' = [order EXCEPT ![p] = NewStatus[e]]
    BY <1>2 DEF OrderConsumes, OrderUnacked, Die, NewStatus
  <2>2. Asked(o)' <= Asked(o)
    <3>1. CASE UNCHANGED queue
      BY <1>a, <3>1 DEF Asked
    <3>2. CASE Exchange({Message(e, p)}, {})
      BY <1>a, <3>2, AskedKept
    <3> QED
      BY <2>1, <3>1, <3>2
  <2>3. NewStatus[e] # "none"
    BY <2>1 DEF NewStatus
  <2>4. order'[o] = "none" => order[o] = "none"
    BY <1>a, <2>1, <2>3 DEF Shape
  <2> QED
    BY <1>a, <2>1, <2>2, <2>4 DEF Draws, Drawn, InstancesOf
<1>3. ASSUME NEW i \in Instances, NEW e \in SagaEvents,
             React(i, e) \/ ReactUnsaved(i, e) \/ ReactUnacked(i, e)
      PROVE  Draws(o)
  <2>1. /\ UNCHANGED <<posting, order>>
        /\ crashes' = crashes \/ crashes' = crashes + 1
        /\ Accepts(i, e)
        /\ saga' = saga \/ saga' = [saga EXCEPT ![i] = NextState[e]]
    BY <1>3 DEF React, ReactUnsaved, ReactUnacked, Die
  <2>2. PICK out \in {{Message(e, i)}, {}}, n \in 1 .. Len(Sends(i, e)) :
            Exchange(out, FirstSends(i, e, n))
    <3>1. Len(Sends(i, e)) \in 1 .. Len(Sends(i, e))
      BY DEF Sends, SagaEvents
    <3> QED
      BY <1>3, <3>1 DEF React, ReactUnsaved, ReactUnacked
  <2>3. \A x \in FirstSends(i, e, n) : x.event # "OrderStarted"
    BY <2>2 DEF FirstSends, Sends, SagaEvents, Message
  <2>4. m \notin FirstSends(i, e, n)
    BY <2>3, MessageFacts
  <2>5. Asked(o)' <= Asked(o)
    BY <1>a, <2>2, <2>4, AskedKept
  <2>6. saga[i] # "unborn"
    BY <2>1 DEF Accepts
  <2>7. Drawn(o)' \subseteq Drawn(o)
    BY <2>1, <2>6 DEF Drawn, InstancesOf, CauseInv, Shape
  <2> QED
    BY <1>a, <2>1, <2>5, <2>7 DEF Draws
<1>4. ASSUME NEW i \in Instances,
             StockRollsBack(i) \/ \E e \in SagaEvents : ReactRefused(i, e)
      PROVE  Draws(o)
  <2>1. /\ UNCHANGED <<saga, posting, crashes, order>>
        /\ \E x \in Messages : Exchange({x}, {})
    BY <1>4, MessageFacts DEF StockRollsBack, ReactRefused, InstanceEvents
  <2>2. Asked(o)' <= Asked(o)
    BY <1>a, <2>1, AskedKept
  <2> QED
    BY <1>a, <2>1, <2>2 DEF Draws, Drawn, InstancesOf
<1>5. ASSUME NEW i \in Instances, StockWorks(i) \/ StockAnswers(i) \/ StockCrash
      PROVE  Draws(o)
  <2>1. /\ UNCHANGED <<saga, posting, order>>
        /\ crashes' = crashes \/ crashes' = crashes + 1
        /\ \/ UNCHANGED queue
           \/ \E e \in {"StockReserved", "StockNotReserved"} : Exchange({}, {Message(e, i)})
    BY <1>5 DEF StockWorks, StockAnswers, StockCrash, Die
  <2>2. Asked(o)' <= Asked(o)
    <3>1. CASE UNCHANGED queue
      BY <1>a, <3>1 DEF Asked
    <3>2. ASSUME NEW e \in {"StockReserved", "StockNotReserved"}, Exchange({}, {Message(e, i)})
          PROVE  Asked(o)' <= Asked(o)
      <4>1. m \notin {Message(e, i)}
        BY MessageFacts
      <4> QED
        BY <1>a, <3>2, <4>1, AskedKept
    <3> QED
      BY <2>1, <3>1, <3>2
  <2> QED
    BY <1>a, <2>1, <2>2 DEF Draws, Drawn, InstancesOf
<1>6. ASSUME NEW i \in Instances, NEW paid \in PaymentAnswers,
             PaymentConsumes(i, paid) \/ PaymentUnacked(i, paid)
      PROVE  Draws(o)
  <2>1. /\ UNCHANGED <<saga, posting, order>>
        /\ crashes' = crashes \/ crashes' = crashes + 1
        /\ \E out : Exchange(out, {Message(PaymentEvent(paid), i)})
    BY <1>6 DEF PaymentConsumes, PaymentUnacked, Pay, Die
  <2>2. PaymentEvent(paid) # "OrderStarted"
    BY DEF PaymentEvent
  <2>3. m \notin {Message(PaymentEvent(paid), i)}
    BY <2>2, MessageFacts
  <2>4. Asked(o)' <= Asked(o)
    BY <1>a, <2>1, <2>3, AskedKept
  <2> QED
    BY <1>a, <2>1, <2>4 DEF Draws, Drawn, InstancesOf
<1>7. CASE StockCrash
  <2>1. UNCHANGED <<saga, posting, order, queue>> /\ crashes' = crashes + 1
    BY <1>7 DEF StockCrash, Die
  <2> QED
    BY <1>a, <2>1 DEF Draws, Drawn, InstancesOf, Asked
<1> QED
  BY <1>1, <1>2, <1>3, <1>4, <1>5, <1>6, <1>7

DrawsCounted == \A o \in Orders : DrawnInv(o)

LEMMA DrawnInit == Init => DrawsCounted
<1> SUFFICES ASSUME Init, NEW o \in Orders PROVE DrawnInv(o)
  BY DEF DrawsCounted
<1>1. Drawn(o) = {} /\ posting = {} /\ crashes = 0 /\ order[o] = "none"
  BY DEF Init, Drawn, InstancesOf
<1>2. Asked(o) = 0
  BY MessageFacts DEF Init, Asked, OrderEvents
<1>3. Cardinality(Drawn(o)) = 0
  BY <1>1, FS_EmptySet
<1> QED
  BY <1>1, <1>2, <1>3 DEF DrawnInv, Posting

LEMMA DrawnStep == CauseInv /\ CauseInv' /\ DrawsCounted /\ [Next]_vars => DrawsCounted'
<1> SUFFICES ASSUME CauseInv, CauseInv', DrawsCounted, [Next]_vars, NEW o \in Orders
             PROVE  DrawnInv(o)'
  BY DEF DrawsCounted
<1>a. Shape /\ Shape' /\ DrawnInv(o)
  BY DEF CauseInv, DrawsCounted
<1>1. ASSUME NEW p \in Orders, CreateOrder(p) \/ Proceed(p) \/ Interrupt(p)
      PROVE  DrawnInv(o)'
  <2>1. CASE CreateOrder(p) \/ SendOrderStarted(p) \/ OrderCrash(p)
    BY <1>a, <2>1, OrderApiDraws
  <2>2. CASE StartInstance(p) \/ \E i \in InstancesOf(p) : StartEnds(i)
    BY <1>a, <2>2, StartDraws, StartEndsDraw, MessageFacts
  <2>3. CASE StartRefused(p) \/ \E e \in OrderEvents : OrderConsumes(p, e) \/ OrderUnacked(p, e)
    BY <1>a, <2>3, OthersDrawNothing, NothingDrawn
  <2>4. ASSUME NEW i \in InstancesOf(p),
               \/ \E e \in SagaEvents : \/ React(i, e) \/ ReactRefused(i, e)
                                        \/ ReactUnsaved(i, e) \/ ReactUnacked(i, e)
               \/ StockWorks(i) \/ StockAnswers(i) \/ StockRollsBack(i)
               \/ \E paid \in PaymentAnswers : PaymentConsumes(i, paid) \/ PaymentUnacked(i, paid)
        PROVE  DrawnInv(o)'
    <3>1. i \in Instances
      BY MessageFacts
    <3>2. Draws(o)
      BY <2>4, <3>1, OthersDrawNothing
    <3> QED
      BY <1>a, <3>2, NothingDrawn
  <2> QED
    BY <1>1, <2>1, <2>2, <2>3, <2>4 DEF Proceed, Interrupt, StartEnds
<1>2. CASE StockCrash
  BY <1>a, <1>2, OthersDrawNothing, NothingDrawn
<1>3. CASE UNCHANGED vars
  BY <1>a, <1>3 DEF vars, DrawnInv, Drawn, InstancesOf, Asked, Posting
<1> QED
  BY <1>1, <1>2, <1>3 DEF Next

LEMMA DrawsCountedHolds == Spec => []DrawsCounted
  BY CauseInvHolds, DrawnInit, DrawnStep, PTL DEF Spec

\* OrderStateMachine, whose CorrelateBy looks for a row of the same OrderId: however
\* many OrderStartedEvents are redelivered, an order never has more instances than one
\* and the crashes there were.
THEOREM SecondSagasNeedCrashes == Spec => []SecondSagaNeedsCrash
<1>1. CauseInv /\ DrawsCounted => SecondSagaNeedsCrash
  <2> SUFFICES ASSUME CauseInv, DrawsCounted, NEW o \in Orders
               PROVE  Cardinality(Drawn(o)) <= 1 + crashes
    BY DEF SecondSagaNeedsCrash
  <2>1. Asked(o) \in Nat /\ Posting(o) \in 0 .. 1 /\ crashes \in Nat
    BY DrawnTypes DEF CauseInv
  <2> QED
    BY <2>1, DrawnFinite DEF DrawsCounted, DrawnInv
<1> QED
  BY <1>1, CauseInvHolds, DrawsCountedHolds, PTL
-----------------------------------------------------------------------------
(* Who overturns a status. *)

LEMMA PairInside ==
    ASSUME NEW S, IsFiniteSet(S), NEW a \in S, NEW b \in S, a # b
    PROVE  Cardinality(S) >= 2 /\ ((\A x \in S : x = a \/ x = b) => Cardinality(S) = 2)
<1>1. IsFiniteSet({a}) /\ Cardinality({a}) = 1
  BY FS_Singleton
<1>2. IsFiniteSet({a} \union {b}) /\ Cardinality({a} \union {b}) = 2
  <2>1. /\ IsFiniteSet({a} \union {b})
        /\ Cardinality({a} \union {b}) =
              IF b \in {a} THEN Cardinality({a}) ELSE Cardinality({a}) + 1
    BY <1>1, FS_AddElement, Zenon
  <2> QED
    BY <1>1, <2>1
<1>3. {a} \union {b} \subseteq S
  OBVIOUS
<1>4. Cardinality({a} \union {b}) <= Cardinality(S)
  BY <1>3, FS_Subset
<1>5. Cardinality(S) \in Nat
  BY FS_CardinalityType
<1>6. (\A x \in S : x = a \/ x = b) => S = {a} \union {b}
  OBVIOUS
<1> QED
  BY <1>2, <1>4, <1>5, <1>6

LEMMA TwoValued ==
    ASSUME NEW S, NEW a, NEW b, a # b, S \subseteq {a, b}, a \in S, b \in S
    PROVE  Cardinality(S) = 2
<1>1. IsFiniteSet({a}) /\ Cardinality({a}) = 1
  BY FS_Singleton
<1>2. Cardinality({a} \union {b}) = 2
  BY <1>1, FS_AddElement
<1>3. S = {a} \union {b}
  OBVIOUS
<1> QED
  BY <1>2, <1>3

\* What an order served and refused at once must have had.
Doubled(o) ==
    \/ Cardinality(Drawn(o)) > 1
    \/ \E i \in InstancesOf(o) : 2 \in {Cardinality(answers[i]), Cardinality(payments[i])}

LEMMA BothAnswersDouble ==
    ASSUME CauseInv, NEW o \in Orders, Paid(o), Refused(o)
    PROVE  Doubled(o)
<1>1. PICK i \in InstancesOf(o) : "reserved" \in answers[i] /\ TRUE \in payments[i]
  BY DEF Paid
<1>2. PICK j \in InstancesOf(o) : "notReserved" \in answers[j] \/ FALSE \in payments[j]
  BY DEF Refused
<1>3. i \in Instances /\ j \in Instances
  BY MessageFacts
<1>4. i \in Drawn(o) /\ j \in Drawn(o)
  <2>1. answers[i] # {}
    BY <1>1
  <2>2. answers[j] # {}
    <3>1. CASE "notReserved" \in answers[j]
      BY <3>1
    <3>2. CASE FALSE \in payments[j]
      <4>1. payments[j] # {}
        BY <3>2
      <4> QED
        BY <1>3, <4>1 DEF CauseInv, SagasCaused
    <3> QED
      BY <1>2, <3>1, <3>2
  <2> QED
    BY <1>3, <2>1, <2>2 DEF CauseInv, UnbornUnserved, Drawn
<1>5. CASE i # j
  <2>1. Cardinality(Drawn(o)) >= 2
    BY <1>4, <1>5, DrawnFinite, PairInside
  <2> QED
    BY <2>1, DrawnFinite DEF Doubled
<1>6. CASE i = j
  <2>1. CASE "notReserved" \in answers[i]
    <3>1. answers[i] \subseteq {"reserved", "notReserved"}
      BY <1>3 DEF CauseInv, Shape, Stock!Answers
    <3>2. Cardinality(answers[i]) = 2
      BY <1>1, <2>1, <3>1, TwoValued
    <3> QED
      BY <3>2 DEF Doubled
  <2>2. CASE FALSE \in payments[i]
    <3>1. payments[i] \subseteq {TRUE, FALSE}
      BY <1>3 DEF CauseInv, Shape
    <3>2. Cardinality(payments[i]) = 2
      <4>1. TRUE # FALSE
        OBVIOUS
      <4> QED
        BY <1>1, <2>2, <3>1, <4>1, TwoValued, Zenon
    <3> QED
      BY <3>2 DEF Doubled
  <2> QED
    BY <1>2, <1>6, <2>1, <2>2
<1> QED
  BY <1>5, <1>6

\* Only the two consumers of Order.API change the status of a decided order.
LEMMA FlipStep ==
    ASSUME CauseInv, CauseInv', NEW o \in Orders, Next, Decided(o), order'[o] # order[o]
    PROVE  Paid(o) /\ Refused(o)
<1>1. PICK p \in Orders, e \in OrderEvents : OrderConsumes(p, e) \/ OrderUnacked(p, e)
  BY DEF Next, Proceed, Interrupt, CreateOrder, SendOrderStarted, OrderCrash,
         StartInstance, InsertInstance, StartUnsaved, StartUnacked, StartCutShort,
         StartRefused, React, ReactUnsaved, ReactUnacked, ReactRefused,
         StockWorks, StockAnswers, StockCrash, StockRollsBack,
         PaymentConsumes, PaymentUnacked, Pay, Decided, CauseInv, Shape
<1>2. UNCHANGED <<answers, payments>>
  BY <1>1 DEF OrderConsumes, OrderUnacked, stockVars
<1>3. /\ order[o] = "Completed" => Paid(o)
      /\ order[o] = "Failed" => Refused(o)
  BY DEF CauseInv, StatusIsJustified, Paid, Refused
<1>4. /\ order'[o] = "Completed" => Paid(o)
      /\ order'[o] = "Failed" => Refused(o)
  BY <1>2 DEF CauseInv, StatusIsJustified, Paid, Refused
<1>5. order'[o] \in {"Completed", "Failed"}
  <2>1. order' = [order EXCEPT ![p] = NewStatus[e]]
        /\ e \in {"OrderCompleted", "OrderFailed"}
    BY <1>1 DEF OrderConsumes, OrderUnacked, NewStatus
  <2>2. NewStatus[e] \in {"Completed", "Failed"}
    BY <2>1 DEF NewStatus
  <2> QED
    BY <2>1, <2>2 DEF CauseInv, Shape, Decided
<1> QED
  BY <1>3, <1>4, <1>5 DEF Decided

\* OrderCompletedEventConsumer and OrderFailedEventConsumer overwrite each other only
\* when the order had two instances, or one instance was answered twice and differently.
THEOREM FlipsNeedDuplicates == Spec => OnlyDuplicatesFlip
<1> DEFINE Flip == \A o \in Orders :
               Decided(o) /\ order'[o] # order[o] =>
                  \/ Cardinality(Drawn(o)) > 1
                  \/ \E i \in InstancesOf(o) :
                        2 \in {Cardinality(answers[i]), Cardinality(payments[i])}
<1>1. CauseInv /\ CauseInv' /\ [Next]_vars => [Flip]_vars
  <2> SUFFICES ASSUME CauseInv, CauseInv', Next, NEW o \in Orders,
                      Decided(o), order'[o] # order[o]
               PROVE  Doubled(o)
    BY DEF Doubled
  <2> QED
    BY FlipStep, BothAnswersDouble
<1> QED
  BY <1>1, CauseInvHolds, PTL DEF Spec, OnlyDuplicatesFlip
-----------------------------------------------------------------------------
(* Until a process dies, one thing at a time is due for an order: its       *)
(* delivery at Stock.API, one message of its instance, or its verdict.      *)

InHand(i) == step[i] \notin {"none", "sent", "done"}

Hand(i) == IF InHand(i) THEN 1 ELSE 0

Waiting(e, x) == queue[Message(e, x)]

Mail(i) ==
    Waiting("StockReserved", i) + Waiting("StockNotReserved", i) + Waiting("PaymentStarted", i)
        + Waiting("PaymentCompleted", i) + Waiting("PaymentFailed", i)

Verdicts(o) == Waiting("OrderCompleted", o) + Waiting("OrderFailed", o)

Due(i) == Hand(i) + Mail(i) + Verdicts(i[1])

Unpaid(i) == payments[i] = {}

Calm(i) ==
    /\ Due(i) <= 1
    /\ order[i[1]] # "Suspend" => Due(i) = 0
    /\ InHand(i) => answers[i] = {}
    /\ Waiting("StockReserved", i) + Waiting("PaymentStarted", i) > 0 => Unpaid(i)

CalmInv == crashes = 0 => \A i \in Instances : saga[i] # "unborn" => Calm(i)

LEMMA MessageEq == \A e, f, x, y : Message(e, x) = Message(f, y) <=> e = f /\ x = y
  BY DEF Message

LEMMA Moves ==
    ASSUME Shape, NEW out, NEW in, Exchange(out, in), NEW e, NEW x, Message(e, x) \in Messages
    PROVE  Waiting(e, x)' = Waiting(e, x) + (IF Message(e, x) \in in THEN 1 ELSE 0)
                                - (IF Message(e, x) \in out THEN 1 ELSE 0)
  BY DEF Exchange, Waiting

LEMMA Kinds ==
    ASSUME NEW i \in Instances
    PROVE  /\ \A e \in InstanceEvents : Message(e, i) \in Messages
           /\ \A e \in OrderEvents : Message(e, i[1]) \in Messages
           /\ {"StockReserved", "StockNotReserved", "PaymentStarted", "PaymentCompleted",
               "PaymentFailed"} \subseteq InstanceEvents
           /\ {"OrderCompleted", "OrderFailed"} \subseteq OrderEvents
  BY MessageFacts DEF InstanceEvents, SagaEvents, OrderEvents

LEMMA Counts ==
    ASSUME Shape, NEW i \in Instances
    PROVE  /\ \A e \in InstanceEvents : Waiting(e, i) \in Nat
           /\ \A e \in OrderEvents : Waiting(e, i[1]) \in Nat
           /\ Hand(i) \in 0 .. 1
  BY Kinds DEF Waiting, Shape, Hand

\* A handler that leaves alone what Calm(i) speaks of.
Aside(i) ==
    /\ saga[i] # "unborn"
    /\ Hand(i)' = Hand(i) /\ (InHand(i)' => InHand(i))
    /\ answers'[i] = answers[i]
    /\ Unpaid(i) => Unpaid(i)'
    /\ order'[i[1]] = order[i[1]]
    /\ \A e \in {"StockReserved", "StockNotReserved", "PaymentStarted", "PaymentCompleted",
                 "PaymentFailed"} : Waiting(e, i)' = Waiting(e, i)
    /\ \A e \in {"OrderCompleted", "OrderFailed"} : Waiting(e, i[1])' = Waiting(e, i[1])

LEMMA AsideCalm ==
    ASSUME NEW i \in Instances, Calm(i), Aside(i)
    PROVE  Calm(i)'
<1>1. Mail(i)' = Mail(i) /\ Verdicts(i[1])' = Verdicts(i[1])
  BY DEF Aside, Mail, Verdicts
<1>2. Due(i)' = Due(i)
  BY <1>1 DEF Aside, Due
<1>3. Waiting("StockReserved", i)' + Waiting("PaymentStarted", i)'
        = Waiting("StockReserved", i) + Waiting("PaymentStarted", i)
  BY DEF Aside
<1> QED
  BY <1>2, <1>3 DEF Aside, Calm

\* Messages of other instances and orders are no matter.
LEMMA MovedAside ==
    ASSUME Shape, NEW i \in Instances, NEW out, NEW in, Exchange(out, in),
           \A m \in out \union in :
               /\ m.of = i => m.event \notin {"StockReserved", "StockNotReserved",
                                  "PaymentStarted", "PaymentCompleted", "PaymentFailed"}
               /\ m.of = i[1] => m.event \notin {"OrderCompleted", "OrderFailed"}
    PROVE  /\ \A e \in {"StockReserved", "StockNotReserved", "PaymentStarted",
                        "PaymentCompleted", "PaymentFailed"} : Waiting(e, i)' = Waiting(e, i)
           /\ \A e \in {"OrderCompleted", "OrderFailed"} : Waiting(e, i[1])' = Waiting(e, i[1])
<1>1. ASSUME NEW e \in {"StockReserved", "StockNotReserved", "PaymentStarted",
                        "PaymentCompleted", "PaymentFailed"}
      PROVE  Waiting(e, i)' = Waiting(e, i)
  <2>1. Message(e, i) \in Messages /\ Message(e, i) \notin out \union in
    BY Kinds, MessageFacts
  <2> QED
    BY <2>1, Exchanged DEF Waiting
<1>2. ASSUME NEW e \in {"OrderCompleted", "OrderFailed"}
      PROVE  Waiting(e, i[1])' = Waiting(e, i[1])
  <2>1. Message(e, i[1]) \in Messages /\ Message(e, i[1]) \notin out \union in
    BY Kinds, MessageFacts
  <2> QED
    BY <2>1, Exchanged DEF Waiting
<1> QED
  BY <1>1, <1>2

\* No instance, no message of one and no verdict.
LEMMA UndrawnSilent ==
    ASSUME CauseInv, NEW i \in Instances
    PROVE  /\ saga[i] = "unborn" => Mail(i) = 0 /\ ~InHand(i) /\ answers[i] = {} /\ Unpaid(i)
           /\ Drawn(i[1]) = {} => Verdicts(i[1]) = 0 /\ order[i[1]] \in {"none", "Suspend"}
<1>1. Shape
  BY DEF CauseInv
<1>2. ASSUME saga[i] = "unborn"
      PROVE  Mail(i) = 0 /\ ~InHand(i) /\ answers[i] = {} /\ Unpaid(i)
  <2>1. step[i] = "none" /\ answers[i] = {}
    BY <1>2 DEF CauseInv, UnbornUnserved
  <2>2. Unpaid(i)
    BY <2>1 DEF CauseInv, SagasCaused, Unpaid
  <2>3. TRUE \notin payments[i] /\ FALSE \notin payments[i]
    BY <2>2 DEF Unpaid
  <2>4. ASSUME NEW e \in {"StockReserved", "StockNotReserved", "PaymentStarted",
                          "PaymentCompleted", "PaymentFailed"}
        PROVE  Waiting(e, i) = 0
    <3>1. ~Cause(Message(e, i))
      BY <2>1, <2>3, MessageFacts DEF Cause
    <3>2. Message(e, i) \in Messages
      BY Kinds
    <3>3. Waiting(e, i) \in Nat
      BY <1>1, Counts, Kinds
    <3> QED
      BY <3>1, <3>2, <3>3 DEF CauseInv, MessagesCaused, Waiting
  <2> QED
    BY <2>1, <2>2, <2>4 DEF Mail, InHand
<1>3. ASSUME Drawn(i[1]) = {}
      PROVE  Verdicts(i[1]) = 0 /\ order[i[1]] \in {"none", "Suspend"}
  <2>1. i[1] \in Orders
    BY MessageFacts
  <2>2. \A j \in InstancesOf(i[1]) : answers[j] = {} /\ payments[j] = {}
    BY <1>3 DEF Drawn, CauseInv, UnbornUnserved, SagasCaused, InstancesOf
  <2>3. ~Paid(i[1])
    BY <2>2 DEF Paid
  <2>4. ~Refused(i[1])
    BY <2>2 DEF Refused
  <2>5. ASSUME NEW e \in {"OrderCompleted", "OrderFailed"}
        PROVE  Waiting(e, i[1]) = 0
    <3>1. ~Cause(Message(e, i[1]))
      BY <2>3, <2>4, MessageFacts DEF Cause
    <3>2. Message(e, i[1]) \in Messages
      BY Kinds
    <3>3. Waiting(e, i[1]) \in Nat
      BY <1>1, Counts, Kinds
    <3> QED
      BY <3>1, <3>2, <3>3 DEF CauseInv, MessagesCaused, Waiting
  <2>6. order[i[1]] \in {"none", "Suspend"}
    <3>1. /\ order[i[1]] = "Completed" => Paid(i[1])
          /\ order[i[1]] = "Failed" => Refused(i[1])
      BY <2>1 DEF CauseInv, StatusIsJustified, Paid, Refused
    <3> QED
      BY <2>1, <2>3, <2>4, <3>1 DEF CauseInv, Shape, OrderStatus
  <2> QED
    BY <2>5, <2>6 DEF Verdicts
<1> QED
  BY <1>2, <1>3

\* Without a crash an order has one instance at most.
LEMMA DrawnOnce ==
    ASSUME CauseInv, DrawsCounted, crashes = 0, NEW i \in Instances, NEW j \in Instances,
           saga[i] # "unborn", saga[j] # "unborn", i[1] = j[1]
    PROVE  i = j
<1>1. i[1] \in Orders /\ i \in Drawn(i[1]) /\ j \in Drawn(i[1])
  BY MessageFacts DEF Drawn
<1>2. Cardinality(Drawn(i[1])) <= 1
  BY <1>1, DrawnTypes, DrawnFinite DEF CauseInv, DrawsCounted, DrawnInv
<1>3. i # j => Cardinality(Drawn(i[1])) >= 2
  BY <1>1, DrawnFinite, PairInside
<1>4. Cardinality(Drawn(i[1])) \in Nat
  BY <1>1, DrawnFinite
<1> QED
  BY <1>2, <1>3, <1>4
LEMMA OrderApiCalm ==
    ASSUME CauseInv, DrawsCounted, crashes = 0, NEW i \in Instances, saga[i] # "unborn",
           Calm(i), NEW o \in Orders, CreateOrder(o) \/ SendOrderStarted(o) \/ StartRefused(o)
    PROVE  Calm(i)'
<1>a. Shape /\ i[1] \in Orders /\ i \in Drawn(i[1])
  BY MessageFacts DEF CauseInv, Drawn
<1>1. UNCHANGED <<step, answers, saga, payments>>
  BY DEF CreateOrder, SendOrderStarted, StartRefused, stockVars
<1>2. order'[i[1]] = order[i[1]]
  <2>1. order[i[1]] # "none"
    BY <1>a DEF DrawsCounted, DrawnInv
  <2> QED
    BY <1>a, <2>1 DEF CreateOrder, SendOrderStarted, StartRefused, Shape
<1>3. \/ UNCHANGED queue
      \/ Exchange({}, {Message("OrderStarted", o)})
      \/ Exchange({Message("OrderStarted", o)}, {})
  BY DEF CreateOrder, SendOrderStarted, StartRefused
<1>4. /\ \A e \in {"StockReserved", "StockNotReserved", "PaymentStarted",
                   "PaymentCompleted", "PaymentFailed"} : Waiting(e, i)' = Waiting(e, i)
      /\ \A e \in {"OrderCompleted", "OrderFailed"} : Waiting(e, i[1])' = Waiting(e, i[1])
  <2>1. CASE UNCHANGED queue
    BY <2>1 DEF Waiting
  <2>2. CASE Exchange({}, {Message("OrderStarted", o)})
    BY <1>a, <2>2, MovedAside, MessageFacts
  <2>3. CASE Exchange({Message("OrderStarted", o)}, {})
    BY <1>a, <2>3, MovedAside, MessageFacts
  <2> QED
    BY <1>3, <2>1, <2>2, <2>3
<1>5. Aside(i)
  BY <1>1, <1>2, <1>4 DEF Aside, Hand, InHand, Unpaid
<1> QED
  BY <1>5, AsideCalm

LEMMA OrderConsumesCalm ==
    ASSUME CauseInv, NEW i \in Instances, saga[i] # "unborn", Calm(i),
           NEW o \in Orders, NEW e \in OrderEvents, OrderConsumes(o, e)
    PROVE  Calm(i)'
<1>a. Shape /\ i[1] \in Orders
  BY MessageFacts DEF CauseInv
<1>1. /\ UNCHANGED <<step, answers, saga, payments>>
      /\ Exchange({Message(e, o)}, {})
      /\ e \in {"OrderCompleted", "OrderFailed"}
      /\ order' = [order EXCEPT ![o] = NewStatus[e]]
  BY DEF OrderConsumes, stockVars, NewStatus
<1>2. Hand(i)' = Hand(i) /\ InHand(i)' = InHand(i) /\ Unpaid(i)' = Unpaid(i)
  BY <1>1 DEF Hand, InHand, Unpaid
<1>3. CASE o # i[1]
  <2>1. order'[i[1]] = order[i[1]]
    BY <1>a, <1>1, <1>3 DEF Shape
  <2>2. \A m \in {Message(e, o)} \union {} :
            m.event \in {"OrderCompleted", "OrderFailed"} /\ m.of # i[1]
    BY <1>1, <1>3, MessageFacts
  <2>3. /\ \A f \in {"StockReserved", "StockNotReserved", "PaymentStarted",
                     "PaymentCompleted", "PaymentFailed"} : Waiting(f, i)' = Waiting(f, i)
        /\ \A f \in {"OrderCompleted", "OrderFailed"} : Waiting(f, i[1])' = Waiting(f, i[1])
    BY <1>a, <1>1, <2>2, MovedAside
  <2> QED
    BY <1>1, <1>2, <2>1, <2>3, AsideCalm DEF Aside
<1>4. CASE o = i[1]
  <2>1. \A f \in {"StockReserved", "StockNotReserved", "PaymentStarted",
                  "PaymentCompleted", "PaymentFailed"} : Waiting(f, i)' = Waiting(f, i)
    <3>1. ASSUME NEW f \in {"StockReserved", "StockNotReserved", "PaymentStarted",
                            "PaymentCompleted", "PaymentFailed"}
          PROVE  Waiting(f, i)' = Waiting(f, i)
      <4>1. Message(f, i) \in Messages /\ Message(f, i) \notin {Message(e, o)} \union {}
        BY <1>1, Kinds, MessageFacts
      <4> QED
        BY <1>a, <1>1, <4>1, Exchanged DEF Waiting
    <3> QED
      BY <3>1
  <2>2. Verdicts(i[1])' = Verdicts(i[1]) - 1
    <3>1. /\ Message("OrderCompleted", i[1]) \in Messages
          /\ Message("OrderFailed", i[1]) \in Messages
      BY Kinds
    <3>2. /\ Waiting("OrderCompleted", i[1])' = Waiting("OrderCompleted", i[1])
                - (IF e = "OrderCompleted" THEN 1 ELSE 0)
          /\ Waiting("OrderFailed", i[1])' = Waiting("OrderFailed", i[1])
                - (IF e = "OrderFailed" THEN 1 ELSE 0)
      <4>1. /\ Waiting("OrderCompleted", i[1]) \in Nat
            /\ Waiting("OrderFailed", i[1]) \in Nat
        BY <1>a, Counts, Kinds
      <4>2. /\ Message("OrderCompleted", i[1]) = Message(e, o) <=> e = "OrderCompleted"
            /\ Message("OrderFailed", i[1]) = Message(e, o) <=> e = "OrderFailed"
        BY <1>4, MessageEq
      <4>3. /\ Waiting("OrderCompleted", i[1])' = Waiting("OrderCompleted", i[1]) + 0
                  - (IF Message("OrderCompleted", i[1]) \in {Message(e, o)} THEN 1 ELSE 0)
            /\ Waiting("OrderFailed", i[1])' = Waiting("OrderFailed", i[1]) + 0
                  - (IF Message("OrderFailed", i[1]) \in {Message(e, o)} THEN 1 ELSE 0)
        BY <1>1, <3>1 DEF Exchange, Waiting
      <4> QED
        BY <4>1, <4>2, <4>3
    <3>3. /\ Waiting("OrderCompleted", i[1]) \in Nat
          /\ Waiting("OrderFailed", i[1]) \in Nat
      BY <1>a, Counts, Kinds
    <3> QED
      BY <1>1, <3>2, <3>3 DEF Verdicts
  <2>3. Mail(i)' = Mail(i)
    BY <2>1 DEF Mail
  <2>4. Hand(i) \in Nat /\ Mail(i) \in Nat /\ Verdicts(i[1]) \in Nat
    BY <1>a, Counts, Kinds DEF Mail, Verdicts
  <2>5. Verdicts(i[1]) > 0
    <3>1. Waiting(e, i[1]) > 0
      BY <1>1, <1>4 DEF Exchange, Waiting
    <3>2. /\ Waiting("OrderCompleted", i[1]) \in Nat
          /\ Waiting("OrderFailed", i[1]) \in Nat
      BY <1>a, Counts, Kinds
    <3> QED
      BY <1>1, <3>1, <3>2 DEF Verdicts
  <2>6. Due(i)' = 0
    BY <1>2, <2>2, <2>3, <2>4, <2>5 DEF Due, Calm
  <2> QED
    BY <1>1, <1>2, <2>1, <2>6 DEF Calm
<1> QED
  BY <1>3, <1>4

LEMMA StartCalm ==
    ASSUME CauseInv, CauseInv', DrawsCounted, crashes = 0, NEW i \in Instances,
           saga[i] # "unborn" => Calm(i), saga'[i] # "unborn",
           NEW o \in Orders, StartInstance(o)
    PROVE  Calm(i)'
<1> DEFINE n == NewId(o)
<1>a. Shape /\ i[1] \in Orders
  BY MessageFacts DEF CauseInv
<1>1. /\ Exchange({Message("OrderStarted", o)}, {})
      /\ saga' = [saga EXCEPT ![n] = "starting"]
      /\ step' = [step EXCEPT ![n] = "queued"]
      /\ step[n] = "none"
      /\ UNCHANGED <<answers, order, payments>>
      /\ n[1] = o
  BY DEF StartInstance, Stock!Arrive, NewId
<1>2. /\ \A e \in {"StockReserved", "StockNotReserved", "PaymentStarted",
                   "PaymentCompleted", "PaymentFailed"} : Waiting(e, i)' = Waiting(e, i)
      /\ \A e \in {"OrderCompleted", "OrderFailed"} : Waiting(e, i[1])' = Waiting(e, i[1])
  BY <1>a, <1>1, MovedAside, MessageFacts
<1>3. o = i[1] => Drawn(o) = {} /\ order[o] # "none"
  <2>1. Asked(o) > 0 /\ Asked(o) \in Nat /\ Posting(o) \in 0 .. 1
    BY <1>a, <1>1, DrawnTypes DEF Exchange, Asked
  <2>2. Cardinality(Drawn(o)) = 0
    BY <2>1, DrawnFinite DEF DrawsCounted, DrawnInv
  <2>3. Drawn(o) = {}
    BY <2>2, DrawnFinite, FS_EmptySet
  <2> QED
    BY <2>1, <2>3 DEF DrawsCounted, DrawnInv
<1>4. CASE saga[i] # "unborn"
  <2>1. i # n
    BY <1>1, <1>3, <1>4, MessageFacts DEF Drawn
  <2>2. step'[i] = step[i]
    BY <1>a, <1>1, <2>1 DEF Shape
  <2> QED
    BY <1>1, <1>2, <1>4, <2>2, AsideCalm DEF Aside, Hand, InHand, Unpaid
<1>5. CASE saga[i] = "unborn"
  <2>1. i = n /\ o = i[1]
    BY <1>a, <1>1, <1>5 DEF Shape
  <2>2. /\ Mail(i) = 0 /\ answers[i] = {} /\ Unpaid(i)
        /\ Verdicts(i[1]) = 0 /\ order[i[1]] = "Suspend"
    BY <1>3, <1>5, <2>1, UndrawnSilent
  <2>3. Mail(i)' = 0 /\ Verdicts(i[1])' = 0
    BY <1>2, <2>2 DEF Mail, Verdicts
  <2>4. Hand(i)' = 1
    BY <1>a, <1>1, <2>1 DEF Hand, InHand, Shape
  <2>5. Due(i)' = 1
    BY <2>3, <2>4 DEF Due
  <2> QED
    BY <1>1, <2>2, <2>5 DEF Calm, Unpaid
<1> QED
  BY <1>4, <1>5

LEMMA InsertCalm ==
    ASSUME NEW i \in Instances, saga[i] # "unborn", Calm(i), NEW j \in Instances,
           InsertInstance(j)
    PROVE  Calm(i)'
<1>1. UNCHANGED <<step, answers, order, queue, payments>>
  BY DEF InsertInstance, stockVars
<1> QED
  BY <1>1, AsideCalm DEF Aside, Hand, InHand, Unpaid, Waiting

\* One message of the instance out, one message of it or one verdict in.
LEMMA MovesOne ==
    ASSUME Shape, NEW i \in Instances, NEW e \in SagaEvents \union {"PaymentStarted"}, NEW in,
           Exchange({Message(e, i)}, in)
    PROVE  LET T(f, x) == IF Message(f, x) \in in THEN 1 ELSE 0
           IN  /\ Waiting(e, i) > 0
               /\ Mail(i)' = Mail(i) - 1 + T("StockReserved", i) + T("StockNotReserved", i)
                      + T("PaymentStarted", i) + T("PaymentCompleted", i) + T("PaymentFailed", i)
               /\ Verdicts(i[1])' = Verdicts(i[1]) + T("OrderCompleted", i[1])
                      + T("OrderFailed", i[1])
<1> DEFINE T(f, x) == IF Message(f, x) \in in THEN 1 ELSE 0
           D(f) == IF f = e THEN 1 ELSE 0
<1>1. \A f \in InstanceEvents : Message(f, i) \in {Message(e, i)} <=> f = e
  BY MessageEq
<1>2. \A f \in OrderEvents : Message(f, i[1]) \notin {Message(e, i)}
  BY MessageEq DEF OrderEvents, SagaEvents
<1>3. ASSUME NEW f \in InstanceEvents
      PROVE  Waiting(f, i)' = Waiting(f, i) + T(f, i) - D(f)
  <2>1. Message(f, i) \in Messages
    BY Kinds
  <2> QED
    BY <1>1, <2>1, Moves
<1>4. ASSUME NEW f \in OrderEvents
      PROVE  Waiting(f, i[1])' = Waiting(f, i[1]) + T(f, i[1])
  <2>1. Message(f, i[1]) \in Messages /\ Waiting(f, i[1]) \in Nat
    BY Kinds, Counts
  <2>2. Waiting(f, i[1])' = Waiting(f, i[1]) + T(f, i[1]) - 0
    BY <1>2, <2>1, Moves
  <2> QED
    BY <2>1, <2>2
<1>5. /\ Waiting("StockReserved", i) \in Nat /\ Waiting("StockNotReserved", i) \in Nat
      /\ Waiting("PaymentStarted", i) \in Nat /\ Waiting("PaymentCompleted", i) \in Nat
      /\ Waiting("PaymentFailed", i) \in Nat
      /\ Waiting("OrderCompleted", i[1]) \in Nat /\ Waiting("OrderFailed", i[1]) \in Nat
  BY Counts, Kinds
<1>6. Waiting(e, i) > 0
  BY DEF Exchange, Waiting
<1>7. /\ Waiting("StockReserved", i)' = Waiting("StockReserved", i) + T("StockReserved", i)
             - D("StockReserved")
      /\ Waiting("StockNotReserved", i)' = Waiting("StockNotReserved", i)
             + T("StockNotReserved", i) - D("StockNotReserved")
      /\ Waiting("PaymentStarted", i)' = Waiting("PaymentStarted", i) + T("PaymentStarted", i)
             - D("PaymentStarted")
      /\ Waiting("PaymentCompleted", i)' = Waiting("PaymentCompleted", i)
             + T("PaymentCompleted", i) - D("PaymentCompleted")
      /\ Waiting("PaymentFailed", i)' = Waiting("PaymentFailed", i) + T("PaymentFailed", i)
             - D("PaymentFailed")
  BY <1>3, Kinds
<1>8. D("StockReserved") + D("StockNotReserved") + D("PaymentStarted")
          + D("PaymentCompleted") + D("PaymentFailed") = 1
  BY DEF SagaEvents
<1>9. \A f, x : T(f, x) \in 0 .. 1
  OBVIOUS
<1>10. \A f : D(f) \in 0 .. 1
  OBVIOUS
<1>11. Mail(i)' = Mail(i) - 1 + T("StockReserved", i) + T("StockNotReserved", i)
          + T("PaymentStarted", i) + T("PaymentCompleted", i) + T("PaymentFailed", i)
  <2> HIDE DEF T, D
  <2> QED
    BY <1>5, <1>7, <1>8, <1>9, <1>10 DEF Mail
<1>12. Verdicts(i[1])' = Verdicts(i[1]) + T("OrderCompleted", i[1]) + T("OrderFailed", i[1])
  <2>1. /\ Waiting("OrderCompleted", i[1])' = Waiting("OrderCompleted", i[1])
               + T("OrderCompleted", i[1])
        /\ Waiting("OrderFailed", i[1])' = Waiting("OrderFailed", i[1])
               + T("OrderFailed", i[1])
    BY <1>4, Kinds
  <2> HIDE DEF T, D
  <2> QED
    BY <1>5, <1>9, <2>1 DEF Verdicts
<1> QED
  BY <1>6, <1>11, <1>12
\* A transition takes one message and sends one that counts.
LEMMA ReactKeepsDue ==
    ASSUME CauseInv, NEW i \in Instances, NEW e \in SagaEvents, React(i, e)
    PROVE  /\ Waiting(e, i) > 0
           /\ Mail(i)' + Verdicts(i[1])' = Mail(i) + Verdicts(i[1])
           /\ Waiting("StockReserved", i)' + Waiting("PaymentStarted", i)'
                 <= Waiting("StockReserved", i) + Waiting("PaymentStarted", i)
<1> DEFINE in == FirstSends(i, e, Len(Sends(i, e)))
           T(f, x) == IF Message(f, x) \in in THEN 1 ELSE 0
<1>a. Shape
  BY DEF CauseInv
<1>1. Exchange({Message(e, i)}, in)
  BY DEF React
<1>2. /\ Waiting(e, i) > 0
      /\ Mail(i)' = Mail(i) - 1 + T("StockReserved", i) + T("StockNotReserved", i)
            + T("PaymentStarted", i) + T("PaymentCompleted", i) + T("PaymentFailed", i)
      /\ Verdicts(i[1])' = Verdicts(i[1]) + T("OrderCompleted", i[1])
            + T("OrderFailed", i[1])
  <2> HIDE DEF in
  <2> QED
    BY <1>a, <1>1, MovesOne
<1>3. /\ e = "StockReserved" => in = {Message("PaymentStarted", i)}
      /\ e = "StockNotReserved" => in = {Message("OrderFailed", i[1])}
      /\ e = "PaymentCompleted" => in = {Message("OrderCompleted", i[1])}
      /\ e = "PaymentFailed" => in = {Message("OrderFailed", i[1]), Message("StockRollBack", i)}
  BY DEF FirstSends, Sends
<1>4. /\ T("StockReserved", i) = 0 /\ T("StockNotReserved", i) = 0
      /\ T("PaymentCompleted", i) = 0 /\ T("PaymentFailed", i) = 0
      /\ T("PaymentStarted", i) = (IF e = "StockReserved" THEN 1 ELSE 0)
      /\ T("OrderCompleted", i[1]) = (IF e = "PaymentCompleted" THEN 1 ELSE 0)
      /\ T("OrderFailed", i[1]) = (IF e \in {"StockNotReserved", "PaymentFailed"} THEN 1 ELSE 0)
  <2> HIDE DEF in
  <2>1. CASE e = "StockReserved"
    BY <1>3, <2>1, MessageEq
  <2>2. CASE e = "StockNotReserved"
    BY <1>3, <2>2, MessageEq
  <2>3. CASE e = "PaymentCompleted"
    BY <1>3, <2>3, MessageEq
  <2>4. CASE e = "PaymentFailed"
    BY <1>3, <2>4, MessageEq
  <2> QED
    BY <2>1, <2>2, <2>3, <2>4 DEF SagaEvents
<1>5. Mail(i) \in Nat /\ Verdicts(i[1]) \in Nat
  BY <1>a, Counts, Kinds DEF Mail, Verdicts
<1>6. Mail(i)' + Verdicts(i[1])' = Mail(i) + Verdicts(i[1])
  <2> HIDE DEF T
  <2> QED
    BY <1>2, <1>4, <1>5 DEF SagaEvents
<1>7. Waiting("StockReserved", i)' + Waiting("PaymentStarted", i)'
            <= Waiting("StockReserved", i) + Waiting("PaymentStarted", i)
  <2>1. /\ Message("StockReserved", i) \in Messages /\ Message("PaymentStarted", i) \in Messages
        /\ Waiting("StockReserved", i) \in Nat /\ Waiting("PaymentStarted", i) \in Nat
    BY <1>a, Kinds, Counts
  <2>2. /\ Waiting("StockReserved", i)' = Waiting("StockReserved", i) + T("StockReserved", i)
                - (IF Message("StockReserved", i) \in {Message(e, i)} THEN 1 ELSE 0)
        /\ Waiting("PaymentStarted", i)' = Waiting("PaymentStarted", i) + T("PaymentStarted", i)
                - (IF Message("PaymentStarted", i) \in {Message(e, i)} THEN 1 ELSE 0)
    <3> HIDE DEF in
    <3> QED
      BY <1>a, <1>1, <2>1, Moves
  <2>3. /\ Message("StockReserved", i) \in {Message(e, i)} <=> e = "StockReserved"
        /\ Message("PaymentStarted", i) \notin {Message(e, i)}
    BY MessageEq DEF SagaEvents
  <2> HIDE DEF T
  <2> QED
    BY <1>4, <2>1, <2>2, <2>3
<1> QED
  BY <1>2, <1>6, <1>7

LEMMA ReactCalm ==
    ASSUME CauseInv, DrawsCounted, crashes = 0, NEW i \in Instances, saga[i] # "unborn",
           Calm(i), NEW j \in Instances, NEW e \in SagaEvents, React(j, e)
    PROVE  Calm(i)'
<1>a. Shape /\ i[1] \in Orders
  BY MessageFacts DEF CauseInv
<1>1. UNCHANGED <<step, answers, order, payments>> /\ saga[j] # "unborn"
  BY DEF React, Accepts, stockVars
<1>2. Hand(i)' = Hand(i) /\ InHand(i)' = InHand(i) /\ Unpaid(i)' = Unpaid(i)
  BY <1>1 DEF Hand, InHand, Unpaid
<1>3. CASE i = j
  <2>1. /\ Mail(i)' + Verdicts(i[1])' = Mail(i) + Verdicts(i[1])
        /\ Waiting("StockReserved", i)' + Waiting("PaymentStarted", i)'
              <= Waiting("StockReserved", i) + Waiting("PaymentStarted", i)
    BY <1>3, ReactKeepsDue
  <2>2. /\ Mail(i) \in Nat /\ Verdicts(i[1]) \in Nat /\ Hand(i) \in Nat
        /\ Waiting("StockReserved", i) \in Nat /\ Waiting("PaymentStarted", i) \in Nat
    BY <1>a, Counts, Kinds DEF Mail, Verdicts
  <2>3. queue' \in [Messages -> Nat]
    BY <1>a, Exchanged DEF React
  <2>4. /\ Mail(i)' \in Nat /\ Verdicts(i[1])' \in Nat
        /\ Waiting("StockReserved", i)' \in Nat /\ Waiting("PaymentStarted", i)' \in Nat
    BY <2>3, Kinds DEF Mail, Verdicts, Waiting
  <2>5. Due(i)' = Due(i)
    BY <1>2, <2>1, <2>2, <2>4 DEF Due
  <2>6. Waiting("StockReserved", i)' + Waiting("PaymentStarted", i)' > 0 =>
            Waiting("StockReserved", i) + Waiting("PaymentStarted", i) > 0
    BY <2>1, <2>2, <2>4
  <2> QED
    BY <1>1, <1>2, <2>5, <2>6 DEF Calm
<1>4. CASE i # j
  <2>1. i[1] # j[1]
    BY <1>1, <1>4, DrawnOnce
  <2>2. \A m \in {Message(e, j)} \union FirstSends(j, e, Len(Sends(j, e))) :
            /\ m.event \in InstanceEvents => m.of = j
            /\ m.event \in OrderEvents => m.of = j[1]
    BY MessageFacts DEF FirstSends, Sends, SagaEvents, InstanceEvents, OrderEvents
  <2>3. /\ \A f \in {"StockReserved", "StockNotReserved", "PaymentStarted",
                     "PaymentCompleted", "PaymentFailed"} : Waiting(f, i)' = Waiting(f, i)
        /\ \A f \in {"OrderCompleted", "OrderFailed"} : Waiting(f, i[1])' = Waiting(f, i[1])
    BY <1>a, <1>4, <2>1, <2>2, MovedAside, Kinds DEF React
  <2> QED
    BY <1>1, <1>2, <2>3, AsideCalm DEF Aside
<1> QED
  BY <1>3, <1>4
LEMMA RefusedCalm ==
    ASSUME CauseInv, NEW i \in Instances, saga[i] # "unborn", Calm(i), NEW j \in Instances,
           StockRollsBack(j) \/ \E e \in SagaEvents : ReactRefused(j, e)
    PROVE  Calm(i)'
<1>a. Shape /\ i[1] \in Orders
  BY MessageFacts DEF CauseInv
<1>1. UNCHANGED <<step, answers, order, payments>>
  BY DEF StockRollsBack, ReactRefused, stockVars
<1>2. Hand(i)' = Hand(i) /\ InHand(i)' = InHand(i) /\ Unpaid(i)' = Unpaid(i)
  BY <1>1 DEF Hand, InHand, Unpaid
<1>3. ASSUME NEW e \in SagaEvents, ReactRefused(j, e), i = j
      PROVE  Calm(i)'
  <2>1. Exchange({Message(e, i)}, {})
    BY <1>3 DEF ReactRefused
  <2>2. Mail(i)' = Mail(i) - 1 /\ Verdicts(i[1])' = Verdicts(i[1]) /\ Waiting(e, i) > 0
    <3>1. /\ Waiting(e, i) > 0
          /\ Mail(i)' = Mail(i) - 1 + 0 + 0 + 0 + 0 + 0
          /\ Verdicts(i[1])' = Verdicts(i[1]) + 0 + 0
      BY <1>a, <2>1, MovesOne
    <3>2. Mail(i) \in Nat /\ Verdicts(i[1]) \in Nat
      BY <1>a, Counts, Kinds DEF Mail, Verdicts
    <3> QED
      BY <3>1, <3>2
  <2>3. /\ Mail(i) \in Nat /\ Verdicts(i[1]) \in Nat /\ Hand(i) \in Nat
        /\ Waiting("StockReserved", i) \in Nat /\ Waiting("PaymentStarted", i) \in Nat
    BY <1>a, Counts, Kinds DEF Mail, Verdicts
  <2>4. queue' \in [Messages -> Nat]
    BY <1>a, <2>1, Exchanged
  <2>5. Mail(i)' \in Nat
    BY <2>4, Kinds DEF Mail, Waiting
  <2>6. /\ Waiting("StockReserved", i)' <= Waiting("StockReserved", i)
        /\ Waiting("PaymentStarted", i)' <= Waiting("PaymentStarted", i)
        /\ Waiting("StockReserved", i)' \in Nat /\ Waiting("PaymentStarted", i)' \in Nat
    <3>1. \A f \in {"StockReserved", "PaymentStarted"} :
              Message(f, i) \in Messages /\ Waiting(f, i) \in Nat /\ Waiting(f, i)' \in Nat
      BY <1>a, <2>4, Kinds, Counts DEF Waiting
    <3>2. \A f \in {"StockReserved", "PaymentStarted"} :
              Waiting(f, i)' = Waiting(f, i) + 0
                                 - (IF Message(f, i) \in {Message(e, i)} THEN 1 ELSE 0)
      BY <1>a, <2>1, <3>1, Moves
    <3> QED
      BY <3>1, <3>2
  <2>7. Due(i) = 1 /\ Due(i)' = 0
    BY <1>2, <2>2, <2>3, <2>5 DEF Due, Calm
  <2>8. Waiting("StockReserved", i)' + Waiting("PaymentStarted", i)' > 0 =>
            Waiting("StockReserved", i) + Waiting("PaymentStarted", i) > 0
    BY <2>3, <2>6
  <2> QED
    BY <1>1, <1>2, <2>7, <2>8 DEF Calm
<1>4. ASSUME NEW m \in Messages, Exchange({m}, {}),
             /\ m.of # i \/ m.event = "StockRollBack"
             /\ m.event \in InstanceEvents
      PROVE  Calm(i)'
  <2>1. /\ \A f \in {"StockReserved", "StockNotReserved", "PaymentStarted",
                     "PaymentCompleted", "PaymentFailed"} : Waiting(f, i)' = Waiting(f, i)
        /\ \A f \in {"OrderCompleted", "OrderFailed"} : Waiting(f, i[1])' = Waiting(f, i[1])
    BY <1>a, <1>4, MovedAside DEF InstanceEvents, SagaEvents
  <2> QED
    BY <1>1, <1>2, <2>1, AsideCalm DEF Aside
<1>5. ASSUME NEW e \in SagaEvents, ReactRefused(j, e), i # j
      PROVE  Calm(i)'
  <2>1. /\ Message(e, j) \in Messages /\ Message(e, j).of = j
        /\ Message(e, j).event \in InstanceEvents
    BY MessageFacts
  <2> QED
    BY <1>4, <1>5, <2>1 DEF ReactRefused
<1>6. CASE StockRollsBack(j)
  <2>1. /\ Message("StockRollBack", j) \in Messages
        /\ Message("StockRollBack", j).event = "StockRollBack"
    BY MessageFacts DEF InstanceEvents
  <2>2. Exchange({Message("StockRollBack", j)}, {})
    BY <1>6 DEF StockRollsBack
  <2>3. Message("StockRollBack", j).event \in InstanceEvents
    BY <2>1 DEF InstanceEvents
  <2> QED
    BY <1>4, <2>1, <2>2, <2>3
<1> QED
  BY <1>3, <1>5, <1>6

LEMMA StockWorksCalm ==
    ASSUME CauseInv, NEW i \in Instances, saga[i] # "unborn", Calm(i), NEW j \in Instances,
           StockWorks(j)
    PROVE  Calm(i)'
<1>1. UNCHANGED <<answers, order, payments, queue>>
  BY DEF StockWorks, Stock!Deliver, Stock!CheckItem, Stock!Decide, Stock!ReadItem,
         Stock!ReplaceItem, Stock!Acknowledge
<1>2. InHand(i)' <=> InHand(i)
  <2>1. CASE Stock!CheckItem(j)
    BY <2>1 DEF Stock!CheckItem, InHand
  <2>2. CASE Stock!Deliver(j)
    BY <2>2 DEF Stock!Deliver, InHand, CauseInv, Shape
  <2>3. CASE Stock!Decide(j)
    <3>1. PICK s \in {"reserve", "refuse"} : step' = [step EXCEPT ![j] = s] /\ step[j] = "check"
      BY <2>3 DEF Stock!Decide
    <3> QED
      BY <3>1 DEF InHand, CauseInv, Shape
  <2>4. CASE Stock!ReadItem(j)
    BY <2>4 DEF Stock!ReadItem, InHand, CauseInv, Shape
  <2>5. CASE Stock!ReplaceItem(j)
    BY <2>5 DEF Stock!ReplaceItem, InHand, CauseInv, Shape
  <2>6. CASE Stock!Acknowledge(j)
    BY <2>6 DEF Stock!Acknowledge, InHand, CauseInv, Shape
  <2> QED
    BY <2>1, <2>2, <2>3, <2>4, <2>5, <2>6 DEF StockWorks
<1> QED
  BY <1>1, <1>2, AsideCalm DEF Aside, Hand, Unpaid, Waiting

LEMMA StockAnswersCalm ==
    ASSUME CauseInv, NEW i \in Instances, saga[i] # "unborn", Calm(i), NEW j \in Instances,
           StockAnswers(j)
    PROVE  Calm(i)'
<1>a. Shape /\ i[1] \in Orders
  BY MessageFacts DEF CauseInv
<1>1. PICK e \in {"StockReserved", "StockNotReserved"}, a \in Stock!Answers :
          /\ step[j] \in {"reserve", "refuse"}
          /\ Stock!Answer(j, a)
          /\ Exchange({}, {Message(e, j)})
          /\ UNCHANGED <<order, payments>>
  BY DEF StockAnswers, Stock!SendStockReserved, Stock!PublishStockNotReserved, Stock!Answers
<1>2. /\ step' = [step EXCEPT ![j] = "sent"]
      /\ answers' = [answers EXCEPT ![j] = @ \union {a}]
  BY <1>1 DEF Stock!Answer
<1>3. CASE i # j
  <2>1. step'[i] = step[i] /\ answers'[i] = answers[i]
    BY <1>a, <1>2, <1>3 DEF Shape
  <2>2. /\ \A f \in {"StockReserved", "StockNotReserved", "PaymentStarted",
                     "PaymentCompleted", "PaymentFailed"} : Waiting(f, i)' = Waiting(f, i)
        /\ \A f \in {"OrderCompleted", "OrderFailed"} : Waiting(f, i[1])' = Waiting(f, i[1])
    BY <1>a, <1>1, <1>3, MovedAside, MessageFacts
  <2> QED
    BY <1>1, <2>1, <2>2, AsideCalm DEF Aside, Hand, InHand, Unpaid
<1>4. CASE i = j
  <2>1. InHand(i) /\ ~InHand(i)' /\ Hand(i) = 1 /\ Hand(i)' = 0
    BY <1>a, <1>1, <1>2, <1>4 DEF InHand, Hand, Shape
  <2>2. answers[i] = {} /\ Unpaid(i) /\ Unpaid(i)'
    BY <1>1, <2>1 DEF Calm, CauseInv, SagasCaused, Unpaid
  <2>3. Mail(i)' = Mail(i) + 1 /\ Verdicts(i[1])' = Verdicts(i[1])
    <3>1. ASSUME NEW f \in InstanceEvents
          PROVE  Waiting(f, i)' = Waiting(f, i) + (IF f = e THEN 1 ELSE 0)
      <4>1. Message(f, i) \in Messages /\ Waiting(f, i) \in Nat
        BY <1>a, Kinds, Counts
      <4>2. Waiting(f, i)' = Waiting(f, i)
                + (IF Message(f, i) \in {Message(e, j)} THEN 1 ELSE 0) - 0
        BY <1>a, <1>1, <4>1, Moves
      <4>3. Message(f, i) \in {Message(e, j)} <=> f = e
        BY <1>4, MessageEq
      <4> QED
        BY <4>1, <4>2, <4>3
    <3>2. ASSUME NEW f \in {"OrderCompleted", "OrderFailed"}
          PROVE  Waiting(f, i[1])' = Waiting(f, i[1])
      <4>1. Message(f, i[1]) \in Messages /\ Message(f, i[1]) \notin {} \union {Message(e, j)}
        BY <1>1, Kinds, MessageEq
      <4> QED
        BY <1>a, <1>1, <4>1, Exchanged DEF Waiting
    <3>3. /\ Waiting("StockReserved", i) \in Nat /\ Waiting("StockNotReserved", i) \in Nat
          /\ Waiting("PaymentStarted", i) \in Nat /\ Waiting("PaymentCompleted", i) \in Nat
          /\ Waiting("PaymentFailed", i) \in Nat
      BY <1>a, Counts, Kinds
    <3>4. /\ Waiting("PaymentStarted", i)' = Waiting("PaymentStarted", i) + 0
          /\ Waiting("PaymentCompleted", i)' = Waiting("PaymentCompleted", i) + 0
          /\ Waiting("PaymentFailed", i)' = Waiting("PaymentFailed", i) + 0
          /\ Waiting("StockReserved", i)' = Waiting("StockReserved", i)
                 + (IF e = "StockReserved" THEN 1 ELSE 0)
          /\ Waiting("StockNotReserved", i)' = Waiting("StockNotReserved", i)
                 + (IF e = "StockReserved" THEN 0 ELSE 1)
      BY <1>1, <3>1, Kinds
    <3>5. Verdicts(i[1])' = Verdicts(i[1])
      BY <3>2 DEF Verdicts
    <3>6. Mail(i)' = Mail(i) + 1
      BY <3>3, <3>4 DEF Mail
    <3> QED
      BY <3>5, <3>6
  <2>4. Mail(i) \in Nat /\ Verdicts(i[1]) \in Nat
    BY <1>a, Counts, Kinds DEF Mail, Verdicts
  <2>5. Due(i) = 1 /\ Due(i)' = 1
    BY <2>1, <2>3, <2>4 DEF Due, Calm
  <2> QED
    BY <1>1, <2>1, <2>2, <2>5 DEF Calm
<1> QED
  BY <1>3, <1>4
LEMMA PaymentCalm ==
    ASSUME CauseInv, NEW i \in Instances, saga[i] # "unborn", Calm(i), NEW j \in Instances,
           NEW paid \in PaymentAnswers, PaymentConsumes(j, paid)
    PROVE  Calm(i)'
<1>a. Shape /\ i[1] \in Orders
  BY MessageFacts DEF CauseInv
<1>1. PICK e \in {"PaymentCompleted", "PaymentFailed"} :
          /\ Exchange({Message("PaymentStarted", j)}, {Message(e, j)})
          /\ UNCHANGED <<step, answers, order>>
          /\ payments' = [payments EXCEPT ![j] = @ \union {paid}]
  BY DEF PaymentConsumes, Pay, PaymentEvent, stockVars
<1>2. Hand(i)' = Hand(i) /\ InHand(i)' = InHand(i)
  BY <1>1 DEF Hand, InHand
<1>3. CASE i # j
  <2>1. Unpaid(i)' = Unpaid(i)
    BY <1>a, <1>1, <1>3 DEF Unpaid, Shape
  <2>2. /\ \A f \in {"StockReserved", "StockNotReserved", "PaymentStarted",
                     "PaymentCompleted", "PaymentFailed"} : Waiting(f, i)' = Waiting(f, i)
        /\ \A f \in {"OrderCompleted", "OrderFailed"} : Waiting(f, i[1])' = Waiting(f, i[1])
    BY <1>a, <1>1, <1>3, MovedAside, MessageFacts
  <2> QED
    BY <1>1, <1>2, <2>1, <2>2, AsideCalm DEF Aside
<1>4. CASE i = j
  <2> DEFINE in == {Message(e, i)}
             T(f, x) == IF Message(f, x) \in in THEN 1 ELSE 0
  <2>1. Exchange({Message("PaymentStarted", i)}, in)
    BY <1>1, <1>4
  <2>2. /\ Waiting("PaymentStarted", i) > 0
        /\ Mail(i)' = Mail(i) - 1 + T("StockReserved", i) + T("StockNotReserved", i)
              + T("PaymentStarted", i) + T("PaymentCompleted", i) + T("PaymentFailed", i)
        /\ Verdicts(i[1])' = Verdicts(i[1]) + T("OrderCompleted", i[1])
              + T("OrderFailed", i[1])
    <3> HIDE DEF in
    <3> QED
      BY <1>a, <2>1, MovesOne
  <2>3. /\ T("StockReserved", i) = 0 /\ T("StockNotReserved", i) = 0
        /\ T("PaymentStarted", i) = 0
        /\ T("PaymentCompleted", i) = (IF e = "PaymentCompleted" THEN 1 ELSE 0)
        /\ T("PaymentFailed", i) = (IF e = "PaymentCompleted" THEN 0 ELSE 1)
        /\ T("OrderCompleted", i[1]) = 0 /\ T("OrderFailed", i[1]) = 0
    BY <1>1, MessageEq
  <2>4. /\ Mail(i) \in Nat /\ Verdicts(i[1]) \in Nat
        /\ Waiting("StockReserved", i) \in Nat /\ Waiting("StockNotReserved", i) \in Nat
        /\ Waiting("PaymentStarted", i) \in Nat /\ Waiting("PaymentCompleted", i) \in Nat
        /\ Waiting("PaymentFailed", i) \in Nat
    BY <1>a, Counts, Kinds DEF Mail, Verdicts
  <2>5. Hand(i) \in 0 .. 1
    BY DEF Hand
  <2>6. Mail(i)' = Mail(i) /\ Verdicts(i[1])' = Verdicts(i[1])
    <3> HIDE DEF T
    <3> QED
      BY <2>2, <2>3, <2>4
  <2>7. Waiting("PaymentStarted", i) = 1 /\ Waiting("StockReserved", i) = 0
    <3>1. Hand(i) + Mail(i) + Verdicts(i[1]) <= 1
      BY DEF Calm, Due
    <3>2. Mail(i) <= 1
      BY <2>4, <2>5, <3>1
    <3>3. Waiting("PaymentStarted", i) > 0
      BY <2>2
    <3>4. ASSUME NEW a \in Nat, NEW b \in Nat, NEW c \in Nat, NEW d \in Nat, NEW f \in Nat,
                 c > 0, a + b + c + d + f <= 1
          PROVE  c = 1 /\ a = 0
      BY <3>4
    <3> HIDE DEF T
    <3> QED
      BY <2>4, <3>2, <3>3, <3>4 DEF Mail
  <2>8. Waiting("PaymentStarted", i)' = 0 /\ Waiting("StockReserved", i)' = 0
    <3>1. Message("PaymentStarted", i) \in Messages /\ Message("StockReserved", i) \in Messages
      BY Kinds
    <3>2. /\ Waiting("PaymentStarted", i)' = Waiting("PaymentStarted", i)
                + T("PaymentStarted", i)
                - (IF Message("PaymentStarted", i) \in {Message("PaymentStarted", i)}
                      THEN 1 ELSE 0)
          /\ Waiting("StockReserved", i)' = Waiting("StockReserved", i) + T("StockReserved", i)
                - (IF Message("StockReserved", i) \in {Message("PaymentStarted", i)}
                      THEN 1 ELSE 0)
      <4> HIDE DEF in
      <4> QED
        BY <1>a, <2>1, <3>1, Moves
    <3>3. Message("StockReserved", i) \notin {Message("PaymentStarted", i)}
      BY MessageEq
    <3> HIDE DEF T
    <3> QED
      BY <2>3, <2>7, <3>2, <3>3
  <2>9. Due(i)' = Due(i)
    BY <1>2, <2>6 DEF Due
  <2> QED
    BY <1>1, <1>2, <2>8, <2>9 DEF Calm
<1> QED
  BY <1>3, <1>4

LEMMA CalmStep == CauseInv /\ CauseInv' /\ DrawsCounted /\ CalmInv /\ [Next]_vars => CalmInv'
<1> SUFFICES ASSUME CauseInv, CauseInv', DrawsCounted, CalmInv, [Next]_vars, crashes' = 0,
                    NEW i \in Instances, saga'[i] # "unborn"
             PROVE  Calm(i)'
  BY DEF CalmInv
<1>1. CASE UNCHANGED vars
  BY <1>1 DEF vars, stockVars, CalmInv, Calm, Due, Hand, InHand, Mail, Verdicts, Waiting, Unpaid
<1>2. CASE Next
  <2>1. crashes \in Nat
    BY MaxCrashesAssumption DEF CauseInv, Shape
  <2>2. PICK o \in Orders : CreateOrder(o) \/ Proceed(o)
    <3>1. ~Die
      BY <2>1 DEF Die
    <3>2. StockCrash => Die
      BY DEF StockCrash
    <3>3. \A o \in Orders : Interrupt(o) => Die
      BY DEF Interrupt, OrderCrash, OrderUnacked, StartUnsaved, StartUnacked,
             StartCutShort, ReactUnsaved, ReactUnacked, PaymentUnacked
    <3> QED
      BY <1>2, <3>1, <3>2, <3>3 DEF Next
  <2>3. crashes = 0
    BY <2>2 DEF CreateOrder, Proceed, SendOrderStarted, OrderConsumes, StartInstance,
                InsertInstance, StartRefused, React, ReactRefused, StockWorks, StockAnswers, StockRollsBack,
                PaymentConsumes
  <2>4. CASE StartInstance(o)
    BY <2>3, <2>4, StartCalm DEF CalmInv
  <2>5. CASE ~StartInstance(o)
    <3>1. saga[i] # "unborn"
      <4>1. \/ saga' = saga
            \/ \E j \in Instances, e \in SagaEvents : React(j, e)
            \/ \E j \in Instances : InsertInstance(j)
        BY <2>2, <2>5, MessageFacts
        DEF CreateOrder, Proceed, SendOrderStarted, OrderConsumes, StartRefused, ReactRefused,
            StockWorks, StockAnswers, StockRollsBack, PaymentConsumes, Pay
      <4>2. ASSUME NEW j \in Instances, NEW e \in SagaEvents, React(j, e), saga[i] = "unborn"
            PROVE  FALSE
        <5>1. saga' = [saga EXCEPT ![j] = NextState[e]] /\ saga[j] # "unborn"
          BY <4>2 DEF React, Accepts
        <5> QED
          BY <4>2, <5>1 DEF CauseInv, Shape
      <4>3. ASSUME NEW j \in Instances, InsertInstance(j), saga[i] = "unborn"
            PROVE  FALSE
        BY <4>3 DEF InsertInstance, CauseInv, Shape
      <4> QED
        BY <4>1, <4>2, <4>3
    <3>2. Calm(i)
      BY <2>3, <3>1 DEF CalmInv
    <3>3. CASE CreateOrder(o) \/ SendOrderStarted(o) \/ StartRefused(o)
      BY <2>3, <3>1, <3>2, <3>3, OrderApiCalm
    <3>4. CASE \E e \in OrderEvents : OrderConsumes(o, e)
      BY <3>1, <3>2, <3>4, OrderConsumesCalm
    <3>5. ASSUME NEW j \in InstancesOf(o),
                 \/ InsertInstance(j)
                 \/ \E e \in SagaEvents : React(j, e) \/ ReactRefused(j, e)
                 \/ StockWorks(j) \/ StockAnswers(j) \/ StockRollsBack(j)
                 \/ \E paid \in PaymentAnswers : PaymentConsumes(j, paid)
          PROVE  Calm(i)'
      <4>1. j \in Instances
        BY MessageFacts
      <4> QED
        BY <2>3, <3>1, <3>2, <3>5, <4>1, InsertCalm, ReactCalm, RefusedCalm,
           StockWorksCalm, StockAnswersCalm, PaymentCalm
    <3> QED
      BY <2>2, <2>5, <3>3, <3>4, <3>5 DEF Proceed
  <2> QED
    BY <2>4, <2>5
<1> QED
  BY <1>1, <1>2

SagaInv == CauseInv /\ DrawsCounted /\ CalmInv

LEMMA SagaInvHolds == Spec => []SagaInv
<1>1. Init => CalmInv
  BY DEF Init, CalmInv
<1> QED
  BY <1>1, CauseInvHolds, DrawsCountedHolds, CalmStep, PTL DEF Spec, SagaInv
-----------------------------------------------------------------------------
(* The orchestrated saga is an OrderProcess. *)

AnyOf(f, o) == UNION {f[i] : i \in InstancesOf(o)}

Gathered(f) == [o \in Orders |-> AnyOf(f, o)]

LEMMA GatheredGrows ==
    ASSUME NEW S, NEW f \in [Instances -> SUBSET S], NEW a, NEW o \in Orders,
           NEW i \in InstancesOf(o)
    PROVE  Gathered([f EXCEPT ![i] = @ \union {a}]) = [Gathered(f) EXCEPT ![o] = @ \union {a}]
<1> DEFINE g == [f EXCEPT ![i] = @ \union {a}]
<1>1. i \in Instances /\ i[1] = o
  BY MessageFacts
<1>2. \A j \in Instances : g[j] = IF j = i THEN f[i] \union {a} ELSE f[j]
  BY <1>1
<1> HIDE DEF g
<1>3. ASSUME NEW p \in Orders
      PROVE  AnyOf(g, p) = IF p = o THEN AnyOf(f, p) \union {a} ELSE AnyOf(f, p)
  <2>1. \A j \in InstancesOf(p) : j \in Instances /\ j[1] = p
    BY MessageFacts
  <2>2. CASE p = o
    <3>1. \A x : (\E j \in InstancesOf(p) : x \in g[j])
                    <=> (\E j \in InstancesOf(p) : x \in f[j]) \/ x = a
      <4>1. ASSUME NEW x, NEW j \in InstancesOf(p), x \in g[j]
            PROVE  (\E k \in InstancesOf(p) : x \in f[k]) \/ x = a
        <5>1. g[j] = IF j = i THEN f[i] \union {a} ELSE f[j]
          BY <1>2, <2>1
        <5> QED
          BY <2>2, <4>1, <5>1
      <4>2. ASSUME NEW x, NEW j \in InstancesOf(p), x \in f[j]
            PROVE  \E k \in InstancesOf(p) : x \in g[k]
        BY <1>2, <2>1, <4>2
      <4>3. a \in g[i]
        BY <1>1, <1>2
      <4> QED
        BY <2>2, <4>1, <4>2, <4>3
    <3>2. \A x : x \in AnyOf(g, p) <=> \E j \in InstancesOf(p) : x \in g[j]
      BY DEF AnyOf
    <3>3. \A x : x \in AnyOf(f, p) <=> \E j \in InstancesOf(p) : x \in f[j]
      BY DEF AnyOf
    <3>4. \A x : x \in AnyOf(g, p) <=> x \in AnyOf(f, p) \union {a}
      BY <3>1, <3>2, <3>3
    <3> QED
      BY <2>2, <3>4
  <2>3. CASE p # o
    <3>1. \A j \in InstancesOf(p) : g[j] = f[j]
      BY <1>1, <1>2, <2>1, <2>3
    <3> QED
      BY <2>3, <3>1 DEF AnyOf
  <2> QED
    BY <2>2, <2>3
<1>4. [p \in Orders |-> AnyOf(g, p)]
          = [[p \in Orders |-> AnyOf(f, p)] EXCEPT ![o] = @ \union {a}]
  BY <1>3
<1> QED
  BY <1>4 DEF Gathered, g

LEMMA ProcessInit == Init => Process!Init
<1> SUFFICES ASSUME Init PROVE Process!Init
  OBVIOUS
<1>1. \A o \in Orders : \A i \in InstancesOf(o) : answers[i] = {} /\ payments[i] = {}
  BY MessageFacts DEF Init, Stock!Init
<1>2. \A o \in Orders : /\ UNION {answers[i] : i \in InstancesOf(o)} = {}
                        /\ UNION {payments[i] : i \in InstancesOf(o)} = {}
  BY <1>1
<1>3. /\ [o \in Orders |-> UNION {answers[i] : i \in InstancesOf(o)}] = [o \in Orders |-> {}]
      /\ [o \in Orders |-> UNION {payments[i] : i \in InstancesOf(o)}] = [o \in Orders |-> {}]
  BY <1>2, Zenon
<1>4. (crashes > 0) = FALSE
  BY DEF Init
<1> QED
  BY <1>3, <1>4, Zenon DEF Init, Process!Init

\* Stock.API is asked once, while the order is suspended.
LEMMA StockAnswersOnce ==
    ASSUME SagaInv, NEW o \in Orders, NEW i \in InstancesOf(o), StockAnswers(i)
    PROVE  Process!Next
<1>a. Shape /\ i \in Instances /\ i[1] = o
  BY MessageFacts DEF SagaInv, CauseInv
<1>1. PICK a \in {"reserved", "notReserved"} :
          /\ step[i] \in {"reserve", "refuse"}
          /\ answers' = [answers EXCEPT ![i] = @ \union {a}]
          /\ UNCHANGED <<order, payments, crashes>>
  BY DEF StockAnswers, Stock!SendStockReserved, Stock!PublishStockNotReserved, Stock!Answer
<1>2. saga[i] # "unborn"
  BY <1>a, <1>1 DEF SagaInv, CauseInv, UnbornUnserved
<1>3. order[o] # "none"
  <2>1. i \in Drawn(o)
    BY <1>2 DEF Drawn
  <2> QED
    BY <2>1 DEF SagaInv, DrawsCounted, DrawnInv
<1>4. crashes = 0 => /\ order[o] = "Suspend"
                     /\ \A j \in InstancesOf(o) : answers[j] = {}
  <2> SUFFICES ASSUME crashes = 0
               PROVE  /\ order[o] = "Suspend"
                      /\ \A j \in InstancesOf(o) : answers[j] = {}
    OBVIOUS
  <2>1. Calm(i) /\ InHand(i) /\ Hand(i) = 1
    BY <1>a, <1>1, <1>2 DEF SagaInv, CalmInv, InHand, Hand
  <2>2. Mail(i) \in Nat /\ Verdicts(i[1]) \in Nat
    BY <1>a, Counts, Kinds DEF Mail, Verdicts
  <2>3. Due(i) > 0
    BY <2>1, <2>2 DEF Due
  <2>4. order[o] = "Suspend" /\ answers[i] = {}
    BY <1>a, <2>1, <2>3 DEF Calm
  <2>5. ASSUME NEW j \in InstancesOf(o)
        PROVE  answers[j] = {}
    <3>1. j \in Instances /\ j[1] = o
      BY MessageFacts
    <3>2. CASE saga[j] = "unborn"
      BY <3>1, <3>2 DEF SagaInv, CauseInv, UnbornUnserved
    <3>3. CASE saga[j] # "unborn"
      BY <1>a, <1>2, <2>4, <3>1, <3>3, DrawnOnce DEF SagaInv
    <3> QED
      BY <3>2, <3>3
  <2> QED
    BY <2>4, <2>5
<1>5. Gathered(answers)' = [Gathered(answers) EXCEPT ![o] = @ \union {a}]
  <2>1. Gathered([answers EXCEPT ![i] = @ \union {a}])
          = [Gathered(answers) EXCEPT ![o] = @ \union {a}]
    <3>1. answers \in [Instances -> SUBSET Stock!Answers]
      BY <1>a DEF Shape
    <3> QED
      BY <3>1, GatheredGrows
  <2>2. Gathered(answers)' = Gathered(answers')
    BY DEF Gathered, AnyOf, InstancesOf
  <2> QED
    BY <1>1, <2>1, <2>2
<1>6. crashes' > 0 \/ (order[o] = "Suspend" /\ Gathered(answers)[o] = {})
  BY <1>1, <1>4, DrawnTypes, <1>a DEF Gathered, AnyOf
<1>7. Process!AnswerStock(o, a)
  BY <1>1, <1>3, <1>5, <1>6 DEF Process!AnswerStock, Gathered, AnyOf, InstancesOf
<1> QED
  BY <1>1, <1>7 DEF Process!Next, Process!Serve
\* Payment.API is asked once, for stock that is reserved.
LEMMA PaymentOnce ==
    ASSUME SagaInv, NEW o \in Orders, NEW i \in InstancesOf(o), NEW paid \in PaymentAnswers,
           PaymentConsumes(i, paid) \/ PaymentUnacked(i, paid)
    PROVE  Process!Next
<1>a. /\ Shape /\ i \in Instances /\ i[1] = o /\ crashes \in Nat
      /\ Message("PaymentStarted", i) \in Messages
  BY MessageFacts, MaxCrashesAssumption, Kinds DEF SagaInv, CauseInv, Shape
<1>b. paid \in BOOLEAN
  BY PaymentAnswersAssumption
<1>1. /\ Waiting("PaymentStarted", i) > 0
      /\ payments' = [payments EXCEPT ![i] = @ \union {paid}]
      /\ UNCHANGED <<order, answers>>
      /\ crashes' = crashes \/ crashes' = crashes + 1
  BY DEF PaymentConsumes, PaymentUnacked, Pay, Exchange, Waiting, Die, stockVars
<1>2. "reserved" \in answers[i]
  <2>1. Cause(Message("PaymentStarted", i))
    BY <1>a, <1>1 DEF SagaInv, CauseInv, MessagesCaused, Waiting
  <2> QED
    BY <2>1, MessageFacts DEF Cause
<1>3. "reserved" \in Gathered(answers)[o]
  BY <1>2 DEF Gathered, AnyOf
<1>4. saga[i] # "unborn"
  BY <1>a, <1>2 DEF SagaInv, CauseInv, UnbornUnserved
<1>5. crashes = 0 => order[o] = "Suspend" /\ \A j \in InstancesOf(o) : payments[j] = {}
  <2> SUFFICES ASSUME crashes = 0
               PROVE  order[o] = "Suspend" /\ \A j \in InstancesOf(o) : payments[j] = {}
    OBVIOUS
  <2>1. Calm(i)
    BY <1>a, <1>4 DEF SagaInv, CalmInv
  <2>2. /\ Waiting("StockReserved", i) \in Nat /\ Waiting("StockNotReserved", i) \in Nat
        /\ Waiting("PaymentStarted", i) \in Nat /\ Waiting("PaymentCompleted", i) \in Nat
        /\ Waiting("PaymentFailed", i) \in Nat
        /\ Verdicts(i[1]) \in Nat /\ Hand(i) \in Nat
    BY <1>a, Counts, Kinds DEF Verdicts
  <2>3. Mail(i) > 0 /\ Mail(i) \in Nat
    BY <1>1, <2>2 DEF Mail
  <2>4. Due(i) > 0
    BY <2>2, <2>3 DEF Due
  <2>5. Waiting("StockReserved", i) + Waiting("PaymentStarted", i) > 0
    BY <1>1, <2>2
  <2>6. order[o] = "Suspend" /\ payments[i] = {}
    BY <1>a, <2>1, <2>4, <2>5 DEF Calm, Unpaid
  <2>7. ASSUME NEW j \in InstancesOf(o)
        PROVE  payments[j] = {}
    <3>1. j \in Instances /\ j[1] = o
      BY MessageFacts
    <3>2. CASE saga[j] = "unborn"
      BY <3>1, <3>2 DEF SagaInv, CauseInv, UnbornUnserved, SagasCaused
    <3>3. CASE saga[j] # "unborn"
      BY <1>a, <1>4, <2>6, <3>1, <3>3, DrawnOnce DEF SagaInv
    <3> QED
      BY <3>2, <3>3
  <2> QED
    BY <2>6, <2>7
<1>6. Gathered(payments)' = [Gathered(payments) EXCEPT ![o] = @ \union {paid}]
  <2>1. Gathered([payments EXCEPT ![i] = @ \union {paid}])
          = [Gathered(payments) EXCEPT ![o] = @ \union {paid}]
    <3>1. payments \in [Instances -> SUBSET BOOLEAN]
      BY <1>a DEF Shape
    <3> QED
      BY <3>1, GatheredGrows
  <2>2. Gathered(payments)' = Gathered(payments')
    BY DEF Gathered, AnyOf, InstancesOf
  <2> QED
    BY <1>1, <2>1, <2>2
<1>7. crashes' > 0 \/ (order[o] = "Suspend" /\ Gathered(payments)[o] = {})
  <2>1. (\A j \in InstancesOf(o) : payments[j] = {}) => AnyOf(payments, o) = {}
    BY DEF AnyOf
  <2>2. crashes = 0 => order[o] = "Suspend" /\ Gathered(payments)[o] = {}
    BY <1>5, <2>1 DEF Gathered
  <2>3. crashes = 0 \/ crashes' > 0
    BY <1>a, <1>1
  <2> QED
    BY <2>2, <2>3
<1>8. Process!AnswerPayment(o, paid)
  <2>1. Gathered(answers)' = Gathered(answers)
    BY <1>1 DEF Gathered, AnyOf, InstancesOf
  <2> QED
    BY <1>1, <1>3, <1>6, <1>7, <2>1, Zenon
    DEF Process!AnswerPayment, Gathered, AnyOf, InstancesOf
<1>9. (crashes > 0 => crashes' > 0) /\ (crashes' > 0) \in BOOLEAN
  BY <1>a, <1>1
<1> QED
  BY <1>b, <1>8, <1>9, Zenon DEF Process!Next, Process!Serve

\* A verdict is written once, while the order is suspended.
LEMMA VerdictOnce ==
    ASSUME SagaInv, NEW o \in Orders, NEW e \in OrderEvents,
           OrderConsumes(o, e) \/ OrderUnacked(o, e)
    PROVE  Process!Next
<1>a. Shape /\ crashes \in Nat /\ Message(e, o) \in Messages
  BY MessageFacts, MaxCrashesAssumption DEF SagaInv, CauseInv, Shape
<1>1. /\ queue[Message(e, o)] > 0
      /\ e \in {"OrderCompleted", "OrderFailed"}
      /\ order' = [order EXCEPT ![o] = NewStatus[e]]
      /\ UNCHANGED <<answers, payments>>
      /\ crashes' = crashes \/ crashes' = crashes + 1
  BY DEF OrderConsumes, OrderUnacked, Exchange, NewStatus, Die, stockVars
<1>2. /\ e = "OrderCompleted" => Paid(o)
      /\ e = "OrderFailed" => Refused(o)
  <2>1. Cause(Message(e, o))
    BY <1>a, <1>1 DEF SagaInv, CauseInv, MessagesCaused
  <2> QED
    BY <2>1, MessageFacts DEF Cause
<1>3. PICK i \in InstancesOf(o) : saga[i] # "unborn"
  <2>1. \E i \in InstancesOf(o) : answers[i] # {} \/ payments[i] # {}
    <3>1. Paid(o) => \E i \in InstancesOf(o) : answers[i] # {}
      BY DEF Paid
    <3>2. Refused(o) => \E i \in InstancesOf(o) : answers[i] # {} \/ payments[i] # {}
      BY DEF Refused
    <3> QED
      BY <1>1, <1>2, <3>1, <3>2
  <2>2. \A i \in Instances : answers[i] # {} \/ payments[i] # {} => saga[i] # "unborn"
    BY DEF SagaInv, CauseInv, UnbornUnserved, SagasCaused
  <2>3. \A i \in InstancesOf(o) : i \in Instances
    BY MessageFacts
  <2> QED
    BY <2>1, <2>2, <2>3
<1>4. crashes = 0 => order[o] = "Suspend"
  <2> SUFFICES ASSUME crashes = 0 PROVE order[o] = "Suspend"
    OBVIOUS
  <2>1. i \in Instances /\ i[1] = o
    BY MessageFacts
  <2>2. Calm(i)
    BY <1>3, <2>1 DEF SagaInv, CalmInv
  <2>3. /\ Waiting("OrderCompleted", i[1]) \in Nat /\ Waiting("OrderFailed", i[1]) \in Nat
        /\ Mail(i) \in Nat /\ Hand(i) \in Nat
    BY <1>a, <2>1, Counts, Kinds DEF Mail
  <2>4. Verdicts(i[1]) > 0 /\ Verdicts(i[1]) \in Nat
    BY <1>1, <2>1, <2>3 DEF Verdicts, Waiting
  <2>5. Due(i) > 0
    BY <2>3, <2>4 DEF Due
  <2> QED
    BY <2>1, <2>2, <2>5 DEF Calm
<1>5. crashes' > 0 \/ order[o] = "Suspend"
  BY <1>a, <1>1, <1>4
<1>6. /\ Gathered(answers)' = Gathered(answers)
      /\ Gathered(payments)' = Gathered(payments)
  BY <1>1 DEF Gathered, AnyOf, InstancesOf
<1>7. /\ Paid(o) => TRUE \in Gathered(payments)[o]
      /\ Refused(o) => "notReserved" \in Gathered(answers)[o] \/ FALSE \in Gathered(payments)[o]
  <2>1. Paid(o) => TRUE \in AnyOf(payments, o)
    BY Zenon DEF Paid, AnyOf
  <2>2. Refused(o) => "notReserved" \in AnyOf(answers, o) \/ FALSE \in AnyOf(payments, o)
    BY Zenon DEF Refused, AnyOf
  <2>3. /\ Gathered(payments)[o] = AnyOf(payments, o)
        /\ Gathered(answers)[o] = AnyOf(answers, o)
    BY DEF Gathered
  <2> QED
    BY <2>1, <2>2, <2>3, Zenon
<1>8. CASE e = "OrderCompleted"
  <2>1. NewStatus[e] = "Completed"
    BY <1>8 DEF NewStatus
  <2>2. Process!Complete(o)
    BY <1>1, <1>2, <1>5, <1>6, <1>7, <1>8, <2>1, Zenon
    DEF Process!Complete, Gathered, AnyOf, InstancesOf
  <2>3. (crashes > 0 => crashes' > 0) /\ (crashes' > 0) \in BOOLEAN
    BY <1>a, <1>1
  <2> QED
    BY <2>2, <2>3, Zenon DEF Process!Next, Process!Serve
<1>9. CASE e = "OrderFailed"
  <2>1. NewStatus[e] = "Failed"
    BY <1>9 DEF NewStatus
  <2>2. Process!Fail(o)
    BY <1>1, <1>2, <1>5, <1>6, <1>7, <1>9, <2>1, Zenon
    DEF Process!Fail, Gathered, AnyOf, InstancesOf
  <2>3. (crashes > 0 => crashes' > 0) /\ (crashes' > 0) \in BOOLEAN
    BY <1>a, <1>1
  <2> QED
    BY <2>2, <2>3, Zenon DEF Process!Next, Process!Serve
<1> QED
  BY <1>1, <1>8, <1>9
\* The steps an OrderProcess knows nothing of.
LEMMA OtherStepsAreSilent ==
    ASSUME CauseInv, Next
    PROVE  \/ UNCHANGED <<order, answers, payments>>
           \/ \E o \in Orders : CreateOrder(o)
           \/ \E o \in Orders, e \in OrderEvents : OrderConsumes(o, e) \/ OrderUnacked(o, e)
           \/ \E o \in Orders : \E i \in InstancesOf(o) :
                 \/ StockAnswers(i)
                 \/ \E paid \in PaymentAnswers : PaymentConsumes(i, paid) \/ PaymentUnacked(i, paid)
  BY DEF Next, Proceed, Interrupt, SendOrderStarted, OrderCrash, StartInstance, InsertInstance,
         StartUnsaved, StartUnacked, StartCutShort, StartRefused, React, ReactUnsaved,
         ReactUnacked, ReactRefused,
         StockWorks, StockCrash, StockRollsBack, stockVars, Stock!Arrive, Stock!Crash,
         Stock!Deliver, Stock!CheckItem, Stock!Decide, Stock!ReadItem, Stock!ReplaceItem,
         Stock!Acknowledge

LEMMA ProcessStep == SagaInv /\ SagaInv' /\ [Next]_vars => [Process!Next]_Process!vars
<1> SUFFICES ASSUME SagaInv, SagaInv', [Next]_vars
             PROVE  Process!Next \/ UNCHANGED Process!vars
  OBVIOUS
<1>1. CASE UNCHANGED vars
  BY <1>1 DEF vars, stockVars, Process!vars, InstancesOf
<1>2. CASE Next
  <2>a. CauseInv /\ crashes \in Nat /\ crashes' \in Nat
    BY MaxCrashesAssumption DEF SagaInv, CauseInv, Shape
  <2>b. (crashes > 0 => crashes' > 0) /\ (crashes' > 0) \in BOOLEAN
    <3>1. crashes' = crashes \/ crashes' = crashes + 1
      BY <1>2 DEF Next, Proceed, Interrupt, CreateOrder, SendOrderStarted, OrderCrash,
             OrderConsumes, OrderUnacked, StartInstance, InsertInstance, StartUnsaved,
             StartUnacked, StartCutShort, StartRefused, React, ReactUnsaved, ReactUnacked, ReactRefused, StockWorks, StockAnswers,
             StockCrash, StockRollsBack, PaymentConsumes, PaymentUnacked, Die
    <3> QED
      BY <2>a, <3>1
  <2>1. CASE UNCHANGED <<order, answers, payments>>
    <3>1. UNCHANGED <<order, [o \in Orders |-> UNION {answers[i] : i \in InstancesOf(o)}],
                      [o \in Orders |-> UNION {payments[i] : i \in InstancesOf(o)}]>>
      BY <2>1 DEF InstancesOf
    <3> QED
      BY <2>b, <3>1, Zenon DEF Process!Next
  <2>2. ASSUME NEW o \in Orders, CreateOrder(o)
        PROVE  Process!Next
    <3>1. /\ order[o] = "none" /\ order' = [order EXCEPT ![o] = "Suspend"]
          /\ UNCHANGED <<answers, payments>>
      BY <2>2 DEF CreateOrder, stockVars
    <3>2. Process!Place(o)
      BY <3>1 DEF Process!Place, InstancesOf
    <3> QED
      BY <2>b, <3>2, Zenon DEF Process!Next, Process!Serve
  <2> QED
    BY <1>2, <2>a, <2>1, <2>2, OtherStepsAreSilent, VerdictOnce, StockAnswersOnce, PaymentOnce
<1> QED
  BY <1>1, <1>2

\* The state machine and its three services do what an order process promises: one
\* answer of each side and one outcome while no process dies, and never an outcome
\* without an answer, however many orders and crashes there are.
THEOREM OrchestrationIsOrderProcess == Spec => ImplementsOrderProcess
  BY ProcessInit, ProcessStep, SagaInvHolds, PTL DEF Spec, ImplementsOrderProcess, Process!Spec

-----------------------------------------------------------------------------
(* Types.  Those of Stock.API are a theorem of StockReservationProofs, with  *)
(* an instance for an order.                                                 *)

Consumer == INSTANCE StockReservationProofs WITH
    Orders <- Instances,
    Items <- [i \in Instances |-> Items[i[1]]],
    lost <- {}, contended <- {}, interrupted <- {}

LEMMA ConsumerAssumptions ==
    /\ {Limit, IntLimit} \subseteq Nat \ {0} /\ Unknown \notin Products
    /\ Consumer!IsFiniteSet(Instances)
    /\ [i \in Instances |-> Items[i[1]]] \in [Instances -> Seq(Consumer!OrderItem)]
    /\ InitialStock \in [Products -> Consumer!Ints]
<1>1. IsFiniteSet(Instances)
  <2>1. 1 \in Int /\ MaxCrashes + 1 \in Int
    BY MaxCrashesAssumption
  <2>2. IsFiniteSet(1 .. MaxCrashes + 1)
    BY <2>1, FS_Interval
  <2> QED
    BY <2>2, FS_Product, StockAssumption, Zenon DEF Instances
<1>2. [i \in Instances |-> Items[i[1]]] \in [Instances -> Seq(Stock!OrderItem)]
  BY StockAssumption DEF Instances
<1> QED
  BY <1>1, <1>2, StockAssumption
  DEF Consumer!OrderItem, Stock!OrderItem, Consumer!Ints, Stock!Ints,
      Consumer!IsFiniteSet, IsFiniteSet

LEMMA ConsumerTypes ==
    ASSUME Consumer!TypeInv
    PROVE  /\ [Consumer!Next \/ Consumer!Crash]_(Consumer!vars) => Consumer!TypeInv'
           /\ Stock!TypeOK
  BY Consumer!TypeStep, ConsumerAssumptions
  DEF Consumer!OrderItem, Stock!OrderItem, Consumer!Ints, Stock!Ints,
      Consumer!TypeInv, Consumer!TypeOK, Stock!TypeOK, Consumer!Steps, Stock!Steps,
      Consumer!Answers, Stock!Answers, Consumer!LoopOver, Stock!LoopOver

LEMMA ConsumerInit == Stock!Init => Consumer!TypeInv
<1>1. Stock!Init => Consumer!Init
  BY DEF Stock!Init, Consumer!Init
<1>2. Consumer!Init => Consumer!TypeInv
  BY Consumer!TypeInit, ConsumerAssumptions
<1> QED
  BY <1>1, <1>2

\* The consumer is the same module in both.
LEMMA ConsumerStep ==
    ASSUME Consumer!TypeInv,
           (\E i \in Instances : Stock!Step(i)) \/ Stock!Crash \/ UNCHANGED stockVars
    PROVE  Consumer!TypeInv'
<1>1. ASSUME NEW i \in Instances, Stock!Step(i)
      PROVE  Consumer!Step(i)
  BY <1>1
  DEF Stock!Step, Consumer!Step, Stock!Consume, Consumer!Consume, Stock!Arrive,
      Consumer!Arrive, Stock!Deliver, Consumer!Deliver, Stock!CheckItem,
      Consumer!CheckItem, Stock!Decide, Consumer!Decide, Stock!ReadItem,
      Consumer!ReadItem, Stock!ReplaceItem, Consumer!ReplaceItem, Stock!Answer,
      Consumer!Answer, Stock!SendStockReserved, Consumer!SendStockReserved,
      Stock!PublishStockNotReserved, Consumer!PublishStockNotReserved,
      Stock!Acknowledge, Consumer!Acknowledge, Stock!Active, Consumer!Active,
      Stock!LoopOver, Consumer!LoopOver, Stock!Item, Consumer!Item, Stock!InStock,
      Consumer!InStock, Stock!Wrap, Consumer!Wrap, Stock!Cardinality,
      Consumer!Cardinality
<1>2. Stock!Crash => Consumer!Crash
  BY DEF Stock!Crash, Consumer!Crash, Stock!Active, Consumer!Active
<1>3. UNCHANGED stockVars => UNCHANGED Consumer!vars
  BY DEF stockVars, Consumer!vars
<1> QED
  BY <1>1, <1>2, <1>3, ConsumerTypes DEF Consumer!Next

\* There is an id for every instance that is started.
LEMMA NewInstance ==
    ASSUME CauseInv, DrawsCounted, NEW o \in Orders, StartInstance(o)
    PROVE  NewId(o) \in Instances
<1>1. /\ queue[Message("OrderStarted", o)] > 0
      /\ Message("OrderStarted", o) \in Messages
  BY MessageFacts DEF StartInstance, Exchange, OrderEvents
<1>2. Asked(o) > 0 /\ Asked(o) \in Nat /\ Posting(o) \in 0 .. 1
  BY <1>1, DrawnTypes DEF CauseInv, Asked
<1>3. Cardinality(Drawn(o)) \in Nat /\ crashes \in 0 .. MaxCrashes
  BY DrawnFinite DEF CauseInv, Shape
<1>4. Cardinality(Drawn(o)) + 1 \in 1 .. MaxCrashes + 1
  BY <1>2, <1>3, MaxCrashesAssumption DEF DrawsCounted, DrawnInv
<1> QED
  BY <1>4 DEF NewId, Instances

SagaTypes ==
    CauseInv /\ DrawsCounted /\ Consumer!TypeInv /\ lost \subseteq Orders /\ early \subseteq Orders

LEMMA SagaTypesStep ==
    (CauseInv /\ DrawsCounted)' /\ SagaTypes /\ [Next]_vars => SagaTypes'
<1> SUFFICES ASSUME (CauseInv /\ DrawsCounted)', SagaTypes, [Next]_vars PROVE SagaTypes'
  OBVIOUS
<1>1. lost' \subseteq Orders /\ early' \subseteq Orders
  BY MessageFacts
  DEF Next, Proceed, Interrupt, CreateOrder, SendOrderStarted, OrderCrash,
         OrderConsumes, OrderUnacked, StartInstance, InsertInstance, StartUnsaved,
         StartUnacked, StartCutShort, StartRefused, React, ReactUnsaved, ReactUnacked,
         ReactRefused, StockWorks, StockAnswers,
         StockCrash, StockRollsBack, PaymentConsumes, PaymentUnacked, Pay, SagaTypes, vars
<1>2. \/ \E o \in Orders : StartInstance(o)
      \/ \E o \in Orders : \E i \in InstancesOf(o) : StockWorks(i) \/ StockAnswers(i)
      \/ Stock!Crash
      \/ UNCHANGED stockVars
  BY DEF Next, Proceed, Interrupt, CreateOrder, SendOrderStarted, OrderCrash,
         OrderConsumes, OrderUnacked, InsertInstance, StartUnsaved, StartUnacked,
         StartCutShort, StartRefused, React, ReactUnsaved, ReactUnacked, ReactRefused,
         StockCrash, StockRollsBack, PaymentConsumes, PaymentUnacked, Pay, vars
<1>3. ASSUME NEW o \in Orders, StartInstance(o)
      PROVE  Consumer!TypeInv'
  <2>1. NewId(o) \in Instances /\ Stock!Step(NewId(o))
    BY <1>3, NewInstance DEF SagaTypes, StartInstance, Stock!Step
  <2> QED
    BY <2>1, ConsumerStep DEF SagaTypes
<1>4. ASSUME NEW o \in Orders, NEW i \in InstancesOf(o), StockWorks(i) \/ StockAnswers(i)
      PROVE  Consumer!TypeInv'
  <2>1. i \in Instances /\ Stock!Step(i)
    BY <1>4, MessageFacts DEF StockWorks, StockAnswers, Stock!Step, Stock!Consume
  <2> QED
    BY <2>1, ConsumerStep DEF SagaTypes
<1>5. Consumer!TypeInv'
  BY <1>2, <1>3, <1>4, ConsumerStep DEF SagaTypes
<1> QED
  BY <1>1, <1>5 DEF SagaTypes

\* Every variable has its type, those of the consumer included, however many instances
\* crashes make the state machine draw.
THEOREM TypeCorrect == Spec => []TypeOK
<1>1. SagaTypes => TypeOK
  BY ConsumerTypes DEF SagaTypes, CauseInv, Shape, TypeOK
<1>2. Init /\ CauseInv /\ DrawsCounted => SagaTypes
  BY ConsumerInit DEF Init, SagaTypes
<1> QED
  BY <1>1, <1>2, SagaTypesStep, CauseInvHolds, DrawsCountedHolds, PTL DEF Spec
=============================================================================
