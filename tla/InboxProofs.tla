---------------------------- MODULE InboxProofs ----------------------------
(***************************************************************************)
(* Theorems about Inbox, for any set of orders, any finite number of        *)
(* deliveries at a time, of copies of an event and of crashes.              *)
(***************************************************************************)
EXTENDS Inbox, FiniteSetTheorems, TLAPS

-----------------------------------------------------------------------------
(* The inductive invariant. *)

Types ==
    /\ {sent, queue} \subseteq [Orders -> Nat]
    /\ inbox \in [Orders -> InboxStates]
    /\ delivery \in [Deliveries -> DeliveryStates]
    /\ \A d \in Deliveries :
          IF delivery[d].pc \in {"free", "acked"} THEN delivery[d].of = {}
          ELSE \E o \in Orders : delivery[d].of = {o}
    /\ handled \in [Orders -> Counts]
    /\ causes \subseteq Causes
    /\ crashes \in 0 .. MaxCrashes

\* No copy is in two places.
CopiesAreCounted ==
    \A o \in Orders :
        queue[o] + Cardinality(HeldBy(o)) <= sent[o] /\ sent[o] <= MaxCopies

\* Past the check and the insertion, the row of the message is there.
LoadedHasRow ==
    \A d \in Deliveries, o \in Orders :
        delivery[d].pc \in {"load", "loaded"} /\ o \in delivery[d].of => inbox[o] # "absent"

IInv == Types /\ CopiesAreCounted /\ LoadedHasRow /\ NothingIsLost

-----------------------------------------------------------------------------
LEMMA HeldByIsFinite ==
    \A o : IsFiniteSet(HeldBy(o)) /\ Cardinality(HeldBy(o)) \in Nat
<1> SUFFICES ASSUME NEW o
             PROVE  IsFiniteSet(HeldBy(o)) /\ Cardinality(HeldBy(o)) \in Nat
  OBVIOUS
<1>1. HeldBy(o) \subseteq Deliveries
  BY DEF HeldBy
<1>2. IsFiniteSet(HeldBy(o))
  BY <1>1, DeliveriesAssumption, FS_Subset
<1> QED
  BY <1>2, FS_CardinalityType

\* A delivery that lets go of its message adds no copy.
LEMMA FewerAreHeld ==
    ASSUME Types, CopiesAreCounted, UNCHANGED <<sent, queue>>,
           \A d \in Deliveries : delivery'[d].of \subseteq delivery[d].of
    PROVE  CopiesAreCounted'
<1> SUFFICES ASSUME NEW o \in Orders
             PROVE  queue[o] + Cardinality(HeldBy(o)') <= sent[o]
  BY DEF CopiesAreCounted
<1>1. HeldBy(o)' \subseteq HeldBy(o)
  BY DEF HeldBy
<1>2. /\ IsFiniteSet(HeldBy(o)')
      /\ Cardinality(HeldBy(o)') <= Cardinality(HeldBy(o))
  BY <1>1, HeldByIsFinite, FS_Subset
<1>3. Cardinality(HeldBy(o)') \in Nat
  BY <1>2, FS_CardinalityType
<1> QED
  BY <1>2, <1>3, HeldByIsFinite DEF CopiesAreCounted, Types

LEMMA IInvInit == Init => IInv
<1> SUFFICES ASSUME Init
             PROVE  IInv
  OBVIOUS
<1> USE BoundsAssumption DEF Init, Free
<1>1. Types
  <2>1. delivery \in [Deliveries -> DeliveryStates]
    BY DEF DeliveryStates
  <2>2. /\ {sent, queue} \subseteq [Orders -> Nat]
        /\ inbox \in [Orders -> InboxStates]
        /\ handled \in [Orders -> Counts]
    BY DEF InboxStates, Counts
  <2>3. causes \subseteq Causes /\ crashes \in 0 .. MaxCrashes
    OBVIOUS
  <2> QED
    BY <2>1, <2>2, <2>3 DEF Types
<1>2. CopiesAreCounted
  <2>1. \A o \in Orders : Cardinality(HeldBy(o)) = 0
    <3>1. \A o \in Orders : HeldBy(o) = {}
      BY DEF HeldBy
    <3> QED
      BY <3>1, HeldByIsFinite, FS_EmptySet
  <2> QED
    BY <2>1 DEF CopiesAreCounted
<1>3. LoadedHasRow /\ NothingIsLost
  BY DEF LoadedHasRow, NothingIsLost
<1> QED
  BY <1>1, <1>2, <1>3 DEF IInv

-----------------------------------------------------------------------------
(* The step, action by action. *)

LEMMA PublishStep ==
    ASSUME IInv, NEW o \in Orders, Publish(o)
    PROVE  IInv'
<1> USE DEF IInv, Publish
<1>1. Types'
  BY DEF Types
<1>2. CopiesAreCounted'
  <2>1. \A p \in Orders : HeldBy(p)' = HeldBy(p)
    BY DEF HeldBy
  <2> QED
    BY <2>1, HeldByIsFinite, BoundsAssumption DEF CopiesAreCounted, Types
<1>3. LoadedHasRow'
  BY DEF LoadedHasRow
<1>4. NothingIsLost'
  BY DEF NothingIsLost, HeldBy, Types
<1> QED
  BY <1>1, <1>2, <1>3, <1>4

LEMMA ReceiveStep ==
    ASSUME IInv, NEW d \in Deliveries, NEW o \in Orders, Receive(d, o)
    PROVE  IInv'
<1> USE DEF IInv, Receive, Free
<1>1. Types'
  <2>1. delivery' \in [Deliveries -> DeliveryStates]
    BY DEF Types, DeliveryStates
  <2>2. causes' \subseteq Causes
    BY DEF Types, Causes
  <2> QED
    BY <2>1, <2>2 DEF Types
<1>2. \A p \in Orders : HeldBy(p)' = IF p = o THEN HeldBy(p) \union {d} ELSE HeldBy(p)
  BY DEF HeldBy, Types
<1>3. CopiesAreCounted'
  <2>1. d \notin HeldBy(o)
    BY DEF HeldBy
  <2>2. Cardinality(HeldBy(o)') = Cardinality(HeldBy(o)) + 1
    BY <1>2, <2>1, HeldByIsFinite, FS_AddElement
  <2> QED
    BY <1>2, <2>2, HeldByIsFinite DEF CopiesAreCounted, Types
<1>4. LoadedHasRow'
  BY DEF LoadedHasRow, Types
<1>5. NothingIsLost'
  BY <1>2 DEF NothingIsLost, Types
<1> QED
  BY <1>1, <1>3, <1>4, <1>5

LEMMA CheckStep ==
    ASSUME IInv, NEW d \in Deliveries, NEW o \in Orders, Check(d, o)
    PROVE  IInv'
<1> USE DEF IInv, Check
<1>1. \A e \in Deliveries : delivery'[e].of = delivery[e].of
  BY DEF Types, DeliveryStates
<1>2. Types'
  BY DEF Types, DeliveryStates
<1>3. CopiesAreCounted'
  BY <1>1, FewerAreHeld
<1>4. LoadedHasRow'
  BY DEF LoadedHasRow, Types, DeliveryStates
<1>5. NothingIsLost'
  BY <1>1 DEF NothingIsLost, HeldBy
<1> QED
  BY <1>2, <1>3, <1>4, <1>5

LEMMA InsertStep ==
    ASSUME IInv, NEW d \in Deliveries, NEW o \in Orders, Insert(d, o)
    PROVE  IInv'
<1> USE DEF IInv, Insert
<1>1. \A e \in Deliveries : delivery'[e].of = delivery[e].of
  BY DEF Types, DeliveryStates
<1>2. Types'
  BY DEF Types, DeliveryStates, InboxStates
<1>3. CopiesAreCounted'
  BY <1>1, FewerAreHeld
<1>4. LoadedHasRow'
  BY DEF LoadedHasRow, Types, DeliveryStates
<1>5. NothingIsLost'
  BY <1>1 DEF NothingIsLost, HeldBy, Types
<1> QED
  BY <1>2, <1>3, <1>4, <1>5

\* The message that is let go of has its row.
LEMMA InsertThrowsStep ==
    ASSUME IInv, NEW d \in Deliveries, NEW o \in Orders, InsertThrows(d, o)
    PROVE  IInv'
<1> USE DEF IInv, InsertThrows, Free
<1>1. /\ delivery' = [delivery EXCEPT ![d] = [pc |-> "free", of |-> {}, rows |-> {}]]
      /\ \A e \in Deliveries : delivery'[e].of \subseteq delivery[e].of
  BY DEF Types
<1>2. Types'
  BY <1>1 DEF Types, DeliveryStates
<1>3. CopiesAreCounted'
  BY <1>1, FewerAreHeld
<1>4. LoadedHasRow'
  BY <1>1 DEF LoadedHasRow, Types
<1>5. NothingIsLost'
  <2>1. \A p \in Orders : HeldBy(p) = HeldBy(p)' \/ p = o
    BY <1>1 DEF HeldBy, Types
  <2> QED
    BY <2>1 DEF NothingIsLost
<1> QED
  BY <1>2, <1>3, <1>4, <1>5

LEMMA LoadStep ==
    ASSUME IInv, NEW d \in Deliveries, LoadUnprocessed(d)
    PROVE  IInv'
<1> USE DEF IInv, LoadUnprocessed, Load
<1>1. \A e \in Deliveries : delivery'[e].of = delivery[e].of
  BY DEF Types, DeliveryStates
<1>2. Types'
  <2>1. delivery' \in [Deliveries -> DeliveryStates]
    BY DEF Types, DeliveryStates, Unprocessed
  <2>2. handled' \in [Orders -> Counts]
    BY DEF Types, Counts, Up
  <2> QED
    BY <2>1, <2>2 DEF Types
<1>3. CopiesAreCounted'
  BY <1>1, FewerAreHeld
<1>4. LoadedHasRow'
  BY DEF LoadedHasRow, Types, DeliveryStates
<1>5. NothingIsLost'
  BY <1>1 DEF NothingIsLost, HeldBy
<1> QED
  BY <1>2, <1>3, <1>4, <1>5

LEMMA SaveStep ==
    ASSUME IInv, NEW d \in Deliveries, NEW o \in Orders, Save(d, o)
    PROVE  IInv'
<1> USE DEF IInv, Save
<1>1. \A e \in Deliveries : delivery'[e].of = delivery[e].of
  BY DEF Types, DeliveryStates, Free
<1>2. Types'
  <2>1. delivery' \in [Deliveries -> DeliveryStates]
    BY DEF Types, DeliveryStates, Free
  <2>2. inbox' \in [Orders -> InboxStates]
    BY DEF Types, InboxStates
  <2>3. \A e \in Deliveries :
            delivery'[e].pc \in {"free", "acked"} <=> delivery[e].pc \in {"free", "acked"}
    BY DEF Types, DeliveryStates, Free
  <2> QED
    BY <1>1, <2>1, <2>2, <2>3 DEF Types
<1>3. CopiesAreCounted'
  BY <1>1, FewerAreHeld
<1>4. LoadedHasRow'
  BY DEF LoadedHasRow, Types, DeliveryStates, Free
<1>5. NothingIsLost'
  BY <1>1 DEF NothingIsLost, HeldBy, Types
<1> QED
  BY <1>2, <1>3, <1>4, <1>5

\* The message that is acknowledged has its row.
LEMMA AcknowledgeStep ==
    ASSUME IInv, NEW d \in Deliveries, Acknowledge(d)
    PROVE  IInv'
<1> USE DEF IInv, Acknowledge
<1>1. /\ delivery'[d].of = {}
      /\ \A e \in Deliveries \ {d} : delivery'[e] = delivery[e]
      /\ \A e \in Deliveries : delivery'[e].of \subseteq delivery[e].of
  BY DEF Types, DeliveryStates, Free
<1>2. Types'
  <2>1. delivery' \in [Deliveries -> DeliveryStates] /\ delivery'[d].pc \in {"free", "acked"}
    BY DEF Types, DeliveryStates, Free
  <2> QED
    BY <1>1, <2>1 DEF Types
<1>3. CopiesAreCounted'
  BY <1>1, FewerAreHeld
<1>4. LoadedHasRow'
  BY <1>1 DEF LoadedHasRow
<1>5. NothingIsLost'
  <2>1. \A p \in Orders : HeldBy(p) = HeldBy(p)' \/ inbox[p] # "absent"
    BY <1>1 DEF HeldBy, LoadedHasRow
  <2> QED
    BY <2>1 DEF NothingIsLost
<1> QED
  BY <1>2, <1>3, <1>4, <1>5

\* What was held is in the queue again.
LEMMA DeathStep ==
    ASSUME IInv, StockDies, crashes' \in 0 .. MaxCrashes
    PROVE  IInv'
<1> USE DEF IInv, StockDies
<1>1. /\ delivery' \in [Deliveries -> DeliveryStates]
      /\ \A d \in Deliveries : delivery'[d] = [pc |-> "free", of |-> {}, rows |-> {}]
  BY DEF DeliveryStates, Free
<1>2. \A o \in Orders : queue'[o] = queue[o] + Cardinality(HeldBy(o))
  OBVIOUS
<1>3. Types'
  <2>1. queue' \in [Orders -> Nat]
    BY HeldByIsFinite DEF Types
  <2>2. causes' \subseteq Causes
    BY DEF Types, Causes
  <2> QED
    BY <1>1, <2>1, <2>2 DEF Types
<1>4. CopiesAreCounted'
  <2>1. \A o \in Orders : Cardinality(HeldBy(o)') = 0
    <3>1. \A o \in Orders : HeldBy(o)' = {}
      BY <1>1 DEF HeldBy
    <3> QED
      BY <3>1, FS_EmptySet
  <2> QED
    BY <1>2, <2>1, HeldByIsFinite DEF CopiesAreCounted, Types
<1>5. LoadedHasRow'
  BY <1>1 DEF LoadedHasRow
<1>6. NothingIsLost'
  <2>1. \A o \in Orders : HeldBy(o) # {} => Cardinality(HeldBy(o)) > 0
    BY HeldByIsFinite, FS_EmptySet
  <2> QED
    BY <1>2, <2>1, HeldByIsFinite DEF NothingIsLost, Types
<1> QED
  BY <1>3, <1>4, <1>5, <1>6

LEMMA IInvStep == IInv /\ [Next]_vars => IInv'
<1> SUFFICES ASSUME IInv, [Next]_vars
             PROVE  IInv'
  OBVIOUS
<1>1. ASSUME NEW d \in Deliveries, SaveThrows(d)
      PROVE  IInv'
  BY <1>1, DeathStep DEF SaveThrows, IInv, Types
<1>2. CASE StockCrash
  <2>1. crashes' \in 0 .. MaxCrashes
    BY <1>2, BoundsAssumption DEF StockCrash, IInv, Types
  <2> QED
    BY <1>2, <2>1, DeathStep DEF StockCrash
<1>3. CASE UNCHANGED vars
  BY <1>3
  DEF vars, IInv, Types, CopiesAreCounted, LoadedHasRow, NothingIsLost, HeldBy
<1> QED
  BY <1>1, <1>2, <1>3, PublishStep, ReceiveStep, CheckStep, InsertStep,
     InsertThrowsStep, LoadStep, SaveStep, AcknowledgeStep
  DEF Next, DeliveryStep

-----------------------------------------------------------------------------
LEMMA IInvHolds == Spec => []IInv
  BY IInvInit, IInvStep, PTL DEF Spec

\* The type invariant of the inbox: in particular the broker never holds more
\* copies of an event than were published, crashes and redelivery included.
THEOREM TypeCorrect == Spec => []TypeOK
<1>1. IInv => TypeOK
  <2> SUFFICES ASSUME IInv
               PROVE  TypeOK
    OBVIOUS
  <2>1. {sent, queue} \subseteq [Orders -> 0 .. MaxCopies]
    BY HeldByIsFinite, BoundsAssumption DEF IInv, Types, CopiesAreCounted
  <2>2. ASSUME NEW d \in Deliveries
        PROVE  Cardinality(delivery[d].of) =
                   (IF delivery[d].pc \in {"free", "acked"} THEN 0 ELSE 1)
    BY FS_EmptySet, FS_Singleton DEF IInv, Types
  <2> QED
    BY <2>1, <2>2 DEF IInv, Types, TypeOK
<1> QED
  BY <1>1, IInvHolds, PTL

\* The inbox keeps its promise: what was published is in the queue, in a delivery,
\* or in the table, whatever dies and whichever deliveries race for one row.
THEOREM NothingIsEverLost == Spec => []NothingIsLost
<1>1. IInv => NothingIsLost
  BY DEF IInv
<1> QED
  BY <1>1, IInvHolds, PTL

-----------------------------------------------------------------------------
(* Once, while nothing goes wrong. *)

\* Only a delivery past its query holds rows.
RowsAreLoaded ==
    \A d \in Deliveries : delivery[d].pc \notin {"loaded", "acked"} => delivery[d].rows = {}

OneDeliveryAtATime ==
    \A d, e \in Deliveries : delivery[d] # Free /\ delivery[e] # Free => d = e

\* What ForEach took is processed, or its save is under way.
HandledOnce ==
    \A o \in Orders :
        /\ handled[o] <= 1
        /\ handled[o] > 0 =>
              inbox[o] = "processed" \/ \E d \in Deliveries : o \in delivery[d].rows

CalmInv == RowsAreLoaded /\ (causes = {} => OneDeliveryAtATime /\ HandledOnce)

\* A step that frees no row, or only one that is saved, and begins no delivery.
LEMMA NothingBegins ==
    ASSUME Types, CalmInv, NEW d \in Deliveries, UNCHANGED <<handled, causes>>,
           delivery[d] # Free,
           \A e \in Deliveries \ {d} : delivery'[e] = delivery[e],
           delivery'[d].pc \notin {"loaded", "acked"} => delivery'[d].rows = {},
           \A o \in Orders :
               /\ inbox[o] = "processed" => inbox'[o] = "processed"
               /\ o \in delivery[d].rows => o \in delivery'[d].rows \/ inbox'[o] = "processed"
    PROVE  CalmInv'
<1> USE DEF CalmInv, RowsAreLoaded, OneDeliveryAtATime, HandledOnce
<1>1. RowsAreLoaded'
  OBVIOUS
<1>2. causes = {} => OneDeliveryAtATime'
  BY DEF Free
<1>3. causes = {} => HandledOnce'
  <2> SUFFICES ASSUME causes = {}, NEW o \in Orders, handled[o] > 0
               PROVE  inbox'[o] = "processed" \/ \E e \in Deliveries : o \in delivery'[e].rows
    OBVIOUS
  <2>1. CASE inbox[o] = "processed"
    BY <2>1
  <2>2. ASSUME NEW e \in Deliveries, o \in delivery[e].rows
        PROVE  inbox'[o] = "processed" \/ o \in delivery'[e].rows
    BY <2>2
  <2> QED
    BY <2>1, <2>2
<1> QED
  BY <1>1, <1>2, <1>3

LEMMA CalmStep == Types /\ CalmInv /\ [Next]_vars => CalmInv'
<1> SUFFICES ASSUME Types, CalmInv, [Next]_vars
             PROVE  CalmInv'
  OBVIOUS
<1> USE DEF CalmInv, RowsAreLoaded, OneDeliveryAtATime, HandledOnce
<1>1. ASSUME UNCHANGED <<inbox, delivery, handled, causes>>
      PROVE  CalmInv'
  BY <1>1
<1>2. ASSUME NEW d \in Deliveries, NEW o \in Orders, Receive(d, o)
      PROVE  CalmInv'
  <2>1. /\ delivery[d].rows = {} /\ delivery'[d].rows = {} /\ delivery'[d].pc = "check"
        /\ \A e \in Deliveries \ {d} : delivery'[e] = delivery[e]
    BY <1>2 DEF Receive, Free, Types
  <2>2. causes' = {} => causes = {} /\ \A e \in Deliveries : delivery[e] = Free
    BY <1>2 DEF Receive
  <2>3. RowsAreLoaded'
    BY <2>1
  <2>4. causes' = {} => OneDeliveryAtATime'
    BY <2>1, <2>2
  <2>5. causes' = {} => HandledOnce'
    <3>1. \A e \in Deliveries : delivery'[e].rows = delivery[e].rows
      BY <2>1
    <3> QED
      BY <1>2, <2>2, <3>1 DEF Receive
  <2> QED
    BY <2>3, <2>4, <2>5
<1>3. ASSUME NEW d \in Deliveries, NEW o \in Orders, Check(d, o) \/ Insert(d, o)
      PROVE  CalmInv'
  <2>1. /\ delivery[d].pc \in {"check", "insert"} /\ delivery[d].rows = {}
        /\ delivery'[d].rows = {} /\ delivery'[d].pc \in {"insert", "load"}
        /\ \A e \in Deliveries \ {d} : delivery'[e] = delivery[e]
    BY <1>3 DEF Check, Insert, Types, DeliveryStates
  <2>2. \A p \in Orders : inbox[p] = "processed" => inbox'[p] = "processed"
    BY <1>3 DEF Check, Insert, Types
  <2>3. UNCHANGED <<handled, causes>>
    BY <1>3 DEF Check, Insert
  <2> HIDE DEF CalmInv, RowsAreLoaded
  <2> QED
    BY <2>1, <2>2, <2>3, NothingBegins DEF Free
<1>4. ASSUME NEW d \in Deliveries, NEW o \in Orders, InsertThrows(d, o)
      PROVE  CalmInv'
  <2>1. /\ delivery[d].pc = "insert" /\ delivery[d].rows = {} /\ delivery'[d].rows = {}
        /\ \A e \in Deliveries \ {d} : delivery'[e] = delivery[e]
    BY <1>4 DEF InsertThrows, Free, Types
  <2>2. UNCHANGED <<inbox, handled, causes>>
    BY <1>4 DEF InsertThrows
  <2> HIDE DEF CalmInv, RowsAreLoaded
  <2> QED
    BY <2>1, <2>2, NothingBegins DEF Free
<1>5. ASSUME NEW d \in Deliveries, LoadUnprocessed(d)
      PROVE  CalmInv'
  <2>1. /\ delivery[d].pc = "load" /\ delivery[d].rows = {}
        /\ delivery'[d].pc = "loaded" /\ delivery'[d].rows = Unprocessed
        /\ \A e \in Deliveries \ {d} : delivery'[e] = delivery[e]
    BY <1>5 DEF LoadUnprocessed, Load, Types, DeliveryStates
  <2>2. UNCHANGED <<inbox, causes>>
    BY <1>5 DEF LoadUnprocessed, Load
  <2>3. delivery[d] # Free
    BY <2>1 DEF Free
  <2>4. causes = {} => \A e \in Deliveries : delivery[e].rows = {}
    BY <2>1, <2>3 DEF Free
  <2>5. \A o \in Orders : handled'[o] = IF o \in Unprocessed THEN Up(handled[o]) ELSE handled[o]
    BY <1>5 DEF LoadUnprocessed, Load
  <2>6. causes = {} => HandledOnce'
    <3> SUFFICES ASSUME causes = {}, NEW o \in Orders
                 PROVE  /\ handled'[o] <= 1
                        /\ handled'[o] > 0 => inbox'[o] = "processed"
                                              \/ \E e \in Deliveries : o \in delivery'[e].rows
      OBVIOUS
    <3>1. CASE o \in Unprocessed
      <4>1. ~(handled[o] > 0) /\ handled[o] \in Counts
        BY <2>4, <3>1 DEF Unprocessed, Types
      <4>2. handled'[o] = 1
        BY <2>5, <3>1, <4>1 DEF Counts, Up
      <4> QED
        BY <2>1, <3>1, <4>2
    <3>2. CASE o \notin Unprocessed
      BY <2>2, <2>4, <2>5, <3>2
    <3> QED
      BY <3>1, <3>2
  <2> QED
    BY <2>1, <2>2, <2>3, <2>6
<1>6. ASSUME NEW d \in Deliveries, NEW o \in Orders, Save(d, o)
      PROVE  CalmInv'
  <2>1. /\ delivery[d].pc \in {"loaded", "acked"} /\ delivery[d] # Free
        /\ \A e \in Deliveries \ {d} : delivery'[e] = delivery[e]
    BY <1>6 DEF Save, Free, Types
  <2>2. /\ delivery'[d].rows = delivery[d].rows \ {o}
        /\ delivery'[d].pc \notin {"loaded", "acked"} => delivery'[d].rows = {}
    BY <1>6, <2>1 DEF Save, Free, Types, DeliveryStates
  <2>3. inbox'[o] = "processed" /\ \A p \in Orders \ {o} : inbox'[p] = inbox[p]
    BY <1>6 DEF Save, Types
  <2>4. UNCHANGED <<handled, causes>>
    BY <1>6 DEF Save
  <2> HIDE DEF CalmInv, RowsAreLoaded
  <2> QED
    BY <2>1, <2>2, <2>3, <2>4, NothingBegins
<1>7. ASSUME NEW d \in Deliveries, Acknowledge(d)
      PROVE  CalmInv'
  <2>1. /\ delivery[d].pc = "loaded" /\ delivery'[d].rows = delivery[d].rows
        /\ delivery'[d].pc = "acked" \/ delivery'[d].rows = {}
        /\ \A e \in Deliveries \ {d} : delivery'[e] = delivery[e]
    BY <1>7 DEF Acknowledge, Free, Types, DeliveryStates
  <2>2. UNCHANGED <<inbox, handled, causes>>
    BY <1>7 DEF Acknowledge
  <2> HIDE DEF CalmInv, RowsAreLoaded
  <2> QED
    BY <2>1, <2>2, NothingBegins DEF Free
<1>8. ASSUME StockDies
      PROVE  CalmInv'
  <2>1. causes' # {} /\ \A d \in Deliveries : delivery'[d].rows = {}
    BY <1>8 DEF StockDies, Free
  <2> QED
    BY <2>1
<1> QED
  BY <1>1, <1>2, <1>3, <1>4, <1>5, <1>6, <1>7, <1>8
  DEF Next, DeliveryStep, Publish, SaveThrows, StockCrash, vars

\* However often an event is published, it is processed twice only if deliveries
\* overlapped or the process died: the rows of the inbox are enough otherwise.
THEOREM RepeatsHaveCause == Spec => []RepeatedHandlingHasCause
<1>1. Init => CalmInv
  BY DEF Init, Free, CalmInv, RowsAreLoaded, OneDeliveryAtATime, HandledOnce
<1>2. Types /\ CalmInv => RepeatedHandlingHasCause
  <2> SUFFICES ASSUME Types, CalmInv, NEW o \in Orders, handled[o] > 1
               PROVE  causes \intersect {"deliveriesOverlap", "stockDied"} # {}
    BY DEF RepeatedHandlingHasCause
  <2>1. causes # {} /\ causes \subseteq Causes
    BY DEF Types, Counts, CalmInv, HandledOnce
  <2> QED
    BY <2>1 DEF Causes
<1>3. IInv => Types
  BY DEF IInv
<1> QED
  BY <1>1, <1>2, <1>3, CalmStep, IInvHolds, PTL DEF Spec

=============================================================================
