------------------------------- MODULE Inbox -------------------------------
(***************************************************************************)
(* OutBoxAndInBoxDesignPatternPractice, the receiving side: Stock.Services  *)
(* keeps what it receives in its inbox, one row for each IdempotentToken,   *)
(* and processes every row that is not.  The consumer does not await the    *)
(* saves of its ForEach, which run on one DbContext, disposed when Consume  *)
(* returns.                                                                 *)
(***************************************************************************)
EXTENDS Integers, FiniteSets

CONSTANTS Orders,      \* each with its IdempotentToken
          Deliveries,  \* deliveries consumed, or still saving, at one time
          MaxCopies,   \* bound: how often the outbox publishes an event
          MaxCrashes   \* bound: how often the process dies for no reason of its own

ASSUME BoundsAssumption == {MaxCopies, MaxCrashes} \subseteq Nat

\* The prefetch count of the broker.
ASSUME DeliveriesAssumption == IsFiniteSet(Deliveries)

VARIABLES sent,      \* [Orders -> Nat]: copies the outbox has published
          queue,     \* [Orders -> Nat]: copies waiting
          inbox,     \* [Orders -> InboxStates]: table OrderInboxes
          delivery,  \* [Deliveries -> DeliveryStates]
          handled,   \* [Orders -> Counts]: how often ForEach took the row
          causes,    \* which of Causes have happened
          crashes

vars == <<sent, queue, inbox, delivery, handled, causes, crashes>>

InboxStates == {"absent", "unprocessed", "processed"}

DeliveryStates ==
    [pc : {"free", "check", "insert", "load", "loaded", "acked"},
     of : SUBSET Orders, rows : SUBSET Orders]

Free == [pc |-> "free", of |-> {}, rows |-> {}]

Causes == {"deliveriesOverlap", "stockDied"}

\* Repetitions are told apart up to two.
Counts == 0 .. 2

Up(n) == IF n = 2 THEN 2 ELSE n + 1

Init ==
    /\ sent = [o \in Orders |-> 0]
    /\ queue = [o \in Orders |-> 0]
    /\ inbox = [o \in Orders |-> "absent"]
    /\ delivery = [d \in Deliveries |-> Free]
    /\ handled = [o \in Orders |-> 0]
    /\ causes = {}
    /\ crashes = 0

-----------------------------------------------------------------------------
\* The outbox publishes an event at least once.
Publish(o) ==
    /\ sent[o] < MaxCopies
    /\ sent' = [sent EXCEPT ![o] = @ + 1]
    /\ queue' = [queue EXCEPT ![o] = @ + 1]
    /\ UNCHANGED <<inbox, delivery, handled, causes, crashes>>

Receive(d, o) ==
    /\ delivery[d] = Free
    /\ queue[o] > 0
    /\ queue' = [queue EXCEPT ![o] = @ - 1]
    /\ delivery' = [delivery EXCEPT ![d] = [pc |-> "check", of |-> {o}, rows |-> {}]]
    /\ causes' = causes \union
                    {c \in {"deliveriesOverlap"} : \E e \in Deliveries : delivery[e] # Free}
    /\ UNCHANGED <<sent, inbox, handled, crashes>>

Check(d, o) ==
    /\ delivery[d].pc = "check" /\ delivery[d].of = {o}
    /\ delivery' = [delivery EXCEPT ![d].pc = IF inbox[o] = "absent" THEN "insert" ELSE "load"]
    /\ UNCHANGED <<sent, queue, inbox, handled, causes, crashes>>

Insert(d, o) ==
    /\ delivery[d].pc = "insert" /\ delivery[d].of = {o}
    /\ inbox[o] = "absent"
    /\ inbox' = [inbox EXCEPT ![o] = "unprocessed"]
    /\ delivery' = [delivery EXCEPT ![d].pc = "load"]
    /\ UNCHANGED <<sent, queue, handled, causes, crashes>>

\* The primary key: the message goes to the error queue.
InsertThrows(d, o) ==
    /\ delivery[d].pc = "insert" /\ delivery[d].of = {o}
    /\ inbox[o] # "absent"
    /\ delivery' = [delivery EXCEPT ![d] = Free]
    /\ UNCHANGED <<sent, queue, inbox, handled, causes, crashes>>

Unprocessed == {o \in Orders : inbox[o] = "unprocessed"}

\* The rows of the inbox, each begun by ForEach.
Load(d, rows) ==
    /\ delivery[d].pc = "load"
    /\ delivery' = [delivery EXCEPT ![d].pc = "loaded", ![d].rows = rows]
    /\ handled' = [o \in Orders |-> IF o \in rows THEN Up(handled[o]) ELSE handled[o]]
    /\ UNCHANGED <<sent, queue, inbox, causes, crashes>>

\* Mutants: the rows that are processed too, and the rows but the one just inserted.
LoadEverything(d) == Load(d, {o \in Orders : inbox[o] # "absent"})

LoadOthers(d) == Load(d, Unprocessed \ delivery[d].of)

LoadUnprocessed(d) == Load(d, Unprocessed)

Save(d, o) ==
    /\ o \in delivery[d].rows
    /\ inbox' = [inbox EXCEPT ![o] = "processed"]
    /\ delivery' = [delivery EXCEPT ![d] =
          IF delivery[d].pc = "acked" /\ delivery[d].rows = {o} THEN Free
          ELSE [delivery[d] EXCEPT !.rows = @ \ {o}]]
    /\ UNCHANGED <<sent, queue, handled, causes, crashes>>

\* Consume returns, and the message is acknowledged, whatever the saves do.
Acknowledge(d) ==
    /\ delivery[d].pc = "loaded"
    /\ delivery' = [delivery EXCEPT ![d] =
          IF @.rows = {} THEN Free ELSE [@ EXCEPT !.pc = "acked", !.of = {}]]
    /\ UNCHANGED <<sent, queue, inbox, handled, causes, crashes>>

\* What is not acknowledged is delivered again.
HeldBy(o) == {d \in Deliveries : o \in delivery[d].of}

\* Mutant: messages are acknowledged when they are received.
StockForgets ==
    /\ delivery' = [d \in Deliveries |-> Free]
    /\ causes' = causes \union {"stockDied"}
    /\ UNCHANGED <<sent, queue, inbox, handled>>

StockDies ==
    /\ delivery' = [d \in Deliveries |-> Free]
    /\ queue' = [o \in Orders |-> queue[o] + Cardinality(HeldBy(o))]
    /\ causes' = causes \union {"stockDied"}
    /\ UNCHANGED <<sent, inbox, handled>>

\* An exception in an async void ends the process: a second SaveChangesAsync
\* on the context of the first, or a context that is disposed.
SaveThrows(d) ==
    /\ Cardinality(delivery[d].rows) > 1 \/ delivery[d].pc = "acked"
    /\ StockDies
    /\ UNCHANGED crashes

StockCrash ==
    /\ crashes < MaxCrashes
    /\ crashes' = crashes + 1
    /\ StockDies

-----------------------------------------------------------------------------
DeliveryStep(d) ==
    \/ \E o \in Orders : Check(d, o) \/ Insert(d, o) \/ InsertThrows(d, o) \/ Save(d, o)
    \/ LoadUnprocessed(d)
    \/ Acknowledge(d)
    \/ SaveThrows(d)

Next ==
    \/ \E o \in Orders : Publish(o)
    \/ \E d \in Deliveries : DeliveryStep(d) \/ \E o \in Orders : Receive(d, o)
    \/ StockCrash

Spec == Init /\ [][Next]_vars

\* What has begun goes on, and the first in the queue is the first out.
FairSpec ==
    /\ Spec
    /\ \A d \in Deliveries : WF_vars(DeliveryStep(d))
    /\ \A o \in Orders : SF_vars(\E d \in Deliveries : Receive(d, o))

-----------------------------------------------------------------------------
\* Each variable has its type, and only what is acknowledged forgets its message.
TypeOK ==
    /\ {sent, queue} \subseteq [Orders -> 0 .. MaxCopies]
    /\ inbox \in [Orders -> InboxStates]
    /\ delivery \in [Deliveries -> DeliveryStates]
    /\ \A d \in Deliveries :
          Cardinality(delivery[d].of) = (IF delivery[d].pc \in {"free", "acked"} THEN 0 ELSE 1)
    /\ handled \in [Orders -> Counts]
    /\ causes \subseteq Causes
    /\ crashes \in 0 .. MaxCrashes

\* What was published is in the queue, in a delivery that will put it in the
\* inbox, or there: a message is acknowledged only behind its row.
NothingIsLost ==
    \A o \in Orders :
        sent[o] > 0 => queue[o] > 0 \/ HeldBy(o) # {} \/ inbox[o] # "absent"

\* However often it is published, an event is processed twice only if two
\* deliveries overlapped or the process died with a save under way.
RepeatedHandlingHasCause ==
    (\E o \in Orders : handled[o] > 1) =>
        causes \intersect {"deliveriesOverlap", "stockDied"} # {}

\* Every published event is processed, unless Stock.Services died.
EveryEventIsProcessed ==
    \A o \in Orders : sent[o] > 0 ~> inbox[o] = "processed" \/ "stockDied" \in causes

=============================================================================
