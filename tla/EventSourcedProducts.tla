------------------------ MODULE EventSourcedProducts ------------------------
(***************************************************************************)
(* ReadDataEventStoreExample: Product.Application appends what a form asks  *)
(* for to "products-stream", and Product.Event.Handler.Service applies the  *)
(* stream, one event after the other, to the documents of the "Products"    *)
(* collection, which the pages show.  The handler keeps no checkpoint: each *)
(* start of the service subscribes from the start of the stream, on the     *)
(* documents the last one left; a dropped subscription stays dropped.       *)
(***************************************************************************)
EXTENDS Integers, Sequences, FiniteSetsExt

CONSTANTS Products,    \* the Guids of the products that will be created
          Forms,       \* [count, price, available] of a creation form
          Amounts,     \* what the update forms add or take
          IntLimit,    \* 2^31: an int lies between -IntLimit and IntLimit - 1
          PriceLimit,  \* the largest decimal
          MaxEvents,   \* bound: length of the stream
          MaxRequests, \* bound: AvailableUpdate requests of one product at once
          MaxRestarts  \* bound: how often the service restarts

ASSUME BoundsAssumption ==
    /\ IntLimit \in Nat \ {0}
    /\ {PriceLimit, MaxEvents, MaxRequests, MaxRestarts} \subseteq Nat

\* The range of a C# int, and its unchecked arithmetic.
Ints == -IntLimit .. IntLimit - 1

Wrap(n) == ((n + IntLimit) % (2 * IntLimit)) - IntLimit

Decimals == -PriceLimit .. PriceLimit

Documents == [count : Ints, price : Decimals, available : BOOLEAN]

\* Model binding turns a form into an int, a decimal and a bool.
ASSUME FormsAssumption == Forms \subseteq Documents

ASSUME AmountsAssumption == Amounts \subseteq Int

VARIABLES stream,      \* Seq(Events): products-stream
          model,       \* [Products -> Documents or NoDocument]: collection Products
          position,    \* events the subscription has handled
          subscribed,  \* FALSE: subscriptionDropped was called
          changing,    \* [Products -> [BOOLEAN -> Nat]]: AvailableUpdate
                       \* requests that have compared and not appended
          runs,        \* Seq(Nat): how far each earlier subscription came
          wanted,      \* [Products -> BOOLEAN]: what the last creation or
                       \* AvailableUpdate that returned asked for
          raced        \* products with an AvailableUpdate that met another
                       \* one, or a document behind the stream

streamVars == <<stream, changing, wanted, raced>>
handlerVars == <<model, position, subscribed, runs>>
vars == <<streamVars, handlerVars>>

NoDocument == [count |-> 0]

AmountEvents == {"CountDecreased", "CountIncreased", "PriceDecreased", "PriceIncreased"}

Events == [type : {"NewProductAdded"}, product : Products, form : Forms]
              \union [type : AmountEvents, product : Products, amount : Amounts]
              \union [type : {"AvailabilityChanged"}, product : Products, available : BOOLEAN]

Added == {stream[k].product : k \in {j \in DOMAIN stream : stream[j].type = "NewProductAdded"}}

\* The pages only offer what they list.
Listed == {p \in Products : model[p] # NoDocument}

Init ==
    /\ stream = <<>>
    /\ model = [p \in Products |-> NoDocument]
    /\ position = 0
    /\ subscribed = TRUE
    /\ changing = [p \in Products |-> [a \in BOOLEAN |-> 0]]
    /\ runs = <<>>
    /\ wanted = [p \in Products |-> FALSE]
    /\ raced = {}

-----------------------------------------------------------------------------
(* Product.Application *)

AppendToStream(e) ==
    /\ Len(stream) < MaxEvents
    /\ stream' = Append(stream, e)

Create(p, form) ==
    /\ p \notin Added
    /\ AppendToStream([type |-> "NewProductAdded", product |-> p, form |-> form])
    /\ wanted' = [wanted EXCEPT ![p] = form.available]
    /\ UNCHANGED <<changing, raced, handlerVars>>

\* CountUpdate and PriceUpdate, by durum.  The document they read is not used.
AmountUpdate(p, type, amount) ==
    /\ p \in Listed
    /\ AppendToStream([type |-> type, product |-> p, amount |-> amount])
    /\ UNCHANGED <<changing, wanted, raced, handlerVars>>

\* The availability the first n events of the stream leave a product with.
AvailabilityAt(p, n) ==
    LET sets == {k \in 1 .. n : /\ stream[k].product = p
                                /\ stream[k].type \in {"NewProductAdded", "AvailabilityChanged"}}
        last == stream[Max(sets)]
    IN IF last.type = "NewProductAdded" THEN last.form.available ELSE last.available

Compared(p) ==
    raced' = IF \/ model[p].available # AvailabilityAt(p, Len(stream))
                \/ \E b \in BOOLEAN : changing[p][b] > 0
             THEN raced \union {p} ELSE raced

\* AvailableUpdate up to its if.  Mutant: the comparison is the wrong way round.
CompareInverted(p, available) ==
    /\ p \in Listed
    /\ changing[p][TRUE] + changing[p][FALSE] < MaxRequests
    /\ Compared(p)
    /\ \/ /\ model[p].available = available
          /\ changing' = [changing EXCEPT ![p][available] = @ + 1]
          /\ UNCHANGED wanted
       \/ /\ model[p].available # available
          /\ wanted' = [wanted EXCEPT ![p] = available]
          /\ UNCHANGED changing
    /\ UNCHANGED <<stream, handlerVars>>

CompareAvailability(p, available) ==
    /\ p \in Listed
    /\ changing[p][TRUE] + changing[p][FALSE] < MaxRequests
    /\ Compared(p)
    /\ \/ /\ model[p].available # available
          /\ changing' = [changing EXCEPT ![p][available] = @ + 1]
          /\ UNCHANGED wanted
       \/ /\ model[p].available = available
          /\ wanted' = [wanted EXCEPT ![p] = available]
          /\ UNCHANGED changing
    /\ UNCHANGED <<stream, handlerVars>>

\* AvailableUpdate after its await.
AppendAvailability(p, available) ==
    /\ changing[p][available] > 0
    /\ AppendToStream([type |-> "AvailabilityChanged", product |-> p, available |-> available])
    /\ changing' = [changing EXCEPT ![p][available] = @ - 1]
    /\ wanted' = [wanted EXCEPT ![p] = available]
    /\ UNCHANGED <<raced, handlerVars>>

-----------------------------------------------------------------------------
(* Product.Event.Handler.Service *)

\* Mutant: a product that is there already is inserted again.
InsertedAgain(doc, form) == [form EXCEPT !.count = Wrap(form.count)]

Inserted(doc, form) == IF doc = NoDocument THEN form ELSE doc

\* Mutant: the event toggles.
AppliedByToggle(doc, e) ==
    CASE e.type = "CountDecreased"      -> [doc EXCEPT !.count = Wrap(@ - e.amount)]
      [] e.type = "CountIncreased"      -> [doc EXCEPT !.count = Wrap(@ + e.amount)]
      [] e.type = "PriceDecreased"      -> [doc EXCEPT !.price = @ - e.amount]
      [] e.type = "PriceIncreased"      -> [doc EXCEPT !.price = @ + e.amount]
      [] e.type = "AvailabilityChanged" -> [doc EXCEPT !.available = ~@]

\* Mutant: the count is an integer without a width.
AppliedUnbounded(doc, e) ==
    CASE e.type = "CountDecreased"      -> [doc EXCEPT !.count = @ - e.amount]
      [] e.type = "CountIncreased"      -> [doc EXCEPT !.count = @ + e.amount]
      [] e.type = "PriceDecreased"      -> [doc EXCEPT !.price = @ - e.amount]
      [] e.type = "PriceIncreased"      -> [doc EXCEPT !.price = @ + e.amount]
      [] e.type = "AvailabilityChanged" -> [doc EXCEPT !.available = e.available]

\* The cases that change a document that is there.
Applied(doc, e) ==
    CASE e.type = "CountDecreased"      -> [doc EXCEPT !.count = Wrap(@ - e.amount)]
      [] e.type = "CountIncreased"      -> [doc EXCEPT !.count = Wrap(@ + e.amount)]
      [] e.type = "PriceDecreased"      -> [doc EXCEPT !.price = @ - e.amount]
      [] e.type = "PriceIncreased"      -> [doc EXCEPT !.price = @ + e.amount]
      [] e.type = "AvailabilityChanged" -> [doc EXCEPT !.available = e.available]

Handled(doc, e) ==
    IF e.type = "NewProductAdded" THEN Inserted(doc, e.form)
    ELSE IF doc = NoDocument THEN NoDocument ELSE Applied(doc, e)

\* A decimal overflows with an exception, an int silently.
Throws(doc) == doc # NoDocument /\ doc.price \notin Decimals

Handle ==
    /\ subscribed
    /\ position < Len(stream)
    /\ LET e == stream[position + 1]
           doc == Handled(model[e.product], e)
       IN /\ ~Throws(doc)
          /\ model' = [model EXCEPT ![e.product] = doc]
    /\ position' = position + 1
    /\ UNCHANGED <<subscribed, runs, streamVars>>

\* The handler throws, and the client drops the subscription.  Mutant: it is
\* offered the same event for ever.
HandleRetries == FALSE

HandleThrows ==
    /\ subscribed
    /\ position < Len(stream)
    /\ LET e == stream[position + 1] IN Throws(Handled(model[e.product], e))
    /\ subscribed' = FALSE
    /\ UNCHANGED <<model, position, runs, streamVars>>

\* The connection to the event store, or to MongoDB, breaks.
Drop ==
    /\ subscribed
    /\ subscribed' = FALSE
    /\ UNCHANGED <<model, position, runs, streamVars>>

\* The service stops or dies, and starts: FromStream.Start.
Restart ==
    /\ Len(runs) < MaxRestarts
    /\ runs' = Append(runs, position)
    /\ position' = 0
    /\ subscribed' = TRUE
    /\ UNCHANGED <<model, streamVars>>

Next ==
    \/ \E p \in Products :
          \/ \E form \in Forms : Create(p, form)
          \/ \E type \in AmountEvents, amount \in Amounts : AmountUpdate(p, type, amount)
          \/ \E a \in BOOLEAN : CompareAvailability(p, a) \/ AppendAvailability(p, a)
    \/ Handle
    \/ HandleThrows
    \/ Drop
    \/ Restart

Spec == Init /\ [][Next]_vars

\* The event store pushes what the subscription has not seen.
FairSpec == Spec /\ WF_vars(Handle \/ HandleThrows)

-----------------------------------------------------------------------------
\* Each variable has its type: counts are ints, prices decimals.
TypeOK ==
    /\ stream \in Seq(Events)
    /\ model \in [Products -> Documents \union {NoDocument}]
    /\ position \in 0 .. Len(stream)
    /\ subscribed \in BOOLEAN
    /\ changing \in [Products -> [BOOLEAN -> Nat]]
    /\ runs \in Seq(Nat)
    /\ wanted \in [Products -> BOOLEAN]
    /\ raced \subseteq Products

\* f[1] + ... + f[n]
SumTo(f, n) ==
    LET sum[k \in 0 .. n] == IF k = 0 THEN 0 ELSE sum[k - 1] + f[k] IN sum[n]

\* What an event of the stream adds to a field of the product.
Change(p, e, up, down) ==
    CASE e.product = p /\ e.type = up   -> e.amount
      [] e.product = p /\ e.type = down -> -e.amount
      [] OTHER                          -> 0

\* What the first n events add, after the creation.
Delta(p, n, up, down) == SumTo([k \in 1 .. n |-> Change(p, stream[k], up, down)], n)

FormOf(p) ==
    LET k == CHOOSE j \in DOMAIN stream : /\ stream[j].product = p
                                          /\ stream[j].type = "NewProductAdded"
    IN stream[k].form

\* Over this subscription and all the earlier ones.
Total(p, up, down) ==
    Delta(p, position, up, down)
      + SumTo([r \in DOMAIN runs |-> Delta(p, runs[r], up, down)], Len(runs))

\* Count and price are what the product was created with and every change, as
\* often as a subscription has replayed it: exact until the first restart, and
\* off by the whole replayed prefix for each restart after it.
ReplaysAddUp ==
    \A p \in Listed :
        /\ model[p].count = Wrap(FormOf(p).count + Total(p, "CountIncreased", "CountDecreased"))
        /\ model[p].price = FormOf(p).price + Total(p, "PriceIncreased", "PriceDecreased")

\* Availability survives a replay: as far as any subscription has come, it is
\* what the stream says.
AvailabilityRecovers ==
    \A p \in Listed :
        (\A r \in DOMAIN runs : position >= runs[r])
            => model[p].available = AvailabilityAt(p, position)

\* What an AvailableUpdate asked for is what the page shows once the handler
\* has caught up, unless it was compared with a document behind the stream or
\* met another request between its read and its append.
UnracedChangeStands ==
    \A p \in Listed \ raced :
        /\ position = Len(stream)
        /\ \A a \in BOOLEAN : changing[p][a] = 0
        => model[p].available = wanted[p]

\* Every event is handled while the subscription lives.
EveryEventIsHandled ==
    \A k \in 1 .. MaxEvents : Len(stream) >= k ~> position >= k \/ ~subscribed

=============================================================================
