# Verification of the microservice examples

TLA+ models, TLC checks and TLAPS proofs for the services of this repository:
a course in microservice architecture, each chapter a small solution of .NET
services that talk over HTTP, RabbitMQ (MassTransit), SQL Server, MongoDB and
EventStoreDB. The code of a chapter is short; what makes it hard is what happens
between its services. That is what is modelled here.

## The system: inventory

### 2PC coordinator (`2PCProtocolStrongConsistency/Coordinator`)

- *State*: table `NodeStates` (SQL Server), a row for each transaction and node
  with `IsReady` and `TransactionState`; table `Nodes`, seeded with three nodes;
  for each request a `DbContext` that tracks the rows it has read.
- *Operations*: `CreateTransactionAsync`, `PrepareServicesAsync`,
  `CheckReadyServicesAsync`, `CommitAsync`, `CheckTransactionStateServicesAsync`,
  `RollBackAsync`, in the order GET `/create-order-transaction` calls them.
- *Interacts* with Order.API, Stock.API and Payment.API by HTTP GET: `ready`,
  `commit`, `rollback`, without a transaction id. The three are stateless and
  return `true`.
- *Hard*: an answer that is lost or late (the call times out at the coordinator
  and runs at the service), the death of the coordinator (no recovery exists), an
  exception of the database between two phases, two requests at once.
- *Correct* if nothing commits without every vote, nothing is rolled back that was
  not committed, the table never claims a commit that did not happen and gives a
  finished transaction one outcome; and, by its name, if all services commit or none.

### Choreographed saga (`SagaPatternChoreographyPractice`)

- *State*: table `Orders` of Order.API (`Suspend`, `Completed`, `Failed`); the
  MongoDB collection of Stock.API (a count per product); the queues of
  RabbitMQ, MassTransit's `_skipped` and `_error` queues among them.
- *Operations*: POST `/create-order` (save, then publish `OrderCreatedEvent`);
  Stock.API's `OrderCreatedEventConsumer` (check every item, then read and replace
  every document, then send `StockReservedEvent` or publish `StockNotReservedEvent`);
  Payment.API's `StockReservedEventConsumer` (`if (true)`, publish without await);
  Order.API's three consumers that write the status; Stock.API's
  `PaymentFailedEventConsumer`, meant to give the stock back.
- *Interact* only by events; queue names are in `Shared/RabbitMQSettings.cs`.
- *Hard*: deliveries of one consumer interleave between check and replacement,
  a count nobody validated is subtracted from an `int`, messages are delivered again after a crash, the order and its event are written
  separately, two processes are configured on one queue.
- *Correct* if stock is neither oversold nor lost, every order is answered once,
  an order's outcome has its reason and is final, and no order is forgotten.

### Orchestrated saga (`SagaPatternOrchestrationPractice`)

- *State*: the saga instances of `OrderStateMachine` (SQL Server, a row per
  `CorrelationId`, removed when finalized), the orders of Order.API, the stock.
- *Operations*: the transitions of the state machine, the two registered consumers
  of Order.API, two of Stock.API (`StockRollbackMessageConsumer` among them) and
  one of Payment.API.
- *Interact* through the state machine's queue; every transition sends to one queue.
- *Hard*: messages are sent before the instance is saved and there is no outbox, so
  the first answer may come before there is an instance to take it, and a crash may start a
  second instance for an order; a redelivered answer finds no
  handler in the state reached, or no instance; the compensation throws.
- *Correct* if only a crash gives an order a second instance, every order sent is
  decided, and its outcome has its reason and is final.

### Outbox (`OutBoxAndInBoxDesignPatternPractice`: Order.API and the publisher)

- *State*: tables `Orders` and `OrderOutboxes`; the static busy flag and the one
  shared connection of `OrderOutboxSingletonDatabase`.
- *Operations*: POST `/create-order` (two saves), the Quartz job every five seconds
  (flag, select, publish, mark).
- *Hard*: dying between the two saves, a flag that stays busy when the job throws,
  runs that overlap between the test of the flag and its setting, an UPDATE that is
  not awaited, and of another column than the one the SELECT looks at.
- *Correct* if every row is published at least once, and only then marked, and the runs
  of the job, which share a connection, keep apart.

### Inbox (`OutBoxAndInBoxDesignPatternPractice/Stock.Services`)

- *State*: table `OrderInboxes`, keyed by `IdempotentToken`.
- *Operations*: the consumer inserts the message if its token is new, loads all rows
  not processed, and saves each as processed in an `async void`.
- *Hard*: check and insert race, two deliveries load the same rows, the saves share
  one `DbContext`, which is disposed when `Consume` returns; an exception in an
  `async void` ends the process, after the message has been acknowledged.
- *Correct* if no published event is lost and each is processed once.

### Event-sourced products (`ReadDataEventStoreExample`)

- *State*: the stream `products-stream`; the MongoDB collection `Products`.
- *Operations*: the forms of `ProductController` append events with `StreamState.Any`;
  the background service subscribes from the start of the stream and applies each event.
- *Hard*: a restart replays the stream onto the documents that are still there;
  `AvailableUpdate` compares with a document that lags, and two of them race;
  a count wraps, a price overflows, a dropped subscription is not taken up again.
- *Correct* if the collection is what the stream says.

### Client-side form validation (`ReadDataEventStoreExample/Product.Application/wwwroot`)

The controller does not look at `ModelState`; what keeps a broken product out of the
stream is the browser. `jquery.validate.unobtrusive.js` turns the `data-val-*` attributes
ASP.NET renders into rules of jquery.validate, and steers it by callbacks.

- *State*: the rules of each field, which names are `submitted` and `invalid` in the
  validator, the classes of inputs and message elements, the texts of the messages.
- *Operations*: the adapters, `parseElement`, `parse`, `attachValidation`, `onError`,
  `onSuccess`, `onReset`, and what jquery.validate does on a key, on focus out, on a
  click, on submit and on reset.
- *Hard*: adapters overwrite each other's rules; checks are lazy until a field has failed;
  two libraries mark a field, each its own element; a field without a message element
  refuses in silence; a form may be submitted before the validation is attached; what the
  scripts take for filled in or for a number is not always so to the server.
- *Correct* if what is sent keeps what the model declares, and what the page shows
  at a field is true of it.

### Basic services (`BasicMicroserviceArchitecture`)

The choreography's first version: the same POST, the same loop over the items in
Stock.API, the same queues; its stock consumer throws at its end, and no consumer
compensates. It is `ChoreographySaga` with `version = "basic"`.

### The rest

`EventStorePractice` is a console demonstration of a client library.
`APIGatewayOcelot`, `APIGatewayYARP` and `NGINXLoadBalancer` are configuration of
other programs, `HealthCheckExample` and `TraceabilityPractice` are stateless
endpoints and logging. Migrations are generated; jQuery, jquery.validate and
bootstrap under `wwwroot` are vendored, and modelled as far as the validation needs them.

## Modules

| module | what it is |
| --- | --- |
| `TwoPhaseCoordinator` | the coordinator, its table, the calls in flight |
| `TransactionLedger` | abstract: what the table promises about effects |
| `StockReservation` | Stock.API's `OrderCreatedEventConsumer` of both sagas, deliveries and redelivery |
| `StockRaces` | the same with a history of the replacements that lost another one |
| `StockOverlaps` | the same with a history of where two deliveries were about to take a product at once, and which a crash cut short |
| `Inventory` | abstract: a stock service that reserves an order in one step, on every product that is not disturbed |
| `ChoreographySaga` | the three services of the choreography, with `StockReservation` as its Stock.API |
| `OrchestrationSaga` | the state machine and its three services, with `StockReservation` as its Stock.API |
| `OrderProcess` | abstract: the life of an order, which both sagas implement |
| `OutboxPublisher` | the POST with its outbox row, and the publish job |
| `Inbox` | the consumer behind the inbox |
| `EventSourcedProducts` | controller, stream, subscription and read model |
| `ValidationAdapters` | the adapters of jquery.validate.unobtrusive, the rules they set, and what the annotations of a model declare |
| `ValidatedForm` | a form in the browser: its user, jquery.validate and unobtrusive's callbacks |
| `...Proofs` | theorems about the module they are named after |
| `MC...` | values for the constants |

### TwoPhaseCoordinator

`db` is the table, `tracked` what the request's `DbContext` holds: the methods write
the entities one by one and save them at the end of their loop, and the checks
between the phases query again but, the query tracking, read the entities in memory.
`pc` says which method the endpoint is in, `todo` the rows its `foreach` has left (SQL
promises no order), `waiting` the node whose answer is awaited. `requests` and `served` are
calls on the wire and calls a service has run; `gaveUp` remembers calls whose await
threw. The loop bodies are split where the code awaits: `SendCall`, then `Answered`
or `CallFails`. `CallFails` leaves the request on the wire, so a service may run it
long after. `DatabaseFails` stands for the exceptions of SQL Server, which no
`try` of the service covers; `Crash` for the process. Neither is followed by anything:
the code resumes no transaction.

Left out: the `Guid` (a transaction is its identity), logging, and DI.

### StockReservation

One variable per local of the consumer: `enough` for `stockResult`, `next` for the loop
position, `copy` for the document between `FindAsync` and `FindOneAndReplaceAsync`.
`Limit` is the number of deliveries MassTransit has in progress (the code leaves it
at the default, above 1). A crash queues again what was not acknowledged and loses what was in
memory; the collection stays. Counts are `int`s, from `-IntLimit` to `IntLimit - 1`, and the
subtraction wraps: an order for `int.MinValue` pieces passes the check and leaves the count below
zero. Prices and buyers are left out.

`StockRaces` adds one history variable: `lost`, the products of which a replacement wrote a
copy that was no longer the document (`LosesUpdate`). What the race costs depends on it.
Until then a product is oversold by at most `Limit - 1` reservations. A lost update gives back
pieces that are sold already; the next check counts them, and they are sold again, as often
as that happens.

`StockOverlaps` adds two: `contended`, the products that two deliveries were about to take at
once (`Awaits`: found in sufficient number and not replaced yet), and `interrupted`, the orders
of the deliveries a crash cut short after their check. Nothing in the code keeps deliveries apart,
so the module says what the consumer promises where they happen not to meet, whatever goes
on beside. To `Inventory` an order takes its items when its check is over: the count
of a product less what is still `Outstanding` is what is `Available`. A product is disturbed
from then on if it was contended, if an order lists it twice or in a negative number
(`Orderly`), or if it is in an interrupted order; the outcome of that order is unsettled. All
else must be a step of `Inventory`: undisturbed products are taken all at once, or not at all
if one is short, also by orders that share a disturbed product with others.

### ChoreographySaga

It uses the actions of `StockReservation` as they are and adds the orders, the queues
of the other four events and Payment.API. `paymentQueue` is the queue Payment.API
listens on, chosen once from `PaymentQueues`: `stock-order-created-event-queue` is what its
`Program.cs` says, `payment-stock-reserved-queue` what `RabbitMQSettings` has for
it; both are checked, so that what holds does not hold only because no order is
ever paid. `PaymentAnswers` is `{TRUE}` for `if (true)`, and both
values to exercise the branch the code writes for a refusal. A queue is counted
per order, without an order among messages: consumers run concurrently and
redelivery reorders. `version` is chosen once: `"saga"`, or `"basic"` for the first
version of the services, in which `OrderCreatedEventConsumer` throws after it has
answered (the message ends in the error queue and the order goes on) and Stock.API has
no `PaymentFailedEventConsumer`. Its POST adds an order with `new Guid()`; Entity Framework
generates the key, so two orders do not meet. A message no consumer of its process handles is
`skipped`, one whose consumer throws is in `error`; neither comes back.

### OrchestrationSaga

`saga` is the state of each instance, `queue` counts each message. MassTransit's EF
repository locks the row of an instance while it handles a message, so a handler of an
instance that has a row is one step if it survives: the transition, what it sends, the
acknowledgement. A new instance has no row to lock, and no outbox holds its message back:
`StartInstance` sends `OrderCreatedEvent` and leaves it "starting", `InsertInstance` saves it.
An answer that comes in between finds no instance and goes to the error queue; `early`
remembers the order. A crash cuts a handler in one of two places, and each is an action: `...Unsaved` (some or all of the
sends are out, the row is as it was) and `...Unacked` (all are out and the row is
saved); in both, the message comes again. A handler that dies before its first send
has done nothing. An event its state does not accept, and one whose instance has
been removed, goes to the error queue (`StartRefused`, `ReactRefused`).
`StockReservation` is instantiated with the instances in place of the orders: each
instance is one message to Stock.API. `StockRollbackMessageConsumer` uses a
`_context` nothing assigns, so its action takes the message and gives no stock back.

The project does not compile as committed: `OrderCreatedEvent` and
`StockNotReservedEvent` lack the constructor with a `CorrelationId` their users
call. The model takes the constructor to set it, as the sibling events do.
`Order.API/Consumers/StockNotReservedEventConsumer.cs` is registered nowhere and is
not modelled.

### OrderProcess

The order as its customer sees it: `Suspend` until stock answers, then payment, then an
outcome some answer stands for. `disrupted` is whether a process has died. Until
then each side answers once and the outcome is final; afterwards answers may
repeat and an outcome may be overwritten, but never by one nobody answered for. The
sagas map `disrupted` to `crashes > 0`, their `answers` and `payments` to the answers; in
the orchestration those of all instances of an order together.

### OutboxPublisher

`order` is the POST between its saves, `outbox` the table, `busy` the flag, `job` the runs
of the job Quartz has started, `updates` the UPDATEs nobody awaits. `built`, chosen
once, says whether the database has what the code needs: the committed
`OrderAPIDbContext` says `HasNoKey` for an entity that is then added (`AddAsync`
throws), and the job asks for a column `PROCESSEDDATE` where the entity has
`ProccessedDate` (the query throws), which is the one its UPDATE sets. As committed both lack.
With the key and both columns everything runs, and since nobody writes the column the SELECT
looks at, `Rows` are all rows, marked or not: each run publishes every order again. The models
say nothing of how often an event is published; the inbox at the other end is made for that. Neither the publisher nor `Stock.Services` registers
MassTransit in its `Program.cs`; the models take it to be registered. An UPDATE
may fail unseen: it runs on one connection shared with the next query.

### Inbox

A delivery holds its message (`of`) until `Consume` returns and the rows its `ForEach`
has begun to save (`rows`) until each is saved, and keeps its place until both
are over. `SaveThrows` is the end of the process: a second `SaveChangesAsync` on a
context that has one under way, or any on a disposed context, throws in an `async void`. What was
not acknowledged comes again. `sent` is the outbox, which publishes each event up
to `MaxCopies` times. A database that fails for another reason is left out. The older
copy `Stock.Service` has an empty `Consume`.

### EventSourcedProducts

`stream` is the stream, `model` the collection, `position` how far the subscription has
come, `runs` how far each earlier one came. `changing` are `AvailableUpdate` requests
between their read and their append; `wanted` and `raced` are history, for
`UnracedChangeStands`. Count is a C# `int`, from `-IntLimit` to `IntLimit - 1`, and wraps; price
is a `decimal` and overflow throws out of the handler, which drops the subscription for good. A
failure of MongoDB or of the event store is a `Drop` too. The pages offer forms
only for products they list. One process runs the handler. The handler's project
refers to `Shared`, which was renamed `SharedEventStore`, and lacks usings; it is
modelled as meant.

### ValidationAdapters and ValidatedForm

`Adapters` lists the adapters in the order of their registration; `Sets` says which of
its rules an adapter sets for a field, `ParseElement` what is left when the later ones
have overwritten the earlier, `__dummy__` with them. A value is told apart by its length, whether it is
blank, the number JavaScript makes of it (`coerced`), the one the model binder reads (`parsed`), and the
formats and patterns it meets. `Passes` is the method of a rule, `Meets` what the
annotation means on the server, which is modelled from what ASP.NET does with a posted string: blanks
are bound to null, and null breaks `[Required]` and nothing else; a number is what the binder
reads. The two differ, and `LetThrough` says where: blanks fill in a required field for the
script, and a value that is another number to the script than to the binder, or none to one of
them, may pass (`0x5` is within a range). `ProductController` does not look at `ModelState`, so a
product with a blank name is created. `[Url]` is left out of what is declared: the script's
test of it is looser.

In `ValidatedForm` the user types, pastes, leaves a field, clicks, submits, resets and
comes back with the back button; each action runs the handlers of both libraries to their end, as
one event of a browser does. `Paste` is any value that comes without a key event; the
validator hears of it at the next check. `phase` is `loading` until the document is ready, and
a submit then is `SubmitUnchecked`, which only the browser's own check of number inputs may
refuse. `failed` and `unseen` are history, for `FailedFieldsAreWatched`.

What the code does and one might not expect: `onReset` takes the classes away and leaves the
text of the message; `onError` takes the class from the label by which jquery.validate
would find it again, so each check makes a new one; `[MaxLength]` beside `[StringLength]` loses the
bound of the latter, as both set `maxlength` (`Overwritten` names the case). The adapters
`creditcard`, `extension` and `fileextensions` set rules whose methods no loaded
script has: checking one throws. `FormsAssumption` excludes them; no page uses them.

Left out: `remote` (a request), `equalTo` (between fields), files, the summary of errors
(the pages render none for fields), the rules jquery.validate reads from HTML attributes other than
`type="number"`, and a range with one bound only, which ASP.NET never renders. The views of
the controller are in a folder `Products`, which MVC does not look in for `ProductController`;
they are modelled as if found.

## Runs

| run | question | bounds |
| --- | --- | --- |
| `coordinator` | may a row or a call say what is not so, does the coordinator implement `TransactionLedger`, does every run end? | two runs at once, two nodes |
| `coordinator_strong_consistency` | is it strongly consistent? (no) | one run, two nodes |
| `stock_crash` | how far can the race oversell, with crashes, until an update is lost? | five orders for one product, three deliveries at a time, any number of crashes |
| `stock_concurrent` | without crashes, is stock lost, is every order answered once, does the second loop meet a missing document? | four orders, two products, three deliveries at a time |
| `stock_overlaps` | is the consumer an atomic stock service where deliveries do not meet, and what else takes a count below zero? | three orders, three products, one order with an unknown product, one for `int.MinValue` pieces, two deliveries at a time, any number of crashes |
| `choreography` | does it implement `OrderProcess`, is each order decided or accounted for? | both versions, two orders for the last piece, either payment queue, one crash of any process |
| `choreography_payment` | is a reserved order paid? (no, as wired) | the same, with the queue as wired and no crash |
| `orchestration` | does it implement `OrderProcess`, is each order sent decided, what does a second saga need? | two orders for the last piece, one crash anywhere in any handler |
| `event_sourced_products` | what does a replay do to count, price and availability? | one product, four events, two requests at a time, two restarts, two-bit ints |
| `outbox` | is every row published, none marked before, and are the runs of the job kept apart? | two orders, two runs of the job at a time, one crash of either process |
| `inbox` | is every published event kept and processed, none twice without a reason? | two events published up to twice, two deliveries at a time, one crash besides those the code causes |
| `product_form` | does what is sent keep what the model declares, and is what the page shows true? | the forms of the pages Create and Edit, and one field for each two of ten annotations; five texts that tell the rules, and the scripts from the server, apart |

The bounds. A commit that goes wrong needs one node that commits and one that
does not, so two nodes are enough for every scenario of the coordinator; the seed data
has three, and the proofs hold for any number. Two runs at once share no row, and each
property is about one run among others. Overselling needs two deliveries that pass the check
before either replaces; three competing orders and two products also give the
lost update, the order that is cut between two products, and two orders that take
the products in opposite order. That a lost update takes the bound away needs five orders
and three deliveries at a time: two race and a third passes the check on what was given back. In
the instance of `stock_concurrent` with two deliveries the bound holds without its condition. In `stock_overlaps`
each of the products has two orders or is disturbed from the start, and each order shares a product with another, so that
an overlap on one product leaves the others to be checked; an `int` from -3 to 2
is enough to wrap. One crash is enough for each of the sagas' losses, for
one duplicate of each message and for a second saga of an order; two crashes add only
duplicates of duplicates. `MaxCrashes` is the only bound on a counter in the
sagas, and the counts of messages are bounded by it. Two restarts give three
subscriptions, of which the middle one may stop short of the first. Two increases
overflow the two-bit int and the decimal of the instance. Repeated
handlings are told apart up to two, which is what the property of the inbox asks (`Counts`).
A form of one field with two annotations shows every way two adapters meet in a rule, the
pages' own forms the ways fields of different types meet in a submit.

Fairness. The coordinator's run is weakly fair: ASP.NET runs a continuation
that is due, and an await ends at the latest with HttpClient's timeout of 100 seconds.
No service is assumed to answer or to be called. In the stock consumer and the
sagas the broker delivers what is queued and every await returns; crashes are never fair, and they
are finite in the sagas only, by `MaxCrashes`. The outbox's job runs for ever, every five
seconds; that it may throw each time is allowed. The inbox is strongly fair
to each event's `Receive`: a place may be taken again and again, but the queue is
first in, first out. The event store pushes what a live subscription has not
seen. Users (`CreateOrder`, forms) are never fair, and the validated form has no fairness
at all. Deadlock is checked in the form only: every other system here stops when its
requests are served.

What the runs show. The coordinator never commits without votes, never rolls back
what it did not commit, never records a commit that did not happen, and its table
gives one outcome. It is not strongly consistent: a lost commit answer is recorded as
`Abort`, the rollback loop calls only rows that say `Done`, and the service stays
committed. `LeftCommittedHadFailure` says that this is the only way: behind every service left
committed there is a commit or rollback call of its own that failed. The stock
consumer oversells a product by at most `Limit - 1` reservations until one of its replacements loses
another; then nothing bounds it but the number of orders. On a product that no two deliveries were
about to take at once it is `Inventory`, and a count falls below zero there only if an order
lists the product twice (each line passes the check by itself, and both are subtracted) or
in a negative number (the subtraction wraps): a crash takes pieces twice, but the check of the second
delivery sees what the first took. Lost updates
only ever give stock back (a count that is negative, which the POST does not refuse, puts
stock there, and that can be lost).

Both sagas implement `OrderProcess`, the basic services too. Every order of a choreography
is decided or one of its messages can be found dead; as wired, no reserved order is ever paid. In the
orchestration every order that was sent is decided, but for one that Stock.API answers before the
state machine has inserted its instance: the answer is in the error queue, the instance waits in
`OrderCreated` and the order is `Suspend` for ever, with no process dying. A decided order changes only
if two sagas served it or one was answered twice and differently, and an order has at
most one saga more than there were crashes: `CorrelateBy` finds a saved one by its `OrderId`.

The outbox never marks a row whose event was not published. With the columns the SQL names it
publishes every row in every run, so no property says when an event is published twice. The flag
keeps the runs apart, which share one connection, until two of them have read it before either
set it (`FlagExcludes`). Every row is published unless a run that threw left the flag
busy, which is for ever: `Stuck` is the hazard, and the excuse in
`EveryRowIsPublished` names it; with the database as committed it is what happens. The inbox loses no event; it processes one twice
only when deliveries overlap or the process dies, and the one way an event stays
unprocessed is that the process died. The read model is exact until the first
restart; each restart adds the whole replayed prefix to counts and prices once
more, while availability recovers once the replay has caught up. A change of availability is what the page
shows at last unless it was compared with a document behind the stream or met another.

What leaves a form whose validation is attached keeps, as the server reads it, every annotation of a visible
field, but for the overwritten one and the values the scripts let through, both named above; a refusal is always explained, and a
field that failed is watched until it is right or the form is reset. The classes of the
input and of its message agree only thanks to `__dummy__`: a field with a single, optional
rule that is emptied neither fails nor succeeds, and its message would stay beside
an input marked valid. The mutant of `MarksAgree` drops that rule.

## Proofs

The theorems are about `Spec` (`CrashSpec`, `RacesSpec` and `OverlapsSpec` for the stock with crashes), which has no
fairness, and hold for every value of the constants under the assumptions the modules name: sets of
orders are finite, an order is a sequence of items with integer counts, `Unknown` is no product, the
seed data gives each product an integer (`StockAssumption` says so again where a saga
instantiates `StockReservation`), and the creation forms fit a document (`FormsAssumption`). Each module
of proofs states its inductive invariant in named parts, proves that every action keeps
it, and draws the properties of the runs from it.

`TwoPhaseCoordinatorProofs`, for any transactions and nodes, from `NoNodeAssumption`:

- `TypeCorrect`, from a lemma on the values each action writes and a step for
  each action;
- `IInvHolds`: the inductive invariant `IInv`. The safety invariants are not
  inductive by themselves: that a commit implies votes needs that the rows that
  say `Ready` are true (`VotesAreTrue`) and stay so once the decision is made
  (`VotesAreKept`); that the decision was made on durable rows needs that memory and table agree
  between the loops (`SavedBetweenLoops`); that a rollback follows a commit needs
  that `Done` rows are true; one outcome needs that the rollback loop marks every
  row (`RollbackMarks`) and that each loop records every node it visits (`AwaitedIsDue`);
- `CommitOnlyOnVotes`, `RollbackOnlyCommitted`, `DoneIsTrue`, `OneOutcome`:
  consequences of `IInv`;
- `FaultFreeRunsCommit` and `OnlyFailuresLeaveCommitted`, from `FailureInv` besides: the
  loops of a run without a failed call leave `Ready`, then `Done` behind
  (`FaultFreeRun`); a service asked to commit is the one the loop is at, or has been recorded
  (`AskedIsRecorded`); its row says `Abort` only if a call to it failed or it was
  rolled back (`AbortHasReason`);
- `CoordinatorIsLedger`: the refinement of `TransactionLedger`. A row in memory reaches
  the ledger when it is saved, and what is saved before the decision is pending
  (`SavedIsPending`).

`StockReservationProofs`, for any orders, products, limit and initial stock:

- `TypeCorrect`, with crashes at any time: types, and that the reservation loop never meets a
  product without a document, which would be a null reference in the code;
- `NegativeCountsOverlap`, with crashes and any limit: `NegativeNeedsOverlap`. Its invariant, `CalmInv`, is about the products
  that were never contended and whose orders are orderly: what a check has found is still there until
  it is replaced (`FoundIsThere`), and a copy is the document (`CopyIsCurrent`);
- `OversellBounded`, with crashes, from initial counts of at least 0 and for orders that list the
  product once in no negative number: `OversellIsBounded` for any
  limit. The bound is not inductive: from a count at the bound, a delivery that has passed the
  check could take more. `FloorHolds` says what is left for the deliveries that are still to
  take (`Due`): either the count leaves room for each of them and one more, or one of them asks
  for so little that the count was enough for it (`Floor`). A check that passes makes the second
  true of its own item; a replacement takes its delivery out of the set and at most `MaxCount`
  from the count; a crash only takes deliveries out; `AtMostLimit` bounds them;
- `OnlyReservationsTake`, without crashes, any number of deliveries at once:
  `NothingVanishes`. It needs the copies: one that was read is at least the seed data less
  what has been taken by now (`CopiesNotShort`), so that writing it back hides nothing. That each
  order takes an item once needs that an order that was answered is over (`AnsweredIsOver`);
- `StockImplementsInventory`, with crashes and any limit: the refinement of `Inventory`. The step
  of the abstract service is the end of the check, from which on an order that has found all of its items
  takes them; the replacements change nothing of what is `Available` on an undisturbed product, as
  only one delivery can have something to take there. A refusal stands, as such a product is never given
  back: what was short at its line still is when the check is over (`RefusalStands`).
  An order no crash cut short is answered once (`Unanswered`).

What these prove about sums over finite sets (an element out, a value changed, a sum compared) is not
by the library's induction, which takes an operator: the set of the subsets for which a
statement fails would have a least member (`LeastSet`, from the well-foundedness of the naturals), and
it cannot be one.

`ChoreographySagaProofs`, for any orders, versions, wirings, answers of Payment.API and
crashes. The invariant speaks of one order at a time: nothing is known of an order that
was not created (`Untouched`); each event under way and each status stands for an answer
that was given (`Caused`); while no process has died there is one event at a time, and none
once the order is decided (`Calm`); a `Suspend` order is in flight or gone. From it
`OrdersAreFound`, `FlipsNeedTwoAnswers`, and `ChoreographyIsOrderProcess`, the
refinement of `OrderProcess`. `TypeCorrect` takes the types of the consumer from
`StockReservationProofs`, instantiated here (`Consumer`): a step of the saga is one of the consumer's
steps, its crash, or no step of it, but for `PaymentSkips`, which takes its queue's message away.

`OrchestrationSagaProofs`, for any orders and crashes:

- `StatusesAreJustified`, from `CauseInv`: every message in a queue stands for an
  answer, and so does the state of a saga that has come far;
- `SecondSagasNeedCrashes`, from `DrawnInv`: the instances an order has drawn, together
  with the `OrderStartedEvent`s that may still draw one, are at most one more than the
  crashes. The sum is what is inductive: a crash may add a message, and handling one turns it
  into an instance or an error;
- `FlipsNeedDuplicates`: two verdicts on an order come from two instances, or from
  two answers to one (`BothAnswersDouble`);
- `OrchestrationIsOrderProcess`: the refinement of `OrderProcess`, from the above and
  `CalmInv`: until a process dies at most one thing is due for an order (its delivery at
  Stock.API, a message of its instance, or its verdict), and nothing once it is decided;
- `TypeCorrect`, with `StockReservationProofs` instantiated for the instances. A start is a step of
  the consumer only for an id that is in `Instances`: `NewInstance` has it from `DrawnInv`, so that
  `MaxCrashes + 1` ids for each order are enough, which the model takes for granted.

`OutboxPublisherProofs`, for any orders, runs of the job and crashes:

- `TypeCorrect`: types, and that an order was accepted exactly when its row is there;
  for that a row must not appear by being marked, which needs that the job and the
  UPDATEs handle only rows (`HandledAreRows`);
- `MarkedOnlyOncePublished`: with the types it is inductive;
- `FlagKeepsRunsApart`: `FlagExcludes`, from `OneRunInv`: until two runs have read the flag before either set it,
  at most one run goes on, and past the flag it is busy. A throw leaves the flag busy and a
  crash ends all runs, so neither lets a second one in.

`InboxProofs`, for any orders, any finite number of deliveries, any copies and crashes:

- `TypeCorrect`: types; that the broker never holds more copies than were published
  needs that each copy is in one place (`CopiesAreCounted`, by the cardinality of
  the deliveries that hold an event);
- `NothingIsEverLost`: a message is let go of in two places, by the primary key and by
  the acknowledgement, and both have the row behind them: the first by its guard, the
  second because a delivery past the check and the insertion has its row (`LoadedHasRow`);
- `RepeatsHaveCause`: without overlap and death there is one delivery at a time, and what was
  handled once is processed, or its save is under way (`HandledOnce`).

`EventSourcedProductsProofs`, for any products, forms, amounts and restarts:

- `AvailabilitySurvivesReplays`, from `ModelInv`: a document has the availability some
  subscription came to and, from the first change that is replayed on, that of the
  position. A subscription that has met no change and is ahead of all others agrees with
  them, since the stream creates a product once, and before it changes it (`Ordered`).
  That a prefix has a last event that sets the availability follows from the
  well-foundedness of the naturals (`LastOf`);
- `ReplaysAddUpAlways`, from `ReplayInv`: the count of a document is the wrapped sum of its form and
  of every change, each as often as a subscription came to it, and the price the same sum without wrapping.
  Before a product is created no subscription has come to an event of it (`Begun`, `Untouched`).
  A restart ends one subscription and begins another, which moves a sum from `position` to
  `runs`; an event adds one term. That wrapping at each step is wrapping once is `WrapAgain`;
- `TypeCorrect`;
- `OnlyRacesLoseChanges`, with `WantedInv`: for a product that never met a race the stream,
  once no request is pending, ends as the last one wanted.

`ValidatedFormProofs`, for any forms and values, under hypotheses about the forms, which
TLC evaluates on those of the run (`FormsAsProved`): every number input is annotated
(`NumbersAreAnnotated`), a field that can fail has an element for its message
(`FailuresHaveMessage`), annotations are such as ASP.NET renders for the attributes of a model
(`FieldsDeclareAttributes`), and values are read as values are (`ValuesAreRead`: an empty one is blank, and
one in the script's format of a number is a number to the script or to the binder). `MarksAlwaysAgree`, `FailuresAreWatched` and
`RefusalsAreExplained` rest on `ReadyInv` (who failed is in `submitted` and among the
elements, and only elements are marked) and on `NeverOneOptional`: with `__dummy__`
beside it, no optional rule is alone. `SentDataIsValid` is `SentDataIsDeclared` for any forms and texts:
the rule of an adapter that no later one overwrites carries that adapter's value
(`LastWordStands`, `HasLastWord`), and for each annotation, whichever of its rules the adapter
took for the parameters it was given, passing that rule is meeting the annotation
(`FormatsAreMet`, `RequiredIsMet`, `RegexIsMet`, `BoundsAreMet`).

Every invariant, action property and refinement a passing run checks is proved. Model-checked
only is liveness (`RunsEnd`, `EveryOrderIsAnswered`, `EveryOrderIsDecided`, `EveryRowIsPublished`,
`EveryEventIsProcessed`, `EveryEventIsHandled`), which is out of the prover's reach, and the two
violations, which are about what the code does not keep.

## Plan

Done: the coordinator, the stock consumer, both sagas and the basic services, outbox,
inbox, the read model and the form that feeds it, with the abstract specifications above
and the proofs. What could be added, in this order:

1. Outbox and inbox composed, against an abstract channel that processes each order
   once. Each keeps its half already: `Inbox` takes a publisher that sends each event up
   to `MaxCopies` times, a bound on what `OutboxPublisher` does.
2. Two products in the run of `EventSourcedProducts`: the properties are per product, the
   stream is shared. `AvailabilityRecovers` and `UnracedChangeStands` are proved for any.
3. `remote` in the form: a request that is pending when the form is submitted.

## Not modelled

- `EventStorePractice`: a console program that calls a client library in a fixed order.
- `APIGatewayOcelot`, `APIGatewayYARP`, `NGINXLoadBalancer`: configuration; what happens
  is in the gateways' own programs.
- `HealthCheckExample`, `TraceabilityPractice`: endpoints without state, and logging.
- `StockNotReservedEventConsumer` of the orchestration's Order.API, which is registered
  nowhere, and the older `Stock.Service` of the inbox, whose consumer is empty.
- Of the form: what is listed under its module.
- Prices and buyers where nothing depends on them, the wording of messages, and logs.
