------------------------ MODULE TwoPhaseCoordinator ------------------------
(***************************************************************************)
(* The coordinator of 2PCProtocolStrongConsistency: GET                    *)
(* /create-order-transaction (Coordinator/Program.cs) over                 *)
(* TransactionService, its SQL Server table NodeStates, and the three      *)
(* services it calls over HTTP.                                            *)
(*                                                                         *)
(* A transaction is one run of the endpoint.  It has its own DI scope,     *)
(* hence its own DbContext: "tracked" is what that DbContext holds in      *)
(* memory, "db" what SaveChangesAsync has made durable.  A call is an HTTP *)
(* GET; the wire carries only the operation, the transaction is kept here  *)
(* to say on whose behalf it was made.                                     *)
(***************************************************************************)
EXTENDS Naturals, FiniteSets

CONSTANTS Transactions,  \* runs of the endpoint
          Nodes,         \* rows of table Nodes: Order.API, Stock.API, Payment.API
          NoNode         \* no call is being awaited

ASSUME NoNodeAssumption == NoNode \notin Nodes

VARIABLES pc,        \* [Transactions -> Steps]: where the run is
          todo,      \* nodes the running foreach has still to visit
          waiting,   \* node whose answer is awaited, or NoNode
          tracked,   \* rows as the run's DbContext holds them
          db,        \* rows of NodeStates as last saved
          requests,  \* calls sent that no service has run (yet, or ever)
          served,    \* calls a service has run
          gaveUp     \* calls whose await ended in an exception

vars == <<pc, todo, waiting, tracked, db, requests, served, gaveUp>>

-----------------------------------------------------------------------------
ReadyType == {"Ready", "Pending", "Unready"}

TransactionState == {"Done", "Pending", "Abort"}

\* "Absent": CreateTransactionAsync has not saved the row.
Row == [isReady : ReadyType \union {"Absent"},
        transactionState : TransactionState \union {"Absent"}]

NoRow == [isReady |-> "Absent", transactionState |-> "Absent"]

NewRow == [isReady |-> "Pending", transactionState |-> "Pending"]

Operations == {"ready", "commit", "rollback"}

\* A foreach over the rows is named for the endpoint it calls.
Steps == {"idle", "readyCheck", "commitCheck", "finished", "failed"}
            \union Operations

Calls == [tx : Transactions, node : Nodes, op : Operations]

Call(t, n) == [tx |-> t, node |-> n, op |-> pc[t]]

\* What /ready, /commit and /rollback of the three services return.
Answer(call) == TRUE

-----------------------------------------------------------------------------
Init ==
    /\ pc = [t \in Transactions |-> "idle"]
    /\ todo = [t \in Transactions |-> {}]
    /\ waiting = [t \in Transactions |-> NoNode]
    /\ tracked = [t \in Transactions |-> [n \in Nodes |-> NoRow]]
    /\ db = [t \in Transactions |-> [n \in Nodes |-> NoRow]]
    /\ requests = {}
    /\ served = {}
    /\ gaveUp = {}

\* One row per node, both columns Pending, saved together.
CreateTransaction(t) ==
    /\ pc[t] = "idle"
    /\ tracked' = [tracked EXCEPT ![t] = [n \in Nodes |-> NewRow]]
    /\ db' = [db EXCEPT ![t] = [n \in Nodes |-> NewRow]]
    /\ pc' = [pc EXCEPT ![t] = "ready"]
    /\ todo' = [todo EXCEPT ![t] = Nodes]
    /\ UNCHANGED <<waiting, requests, served, gaveUp>>

\* Mutant: the transactionState == Done test is dropped.
MustCallAlways(t, n) == TRUE

\* Mutant: the test compares with the wrong state.
MustCallPending(t, n) ==
    pc[t] = "rollback" => tracked[t][n].transactionState = "Pending"

\* RollBackAsync calls only the nodes whose row says Done.
MustCall(t, n) ==
    pc[t] = "rollback" => tracked[t][n].transactionState = "Done"

\* GetAsync("ready"), GetAsync("commit") or GetAsync("rollback"): the rows
\* come back from SQL in no particular order.
SendCall(t, n) ==
    /\ pc[t] \in Operations
    /\ waiting[t] = NoNode
    /\ n \in todo[t]
    /\ MustCall(t, n)
    /\ requests' = requests \union {Call(t, n)}
    /\ waiting' = [waiting EXCEPT ![t] = n]
    /\ UNCHANGED <<pc, todo, tracked, db, served, gaveUp>>

\* A node whose row is not Done is marked Abort without being called.
SkipRollback(t, n) ==
    /\ pc[t] = "rollback"
    /\ waiting[t] = NoNode
    /\ n \in todo[t]
    /\ ~MustCall(t, n)
    /\ tracked' = [tracked EXCEPT ![t][n].transactionState = "Abort"]
    /\ todo' = [todo EXCEPT ![t] = @ \ {n}]
    /\ UNCHANGED <<pc, waiting, db, requests, served, gaveUp>>

\* A service runs the endpoint; it may do so after the coordinator gave up.
Serve(call) ==
    /\ call \in requests
    /\ requests' = requests \ {call}
    /\ served' = served \union {call}
    /\ UNCHANGED <<pc, todo, waiting, tracked, db, gaveUp>>

\* Mutant: the two branches of the conditional are swapped.
AfterReadySwapped(row, ok) ==
    [row EXCEPT !.isReady = IF ok THEN "Unready" ELSE "Ready"]

\* Mutant: the catch block of CommitAsync writes what the try block writes.
AfterCommitOptimistic(row, ok) ==
    [row EXCEPT !.transactionState = "Done"]

\* The row after a call: ok is the parsed answer, FALSE in the catch block.
AfterReady(row, ok) ==
    [row EXCEPT !.isReady = IF ok THEN "Ready" ELSE "Unready"]

AfterCommit(row, ok) ==
    [row EXCEPT !.transactionState = IF ok THEN "Done" ELSE "Abort"]

\* RollBackAsync discards the answer.
AfterRollback(row) ==
    [row EXCEPT !.transactionState = "Abort"]

AfterCall(op, row, ok) ==
    CASE op = "ready"    -> AfterReady(row, ok)
      [] op = "commit"   -> AfterCommit(row, ok)
      [] op = "rollback" -> AfterRollback(row)

\* The await of node n ends and the foreach moves on.
Record(t, n, ok) ==
    /\ tracked' = [tracked EXCEPT ![t][n] = AfterCall(pc[t], @, ok)]
    /\ waiting' = [waiting EXCEPT ![t] = NoNode]
    /\ todo' = [todo EXCEPT ![t] = @ \ {n}]
    /\ UNCHANGED <<pc, db, requests, served>>

Awaits(t, n) == pc[t] \in Operations /\ waiting[t] = n

Answered(t, n) ==
    /\ Awaits(t, n)
    /\ Call(t, n) \in served
    /\ Record(t, n, Answer(Call(t, n)))
    /\ UNCHANGED gaveUp

\* Mutant: no timeout, only a lost answer ends the await.
CallFailsOnceServed(t, n) ==
    /\ Awaits(t, n)
    /\ Call(t, n) \in served
    /\ Record(t, n, FALSE)
    /\ gaveUp' = gaveUp \union {Call(t, n)}

\* Refused connection, lost answer, unparsable body or the 100 s timeout of
\* HttpClient: caught, and the call may still be run later.
CallFails(t, n) ==
    /\ Awaits(t, n)
    /\ Record(t, n, FALSE)
    /\ gaveUp' = gaveUp \union {Call(t, n)}

AfterLoop ==
    [op \in Operations |->
        CASE op = "ready"    -> "readyCheck"
          [] op = "commit"   -> "commitCheck"
          [] op = "rollback" -> "finished"]

\* SaveChangesAsync at the end of the loop writes every row at once.
Save(t) ==
    /\ pc[t] \in Operations
    /\ waiting[t] = NoNode
    /\ todo[t] = {}
    /\ db' = [db EXCEPT ![t] = tracked[t]]
    /\ pc' = [pc EXCEPT ![t] = AfterLoop[pc[t]]]
    /\ UNCHANGED <<todo, waiting, tracked, requests, served, gaveUp>>

\* Mutants: Exists in place of TrueForAll.
CheckReadyAny(t) ==
    \E n \in Nodes : tracked[t][n].isReady = "Ready"

CheckTransactionStateAny(t) ==
    \E n \in Nodes : tracked[t][n].transactionState = "Done"

\* The tracking query returns the entities the DbContext already holds.
CheckReady(t) ==
    \A n \in Nodes : tracked[t][n].isReady = "Ready"

CheckTransactionState(t) ==
    \A n \in Nodes : tracked[t][n].transactionState = "Done"

Enter(t, step) ==
    /\ pc' = [pc EXCEPT ![t] = step]
    /\ todo' = [todo EXCEPT ![t] = IF step \in Operations THEN Nodes ELSE {}]
    /\ UNCHANGED <<waiting, tracked, db, requests, served, gaveUp>>

\* The endpoint between the phases: commit, roll back or return.
DecideCommit(t) ==
    /\ pc[t] = "readyCheck"
    /\ Enter(t, IF CheckReady(t) THEN "commit" ELSE "rollback")

\* Mutant: the negation of the endpoint's last if is lost.
DecideRollbackInverted(t) ==
    /\ pc[t] = "commitCheck"
    /\ Enter(t, IF CheckTransactionState(t) THEN "rollback" ELSE "finished")

DecideRollback(t) ==
    /\ pc[t] = "commitCheck"
    /\ Enter(t, IF CheckTransactionState(t) THEN "finished" ELSE "rollback")

\* SQL Server is reached outside the try blocks: its exception ends the run.
AtDatabase(t) ==
    \/ pc[t] \in {"idle", "readyCheck", "commitCheck"}
    \/ /\ pc[t] \in Operations
       /\ waiting[t] = NoNode
       /\ todo[t] \in {{}, Nodes}

DatabaseFails(t) ==
    /\ AtDatabase(t)
    /\ pc' = [pc EXCEPT ![t] = "failed"]
    /\ UNCHANGED <<todo, waiting, tracked, db, requests, served, gaveUp>>

Running(t) == pc[t] \notin {"idle", "finished", "failed"}

\* The process dies with every run in it; a restart resumes none of them.
Crash ==
    /\ \E t \in Transactions : Running(t)
    /\ pc' = [t \in Transactions |-> IF Running(t) THEN "failed" ELSE pc[t]]
    /\ UNCHANGED <<todo, waiting, tracked, db, requests, served, gaveUp>>

\* The run's own steps.
Proceed(t) ==
    \/ Save(t)
    \/ DecideCommit(t)
    \/ DecideRollback(t)
    \/ \E n \in Nodes : \/ SendCall(t, n)
                        \/ SkipRollback(t, n)
                        \/ Answered(t, n)
                        \/ CallFails(t, n)

Next ==
    \/ \E t \in Transactions : \/ CreateTransaction(t)
                               \/ Proceed(t)
                               \/ DatabaseFails(t)
    \/ \E call \in Calls : Serve(call)
    \/ Crash

Spec == Init /\ [][Next]_vars

\* ASP.NET runs every continuation of a request, and an await on a call ends
\* at the latest with HttpClient's timeout.  Nothing else is promised: no
\* service need answer, no request need arrive.
FairSpec == Spec /\ \A t \in Transactions : WF_vars(Proceed(t))

-----------------------------------------------------------------------------
Has(calls, t, n, op) == [tx |-> t, node |-> n, op |-> op] \in calls

Sent(t, n, op) == Has(requests \union served, t, n, op)

Served(t, n, op) == Has(served, t, n, op)

AllRows(rows, state) == \A n \in Nodes : rows[n].transactionState = state

\* Each variable has its type (the columns of NodeState, the enums).
TypeOK ==
    /\ pc \in [Transactions -> Steps]
    /\ todo \in [Transactions -> SUBSET Nodes]
    /\ waiting \in [Transactions -> Nodes \union {NoNode}]
    /\ tracked \in [Transactions -> [Nodes -> Row]]
    /\ db \in [Transactions -> [Nodes -> Row]]
    /\ requests \subseteq Calls
    /\ served \subseteq Calls
    /\ gaveUp \subseteq Calls

\* No service is asked to commit before every service has answered /ready and
\* the table records every vote as Ready (CheckReadyServicesAsync guards
\* CommitAsync in the endpoint).
CommitNeedsEveryVote ==
    \A t \in Transactions : \A m, n \in Nodes :
        Sent(t, n, "commit") =>
            Served(t, m, "ready") /\ db[t][m].isReady = "Ready"

\* A service is asked to roll back only what it has committed, whatever was
\* lost, late or crashed (the Done test in RollBackAsync).
RollbackOnlyAfterCommit ==
    \A t \in Transactions : \A n \in Nodes :
        Sent(t, n, "rollback") => Served(t, n, "commit")

\* A row never claims a commit the service has not run, neither in memory nor
\* in the table (result and catch in CommitAsync).
DoneRowsAreTrue ==
    \A t \in Transactions : \A n \in Nodes :
        "Done" \in {tracked[t][n].transactionState, db[t][n].transactionState}
            => Served(t, n, "commit")

\* When the endpoint returns, the table gives the transaction one outcome:
\* every row Done, or every row Abort.
FinishedIsUniform ==
    \A t \in Transactions :
        pc[t] = "finished" => AllRows(db[t], "Done") \/ AllRows(db[t], "Abort")

\* A run in which no call failed commits everywhere and rolls back nowhere.
FaultFreeCommits ==
    \A t \in Transactions :
        /\ pc[t] = "finished"
        /\ \A call \in gaveUp : call.tx # t
        => /\ AllRows(db[t], "Done")
           /\ \A n \in Nodes : ~Sent(t, n, "rollback")

\* A service left committed by a transaction whose rows say Abort is one whose
\* commit or rollback call failed: the loss is always of the coordinator's
\* own catch blocks, never of the loop over the rows.
LeftCommitted(t, n) ==
    Served(t, n, "commit") /\ ~Served(t, n, "rollback")

LeftCommittedHadFailure ==
    \A t \in Transactions : \A n \in Nodes :
        pc[t] = "finished" /\ AllRows(db[t], "Abort") /\ LeftCommitted(t, n)
            => Has(gaveUp, t, n, "commit") \/ Has(gaveUp, t, n, "rollback")

\* "Strong Consistency": once the endpoint has returned, either every service
\* holds the transaction committed or none does.
StrongConsistency ==
    \A t \in Transactions :
        pc[t] = "finished" =>
            \A m, n \in Nodes : LeftCommitted(t, m) <=> LeftCommitted(t, n)

\* Every run of the endpoint returns or is ended by a crash or an exception.
RunsEnd ==
    \A t \in Transactions :
        pc[t] # "idle" ~> pc[t] \in {"finished", "failed"}

-----------------------------------------------------------------------------
\* The parts that make the safety invariants inductive.  A call is awaited
\* only inside a loop, on behalf of a row the loop has still to record.
AwaitedIsDue ==
    \A t \in Transactions : \A n \in Nodes :
        waiting[t] = n => pc[t] \in Operations \union {"failed"} /\ n \in todo[t]

\* Between the loops the table holds what the DbContext holds.
SavedBetweenLoops ==
    \A t \in Transactions :
        pc[t] \in {"idle", "readyCheck", "commitCheck", "finished"} =>
            db[t] = tracked[t]

RowsExist ==
    \A t \in Transactions : \A n \in Nodes :
        pc[t] \notin {"idle", "failed"} =>
            "Absent" \notin {tracked[t][n].transactionState, db[t][n].transactionState}

VotesAreTrue ==
    \A t \in Transactions : \A n \in Nodes :
        "Ready" \in {tracked[t][n].isReady, db[t][n].isReady}
            => Served(t, n, "ready")

\* Once the endpoint has decided to commit, the votes stay as they were.
VotesAreKept ==
    \A t \in Transactions : \A m, n \in Nodes :
        pc[t] \in {"commit", "commitCheck"} \/ Sent(t, m, "commit") =>
            /\ pc[t] \notin {"idle", "ready", "readyCheck"}
            /\ tracked[t][n].isReady = "Ready"
            /\ db[t][n].isReady = "Ready"

\* RollBackAsync runs only over a table with a row that is not Done, and has
\* marked every row it has visited.
RollbackMarks ==
    \A t \in Transactions :
        pc[t] = "rollback" =>
            /\ ~AllRows(db[t], "Done")
            /\ \A n \in Nodes \ todo[t] : tracked[t][n].transactionState = "Abort"

RolledBackIsNotDone ==
    \A t \in Transactions : \A n \in Nodes :
        Sent(t, n, "rollback") =>
            /\ pc[t] \in {"rollback", "finished", "failed"}
            /\ \E m \in Nodes : db[t][m].transactionState \in {"Pending", "Abort"}

\* The invariant that carries every safety invariant above but the two about
\* failed calls.
IInv ==
    /\ TypeOK
    /\ AwaitedIsDue
    /\ SavedBetweenLoops
    /\ RowsExist
    /\ VotesAreTrue
    /\ DoneRowsAreTrue
    /\ VotesAreKept
    /\ CommitNeedsEveryVote
    /\ RollbackOnlyAfterCommit
    /\ RollbackMarks
    /\ RolledBackIsNotDone
    /\ FinishedIsUniform

-----------------------------------------------------------------------------
\* What the table says of a transaction, for TransactionLedger.
Outcome(rows) ==
    IF \A n \in Nodes : rows[n] = NoRow THEN "none"
    ELSE IF AllRows(rows, "Done") THEN "committed"
    ELSE IF AllRows(rows, "Abort") THEN "aborted"
    ELSE "open"

CallsOf(op) == {call \in served : call.op = op}

Ledger == INSTANCE TransactionLedger WITH
    outcome <- [t \in Transactions |-> Outcome(db[t])],
    applied <- {<<call.tx, call.node>> : call \in CallsOf("commit")},
    undone <- {<<call.tx, call.node>> : call \in CallsOf("rollback")}

\* The coordinator implements the ledger.
ImplementsLedger == Ledger!Spec

=============================================================================
