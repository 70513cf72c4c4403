--------------------- MODULE TwoPhaseCoordinatorProofs ---------------------
(***************************************************************************)
(* For any set of nodes and any number of runs: the type invariant of       *)
(* TwoPhaseCoordinator and the inductive invariant from which the safety    *)
(* invariants its runs check follow.                                        *)
(***************************************************************************)
EXTENDS TwoPhaseCoordinator, TLAPS

-----------------------------------------------------------------------------
(* Types of the values the actions write. *)

LEMMA RowTypes ==
    /\ NoRow \in Row
    /\ NewRow \in Row
    /\ \A row \in Row, ok \in BOOLEAN :
          /\ AfterReady(row, ok) \in Row
          /\ AfterCommit(row, ok) \in Row
          /\ AfterRollback(row) \in Row
  BY DEF Row, NoRow, NewRow, ReadyType, TransactionState, AfterReady,
         AfterCommit, AfterRollback

LEMMA AfterCallType ==
    ASSUME NEW op \in Operations, NEW row \in Row, NEW ok \in BOOLEAN
    PROVE  AfterCall(op, row, ok) \in Row
  BY RowTypes DEF AfterCall, Operations

\* The part of a step that Answered and CallFails share.
LEMMA RecordType ==
    ASSUME TypeOK, NEW t \in Transactions, NEW n \in Nodes,
           NEW ok \in BOOLEAN, pc[t] \in Operations, Record(t, n, ok)
    PROVE  /\ tracked' \in [Transactions -> [Nodes -> Row]]
           /\ waiting' \in [Transactions -> Nodes \union {NoNode}]
           /\ todo' \in [Transactions -> SUBSET Nodes]
<1>1. AfterCall(pc[t], tracked[t][n], ok) \in Row
  BY AfterCallType DEF TypeOK
<1> QED
  BY <1>1 DEF TypeOK, Record

LEMMA TypeInit == Init => TypeOK
  BY RowTypes DEF Init, TypeOK, Steps

LEMMA TypeStep == TypeOK /\ [Next]_vars => TypeOK'
<1> SUFFICES ASSUME TypeOK, [Next]_vars PROVE TypeOK'
  OBVIOUS
<1>1. ASSUME NEW t \in Transactions, CreateTransaction(t) PROVE TypeOK'
  BY <1>1, RowTypes DEF CreateTransaction, TypeOK, Steps, Operations
<1>2. ASSUME NEW t \in Transactions, Save(t) PROVE TypeOK'
  <2>1. AfterLoop[pc[t]] \in Steps
    BY <1>2 DEF Save, AfterLoop, Operations, Steps
  <2> QED
    BY <1>2, <2>1 DEF Save, TypeOK
<1>3. ASSUME NEW t \in Transactions, NEW step \in Steps, Enter(t, step)
      PROVE  TypeOK'
  BY <1>3 DEF Enter, TypeOK
<1>4. ASSUME NEW t \in Transactions, DecideCommit(t) PROVE TypeOK'
  BY <1>3, <1>4 DEF DecideCommit, Steps, Operations
<1>5. ASSUME NEW t \in Transactions, DecideRollback(t) PROVE TypeOK'
  BY <1>3, <1>5 DEF DecideRollback, Steps, Operations
<1>6. ASSUME NEW t \in Transactions, NEW n \in Nodes, SendCall(t, n)
      PROVE  TypeOK'
  <2>1. Call(t, n) \in Calls
    BY <1>6 DEF SendCall, Call, Calls
  <2> QED
    BY <1>6, <2>1 DEF SendCall, TypeOK
<1>7. ASSUME NEW t \in Transactions, NEW n \in Nodes, SkipRollback(t, n)
      PROVE  TypeOK'
  <2>1. AfterRollback(tracked[t][n]) \in Row
    BY RowTypes DEF TypeOK
  <2> QED
    BY <1>7, <2>1 DEF SkipRollback, TypeOK, AfterRollback
<1>8. ASSUME NEW t \in Transactions, NEW n \in Nodes, Answered(t, n)
      PROVE  TypeOK'
  BY <1>8, RecordType DEF Answered, Answer, Awaits, Record, TypeOK
<1>9. ASSUME NEW t \in Transactions, NEW n \in Nodes, CallFails(t, n)
      PROVE  TypeOK'
  <2>1. Call(t, n) \in Calls
    BY <1>9 DEF CallFails, Awaits, Call, Calls
  <2> QED
    BY <1>9, <2>1, RecordType DEF CallFails, Awaits, Record, TypeOK
<1>10. ASSUME NEW t \in Transactions, DatabaseFails(t) PROVE TypeOK'
  BY <1>10 DEF DatabaseFails, TypeOK, Steps
<1>11. ASSUME NEW call \in Calls, Serve(call) PROVE TypeOK'
  BY <1>11 DEF Serve, TypeOK
<1>12. CASE Crash
  BY <1>12 DEF Crash, TypeOK, Steps
<1>13. CASE UNCHANGED vars
  BY <1>13 DEF vars, TypeOK
<1> QED
  BY <1>1, <1>2, <1>4, <1>5, <1>6, <1>7, <1>8, <1>9, <1>10, <1>11, <1>12,
     <1>13
  DEF Next, Proceed

\* Every variable keeps its type (the columns and enums of NodeState).
THEOREM TypeCorrect == Spec => []TypeOK
  BY TypeInit, TypeStep, PTL DEF Spec

-----------------------------------------------------------------------------
(* The inductive invariant. *)

LEMMA IInvInit == Init => IInv
<1> SUFFICES ASSUME Init PROVE IInv
  OBVIOUS
<1> USE DEF Init, NoRow, Operations, Served, Sent, Has
<1>1. AwaitedIsDue
  BY NoNodeAssumption DEF AwaitedIsDue
<1>2. SavedBetweenLoops
  BY DEF SavedBetweenLoops
<1>3. RowsExist
  BY DEF RowsExist
<1>4. VotesAreTrue
  BY DEF VotesAreTrue
<1>5. DoneRowsAreTrue
  BY DEF DoneRowsAreTrue
<1>6. VotesAreKept
  BY DEF VotesAreKept
<1>7. CommitNeedsEveryVote
  BY DEF CommitNeedsEveryVote
<1>8. RollbackOnlyAfterCommit
  BY DEF RollbackOnlyAfterCommit
<1>9. RollbackMarks
  BY DEF RollbackMarks
<1>10. RolledBackIsNotDone
  BY DEF RolledBackIsNotDone
<1>11. FinishedIsUniform
  BY DEF FinishedIsUniform
<1> QED
  BY TypeInit, <1>1, <1>2, <1>3, <1>4, <1>5, <1>6, <1>7, <1>8, <1>9, <1>10,
     <1>11
  DEF IInv

LEMMA IInvStep == IInv /\ [Next]_vars => IInv'
<1> SUFFICES ASSUME IInv, [Next]_vars PROVE IInv'
  OBVIOUS
<1>a. TypeOK /\ TypeOK'
  BY TypeStep DEF IInv
<1>1. ASSUME NEW t \in Transactions, CreateTransaction(t)
      PROVE  IInv'
  <2>1. AwaitedIsDue'
    BY <1>1 DEF AwaitedIsDue, CreateTransaction, IInv, Operations
  <2>2. SavedBetweenLoops'
    BY <1>1 DEF SavedBetweenLoops, CreateTransaction, IInv, TypeOK, Operations
  <2>3. RowsExist'
    BY <1>1 DEF RowsExist, CreateTransaction, NewRow, IInv, TypeOK, Operations
  <2>4. VotesAreTrue'
    BY <1>1 DEF VotesAreTrue, CreateTransaction, NewRow, IInv, Served
  <2>5. DoneRowsAreTrue'
    BY <1>1 DEF DoneRowsAreTrue, CreateTransaction, NewRow, IInv, Served
  <2>6. VotesAreKept'
    BY <1>1 DEF VotesAreKept, CreateTransaction, IInv, Sent
  <2>7. CommitNeedsEveryVote'
    BY <1>1
    DEF CommitNeedsEveryVote, VotesAreKept, VotesAreTrue, CreateTransaction,
        IInv, Served, Sent
  <2>8. RollbackOnlyAfterCommit'
    BY <1>1 DEF RollbackOnlyAfterCommit, CreateTransaction, IInv, Served, Sent
  <2>9. RollbackMarks'
    BY <1>1 DEF RollbackMarks, CreateTransaction, IInv
  <2>10. RolledBackIsNotDone'
    BY <1>1 DEF RolledBackIsNotDone, CreateTransaction, IInv, Sent
  <2>11. FinishedIsUniform'
    BY <1>1 DEF FinishedIsUniform, CreateTransaction, IInv
  <2> QED
    BY <1>a, <2>1, <2>2, <2>3, <2>4, <2>5, <2>6, <2>7, <2>8, <2>9, <2>10,
       <2>11
    DEF IInv
<1>2. ASSUME NEW t \in Transactions, Save(t)
      PROVE  IInv'
  <2>1. AwaitedIsDue'
    BY <1>2 DEF AwaitedIsDue, Save, IInv
  <2>2. SavedBetweenLoops'
    BY <1>2 DEF SavedBetweenLoops, Save, IInv, TypeOK
  <2>3. RowsExist'
    BY <1>2 DEF RowsExist, Save, IInv, Operations
  <2>4. VotesAreTrue'
    BY <1>2 DEF VotesAreTrue, Save, IInv, Served
  <2>5. DoneRowsAreTrue'
    BY <1>2 DEF DoneRowsAreTrue, Save, IInv, Served
  <2>6. VotesAreKept'
    BY <1>2 DEF VotesAreKept, Save, AfterLoop, IInv, Operations, Sent
  <2>7. CommitNeedsEveryVote'
    BY <1>2
    DEF CommitNeedsEveryVote, VotesAreKept, VotesAreTrue, Save, IInv, Served,
        Sent
  <2>8. RollbackOnlyAfterCommit'
    BY <1>2 DEF RollbackOnlyAfterCommit, Save, IInv, Served, Sent
  <2>9. RollbackMarks'
    BY <1>2 DEF RollbackMarks, Save, AfterLoop, IInv, TypeOK, Operations
  <2>10. RolledBackIsNotDone'
    BY <1>2
    DEF RolledBackIsNotDone, RollbackMarks, Save, AfterLoop, IInv, Operations,
        Sent, AllRows
  <2>11. FinishedIsUniform'
    BY <1>2
    DEF FinishedIsUniform, RollbackMarks, Save, AfterLoop, IInv, TypeOK,
        Operations, AllRows
  <2> QED
    BY <1>a, <2>1, <2>2, <2>3, <2>4, <2>5, <2>6, <2>7, <2>8, <2>9, <2>10,
       <2>11
    DEF IInv
<1>3. ASSUME NEW t \in Transactions, DecideCommit(t)
      PROVE  IInv'
  <2>1. AwaitedIsDue'
    BY <1>3 DEF AwaitedIsDue, DecideCommit, Enter, IInv, Operations
  <2>2. SavedBetweenLoops'
    BY <1>3 DEF SavedBetweenLoops, DecideCommit, Enter, IInv
  <2>3. RowsExist'
    BY <1>3 DEF RowsExist, DecideCommit, Enter, IInv
  <2>4. VotesAreTrue'
    BY <1>3 DEF VotesAreTrue, DecideCommit, Enter, IInv, Served
  <2>5. DoneRowsAreTrue'
    BY <1>3 DEF DoneRowsAreTrue, DecideCommit, Enter, IInv, Served
  <2>6. VotesAreKept'
    BY <1>3
    DEF VotesAreKept, SavedBetweenLoops, DecideCommit, Enter, CheckReady,
        IInv, Sent
  <2>7. CommitNeedsEveryVote'
    BY <1>3 DEF CommitNeedsEveryVote, DecideCommit, Enter, IInv, Served, Sent
  <2>8. RollbackOnlyAfterCommit'
    BY <1>3
    DEF RollbackOnlyAfterCommit, DecideCommit, Enter, IInv, Served, Sent
  <2>9. RollbackMarks'
    <3> SUFFICES ASSUME pc'[t] = "rollback" PROVE ~AllRows(db[t], "Done")
      BY <1>3 DEF RollbackMarks, DecideCommit, Enter, IInv, TypeOK, Operations
    <3>1. PICK n \in Nodes : tracked[t][n].isReady # "Ready"
      BY <1>3 DEF DecideCommit, Enter, CheckReady
    <3>2. ~Sent(t, n, "commit")
      BY <1>3 DEF DecideCommit, IInv, VotesAreKept
    <3>3. db[t][n].transactionState # "Done"
      BY <3>2 DEF IInv, DoneRowsAreTrue, Served, Sent, Has
    <3> QED
      BY <3>3 DEF AllRows
  <2>10. RolledBackIsNotDone'
    BY <1>3 DEF RolledBackIsNotDone, DecideCommit, Enter, IInv, Sent
  <2>11. FinishedIsUniform'
    BY <1>3 DEF FinishedIsUniform, DecideCommit, Enter, IInv
  <2> QED
    BY <1>a, <2>1, <2>2, <2>3, <2>4, <2>5, <2>6, <2>7, <2>8, <2>9, <2>10,
       <2>11
    DEF IInv
<1>4. ASSUME NEW t \in Transactions, DecideRollback(t)
      PROVE  IInv'
  <2>1. AwaitedIsDue'
    BY <1>4 DEF AwaitedIsDue, DecideRollback, Enter, IInv, Operations
  <2>2. SavedBetweenLoops'
    BY <1>4 DEF SavedBetweenLoops, DecideRollback, Enter, IInv
  <2>3. RowsExist'
    BY <1>4 DEF RowsExist, DecideRollback, Enter, IInv
  <2>4. VotesAreTrue'
    BY <1>4 DEF VotesAreTrue, DecideRollback, Enter, IInv, Served
  <2>5. DoneRowsAreTrue'
    BY <1>4 DEF DoneRowsAreTrue, DecideRollback, Enter, IInv, Served
  <2>6. VotesAreKept'
    BY <1>4 DEF VotesAreKept, DecideRollback, Enter, IInv, Sent
  <2>7. CommitNeedsEveryVote'
    BY <1>4
    DEF CommitNeedsEveryVote, DecideRollback, Enter, IInv, Served, Sent
  <2>8. RollbackOnlyAfterCommit'
    BY <1>4
    DEF RollbackOnlyAfterCommit, DecideRollback, Enter, IInv, Served, Sent
  <2>9. RollbackMarks'
    BY <1>a, <1>4
    DEF RollbackMarks, SavedBetweenLoops, DecideRollback, Enter,
        CheckTransactionState, IInv, TypeOK, Operations, AllRows
  <2>10. RolledBackIsNotDone'
    BY <1>4 DEF RolledBackIsNotDone, DecideRollback, Enter, IInv, Sent
  <2>11. FinishedIsUniform'
    BY <1>4
    DEF FinishedIsUniform, SavedBetweenLoops, DecideRollback, Enter,
        CheckTransactionState, IInv, AllRows
  <2> QED
    BY <1>a, <2>1, <2>2, <2>3, <2>4, <2>5, <2>6, <2>7, <2>8, <2>9, <2>10,
       <2>11
    DEF IInv
<1>5. ASSUME NEW t \in Transactions, NEW n \in Nodes, SendCall(t, n)
      PROVE  IInv'
  <2>1. AwaitedIsDue'
    BY <1>5 DEF AwaitedIsDue, SendCall, IInv
  <2>2. SavedBetweenLoops'
    BY <1>5 DEF SavedBetweenLoops, SendCall, IInv
  <2>3. RowsExist'
    BY <1>5 DEF RowsExist, SendCall, IInv
  <2>4. VotesAreTrue'
    BY <1>5 DEF VotesAreTrue, SendCall, IInv, Served
  <2>5. DoneRowsAreTrue'
    BY <1>5 DEF DoneRowsAreTrue, SendCall, IInv, Served
  <2>6. VotesAreKept'
    BY <1>5 DEF VotesAreKept, SendCall, Call, IInv, Served, Sent, Has
  <2>7. CommitNeedsEveryVote'
    BY <1>5
    DEF CommitNeedsEveryVote, VotesAreKept, VotesAreTrue, SendCall, Call,
        IInv, Served, Sent, Has
  <2>8. RollbackOnlyAfterCommit'
    BY <1>5
    DEF RollbackOnlyAfterCommit, DoneRowsAreTrue, SendCall, MustCall, Call,
        IInv, Served, Sent, Has
  <2>9. RollbackMarks'
    BY <1>5 DEF RollbackMarks, SendCall, IInv
  <2>10. RolledBackIsNotDone'
    <3> SUFFICES ASSUME NEW u \in Transactions, NEW m \in Nodes,
                        Sent(u, m, "rollback")'
                 PROVE  /\ pc[u] \in {"rollback", "finished", "failed"}
                        /\ \E k \in Nodes :
                              db[u][k].transactionState \in {"Pending", "Abort"}
      BY <1>5 DEF RolledBackIsNotDone, SendCall
    <3>1. CASE Sent(u, m, "rollback")
      BY <3>1 DEF IInv, RolledBackIsNotDone
    <3>2. CASE ~Sent(u, m, "rollback")
      <4>1. u = t /\ pc[t] = "rollback"
        BY <1>5, <3>2 DEF SendCall, Call, Sent, Has
      <4>2. PICK k \in Nodes : db[t][k].transactionState # "Done"
        BY <4>1 DEF IInv, RollbackMarks, AllRows
      <4>3. db[t][k] \in Row /\ db[t][k].transactionState # "Absent"
        BY <4>1 DEF TypeOK, IInv, RowsExist
      <4> QED
        BY <4>1, <4>2, <4>3 DEF Row, TransactionState
    <3> QED
      BY <3>1, <3>2
  <2>11. FinishedIsUniform'
    BY <1>5 DEF FinishedIsUniform, SendCall, IInv
  <2> QED
    BY <1>a, <2>1, <2>2, <2>3, <2>4, <2>5, <2>6, <2>7, <2>8, <2>9, <2>10,
       <2>11
    DEF IInv
<1>6. ASSUME NEW t \in Transactions, NEW n \in Nodes, SkipRollback(t, n)
      PROVE  IInv'
  <2>1. AwaitedIsDue'
    BY <1>6, NoNodeAssumption DEF AwaitedIsDue, SkipRollback, IInv
  <2>2. SavedBetweenLoops'
    BY <1>6 DEF SavedBetweenLoops, SkipRollback, IInv, Operations
  <2>3. RowsExist'
    BY <1>6 DEF RowsExist, SkipRollback, IInv, Operations
  <2>4. VotesAreTrue'
    BY <1>6 DEF VotesAreTrue, SkipRollback, IInv, Served
  <2>5. DoneRowsAreTrue'
    BY <1>6 DEF DoneRowsAreTrue, SkipRollback, IInv, Served
  <2>6. VotesAreKept'
    BY <1>6 DEF VotesAreKept, SkipRollback, IInv, Sent
  <2>7. CommitNeedsEveryVote'
    BY <1>6 DEF CommitNeedsEveryVote, SkipRollback, IInv, Served, Sent
  <2>8. RollbackOnlyAfterCommit'
    BY <1>6 DEF RollbackOnlyAfterCommit, SkipRollback, IInv, Served, Sent
  <2>9. RollbackMarks'
    BY <1>a, <1>6 DEF RollbackMarks, SkipRollback, IInv, TypeOK
  <2>10. RolledBackIsNotDone'
    BY <1>6 DEF RolledBackIsNotDone, SkipRollback, IInv, Sent
  <2>11. FinishedIsUniform'
    BY <1>6 DEF FinishedIsUniform, SkipRollback, IInv
  <2> QED
    BY <1>a, <2>1, <2>2, <2>3, <2>4, <2>5, <2>6, <2>7, <2>8, <2>9, <2>10,
       <2>11
    DEF IInv
<1>7. ASSUME NEW t \in Transactions, NEW n \in Nodes, Answered(t, n)
      PROVE  IInv'
  <2>1. AwaitedIsDue'
    BY <1>7, NoNodeAssumption DEF AwaitedIsDue, Answered, Record, IInv, TypeOK
  <2>2. SavedBetweenLoops'
    BY <1>7 DEF SavedBetweenLoops, Answered, Awaits, Record, IInv, Operations
  <2>3. RowsExist'
    BY <1>7
    DEF RowsExist, Answered, Awaits, Record, AfterCall, AfterReady,
        AfterCommit, AfterRollback, IInv, Operations
  <2>4. VotesAreTrue'
    BY <1>7
    DEF VotesAreTrue, Answered, Awaits, Record, AfterCall, AfterReady,
        AfterCommit, AfterRollback, Call, IInv, Operations, Served, Sent, Has
  <2>5. DoneRowsAreTrue'
    BY <1>7
    DEF DoneRowsAreTrue, Answered, Awaits, Record, AfterCall, AfterReady,
        AfterCommit, AfterRollback, Call, IInv, Operations, Served, Sent, Has
  <2>6. VotesAreKept'
    BY <1>7
    DEF VotesAreKept, Answered, Awaits, Record, AfterCall, AfterReady,
        AfterCommit, AfterRollback, IInv, Operations, Sent
  <2>7. CommitNeedsEveryVote'
    BY <1>7 DEF CommitNeedsEveryVote, Answered, Record, IInv, Served, Sent
  <2>8. RollbackOnlyAfterCommit'
    BY <1>7 DEF RollbackOnlyAfterCommit, Answered, Record, IInv, Served, Sent
  <2>9. RollbackMarks'
    BY <1>7
    DEF RollbackMarks, Answered, Record, AfterCall, AfterReady, AfterCommit,
        AfterRollback, IInv, TypeOK
  <2>10. RolledBackIsNotDone'
    BY <1>7 DEF RolledBackIsNotDone, Answered, Record, IInv, Sent
  <2>11. FinishedIsUniform'
    BY <1>7 DEF FinishedIsUniform, Answered, Record, IInv
  <2> QED
    BY <1>a, <2>1, <2>2, <2>3, <2>4, <2>5, <2>6, <2>7, <2>8, <2>9, <2>10,
       <2>11
    DEF IInv
<1>8. ASSUME NEW t \in Transactions, NEW n \in Nodes, CallFails(t, n)
      PROVE  IInv'
  <2>1. AwaitedIsDue'
    BY <1>8, NoNodeAssumption
    DEF AwaitedIsDue, CallFails, Record, IInv, TypeOK
  <2>2. SavedBetweenLoops'
    BY <1>8 DEF SavedBetweenLoops, CallFails, Awaits, Record, IInv, Operations
  <2>3. RowsExist'
    BY <1>8
    DEF RowsExist, CallFails, Awaits, Record, AfterCall, AfterReady,
        AfterCommit, AfterRollback, IInv, Operations
  <2>4. VotesAreTrue'
    BY <1>8
    DEF VotesAreTrue, CallFails, Awaits, Record, AfterCall, AfterReady,
        AfterCommit, AfterRollback, IInv, Operations, Served
  <2>5. DoneRowsAreTrue'
    BY <1>8
    DEF DoneRowsAreTrue, CallFails, Awaits, Record, AfterCall, AfterReady,
        AfterCommit, AfterRollback, IInv, Operations, Served
  <2>6. VotesAreKept'
    BY <1>8
    DEF VotesAreKept, CallFails, Awaits, Record, AfterCall, AfterReady,
        AfterCommit, AfterRollback, IInv, Operations, Sent
  <2>7. CommitNeedsEveryVote'
    BY <1>8 DEF CommitNeedsEveryVote, CallFails, Record, IInv, Served, Sent
  <2>8. RollbackOnlyAfterCommit'
    BY <1>8 DEF RollbackOnlyAfterCommit, CallFails, Record, IInv, Served, Sent
  <2>9. RollbackMarks'
    BY <1>8
    DEF RollbackMarks, CallFails, Record, AfterCall, AfterReady, AfterCommit,
        AfterRollback, IInv, TypeOK
  <2>10. RolledBackIsNotDone'
    BY <1>8 DEF RolledBackIsNotDone, CallFails, Record, IInv, Sent
  <2>11. FinishedIsUniform'
    BY <1>8 DEF FinishedIsUniform, CallFails, Record, IInv
  <2> QED
    BY <1>a, <2>1, <2>2, <2>3, <2>4, <2>5, <2>6, <2>7, <2>8, <2>9, <2>10,
       <2>11
    DEF IInv
<1>9. ASSUME NEW t \in Transactions, DatabaseFails(t)
      PROVE  IInv'
  <2>1. AwaitedIsDue'
    BY <1>9 DEF AwaitedIsDue, DatabaseFails, IInv
  <2>2. SavedBetweenLoops'
    BY <1>9 DEF SavedBetweenLoops, DatabaseFails, IInv, Operations
  <2>3. RowsExist'
    BY <1>9 DEF RowsExist, DatabaseFails, IInv, Operations
  <2>4. VotesAreTrue'
    BY <1>9 DEF VotesAreTrue, DatabaseFails, IInv, Served
  <2>5. DoneRowsAreTrue'
    BY <1>9 DEF DoneRowsAreTrue, DatabaseFails, IInv, Served
  <2>6. VotesAreKept'
    BY <1>9 DEF VotesAreKept, DatabaseFails, IInv, Sent
  <2>7. CommitNeedsEveryVote'
    BY <1>9 DEF CommitNeedsEveryVote, DatabaseFails, IInv, Served, Sent
  <2>8. RollbackOnlyAfterCommit'
    BY <1>9 DEF RollbackOnlyAfterCommit, DatabaseFails, IInv, Served, Sent
  <2>9. RollbackMarks'
    BY <1>9 DEF RollbackMarks, DatabaseFails, IInv
  <2>10. RolledBackIsNotDone'
    BY <1>9 DEF RolledBackIsNotDone, DatabaseFails, IInv, Sent
  <2>11. FinishedIsUniform'
    BY <1>9 DEF FinishedIsUniform, DatabaseFails, IInv
  <2> QED
    BY <1>a, <2>1, <2>2, <2>3, <2>4, <2>5, <2>6, <2>7, <2>8, <2>9, <2>10,
       <2>11
    DEF IInv
<1>10. ASSUME NEW call \in Calls, Serve(call)
      PROVE  IInv'
  <2>1. AwaitedIsDue'
    BY <1>10 DEF AwaitedIsDue, Serve, IInv
  <2>2. SavedBetweenLoops'
    BY <1>10 DEF SavedBetweenLoops, Serve, IInv, Operations
  <2>3. RowsExist'
    BY <1>10 DEF RowsExist, Serve, IInv, Operations
  <2>4. VotesAreTrue'
    BY <1>10 DEF VotesAreTrue, Serve, IInv, Operations, Served, Sent, Has
  <2>5. DoneRowsAreTrue'
    BY <1>10 DEF DoneRowsAreTrue, Serve, IInv, Operations, Served, Sent, Has
  <2>6. VotesAreKept'
    BY <1>10 DEF VotesAreKept, Serve, IInv, Operations, Served, Sent, Has
  <2>7. CommitNeedsEveryVote'
    BY <1>10
    DEF CommitNeedsEveryVote, Serve, IInv, Operations, Served, Sent, Has
  <2>8. RollbackOnlyAfterCommit'
    BY <1>10
    DEF RollbackOnlyAfterCommit, Serve, IInv, Operations, Served, Sent, Has
  <2>9. RollbackMarks'
    BY <1>10 DEF RollbackMarks, Serve, IInv
  <2>10. RolledBackIsNotDone'
    BY <1>10 DEF RolledBackIsNotDone, Serve, IInv, Sent, Has
  <2>11. FinishedIsUniform'
    BY <1>10 DEF FinishedIsUniform, Serve, IInv
  <2> QED
    BY <1>a, <2>1, <2>2, <2>3, <2>4, <2>5, <2>6, <2>7, <2>8, <2>9, <2>10,
       <2>11
    DEF IInv
<1>11. ASSUME Crash
      PROVE  IInv'
  <2>1. AwaitedIsDue'
    BY <1>11 DEF AwaitedIsDue, Crash, IInv
  <2>2. SavedBetweenLoops'
    BY <1>11 DEF SavedBetweenLoops, Crash, IInv, Operations
  <2>3. RowsExist'
    BY <1>11 DEF RowsExist, Crash, IInv, Operations
  <2>4. VotesAreTrue'
    BY <1>11 DEF VotesAreTrue, Crash, IInv, Served
  <2>5. DoneRowsAreTrue'
    BY <1>11 DEF DoneRowsAreTrue, Crash, IInv, Served
  <2>6. VotesAreKept'
    BY <1>11 DEF VotesAreKept, Crash, IInv, Sent
  <2>7. CommitNeedsEveryVote'
    BY <1>11 DEF CommitNeedsEveryVote, Crash, IInv, Served, Sent
  <2>8. RollbackOnlyAfterCommit'
    BY <1>11 DEF RollbackOnlyAfterCommit, Crash, IInv, Served, Sent
  <2>9. RollbackMarks'
    BY <1>11 DEF RollbackMarks, Crash, Running
  <2>10. RolledBackIsNotDone'
    BY <1>11 DEF RolledBackIsNotDone, Crash, IInv, Sent
  <2>11. FinishedIsUniform'
    BY <1>11 DEF FinishedIsUniform, Crash, IInv
  <2> QED
    BY <1>a, <2>1, <2>2, <2>3, <2>4, <2>5, <2>6, <2>7, <2>8, <2>9, <2>10,
       <2>11
    DEF IInv
<1>12. ASSUME UNCHANGED vars
      PROVE  IInv'
  <2>1. AwaitedIsDue'
    BY <1>12 DEF AwaitedIsDue, vars, IInv
  <2>2. SavedBetweenLoops'
    BY <1>12 DEF SavedBetweenLoops, vars, IInv, Operations
  <2>3. RowsExist'
    BY <1>12 DEF RowsExist, vars, IInv, Operations
  <2>4. VotesAreTrue'
    BY <1>12 DEF VotesAreTrue, vars, IInv, Served
  <2>5. DoneRowsAreTrue'
    BY <1>12 DEF DoneRowsAreTrue, vars, IInv, Served
  <2>6. VotesAreKept'
    BY <1>12 DEF VotesAreKept, vars, IInv, Sent
  <2>7. CommitNeedsEveryVote'
    BY <1>12 DEF CommitNeedsEveryVote, vars, IInv, Served, Sent
  <2>8. RollbackOnlyAfterCommit'
    BY <1>12 DEF RollbackOnlyAfterCommit, vars, IInv, Served, Sent
  <2>9. RollbackMarks'
    BY <1>12 DEF RollbackMarks, vars, IInv
  <2>10. RolledBackIsNotDone'
    BY <1>12 DEF RolledBackIsNotDone, vars, IInv, Sent
  <2>11. FinishedIsUniform'
    BY <1>12 DEF FinishedIsUniform, vars, IInv
  <2> QED
    BY <1>a, <2>1, <2>2, <2>3, <2>4, <2>5, <2>6, <2>7, <2>8, <2>9, <2>10,
       <2>11
    DEF IInv
<1> QED
  BY <1>1, <1>2, <1>3, <1>4, <1>5, <1>6, <1>7, <1>8, <1>9, <1>10, <1>11, <1>12
  DEF Next, Proceed

\* The inductive invariant holds in every reachable state: every safety
\* property of the endpoint, with what carries it through late calls, database
\* exceptions and the death of the process.
THEOREM IInvHolds == Spec => []IInv
  BY IInvInit, IInvStep, PTL DEF Spec

-----------------------------------------------------------------------------
(* What the runs check, for every number of runs and nodes. *)

\* No service is asked to commit before all have voted and the votes are saved
\* (CheckReadyServicesAsync before CommitAsync).
THEOREM CommitOnlyOnVotes == Spec => []CommitNeedsEveryVote
<1>1. IInv => CommitNeedsEveryVote
  BY DEF IInv
<1> QED
  BY <1>1, IInvHolds, PTL

\* Only what a service has committed is rolled back (RollBackAsync).
THEOREM RollbackOnlyCommitted == Spec => []RollbackOnlyAfterCommit
<1>1. IInv => RollbackOnlyAfterCommit
  BY DEF IInv
<1> QED
  BY <1>1, IInvHolds, PTL

\* A row that says Done is of a service that has committed (CommitAsync).
THEOREM DoneIsTrue == Spec => []DoneRowsAreTrue
<1>1. IInv => DoneRowsAreTrue
  BY DEF IInv
<1> QED
  BY <1>1, IInvHolds, PTL

\* When the endpoint has returned, all rows of its transaction agree.
THEOREM OneOutcome == Spec => []FinishedIsUniform
<1>1. IInv => FinishedIsUniform
  BY DEF IInv
<1> QED
  BY <1>1, IInvHolds, PTL

-----------------------------------------------------------------------------
(* Runs in which no call failed, and those in which one did. *)

NoFailure(t) == \A call \in gaveUp : call.tx # t

\* A run without a failed call votes, commits and returns, and never rolls back.
FaultFreeRun ==
    \A t \in Transactions : NoFailure(t) =>
        /\ pc[t] # "rollback"
        /\ pc[t] = "finished" => AllRows(tracked[t], "Done")
        /\ \A n \in Nodes :
              /\ pc[t] = "ready" /\ n \notin todo[t] => tracked[t][n].isReady = "Ready"
              /\ pc[t] = "readyCheck" => tracked[t][n].isReady = "Ready"
              /\ pc[t] = "commit" /\ n \notin todo[t] =>
                    tracked[t][n].transactionState = "Done"
              /\ pc[t] = "commitCheck" => tracked[t][n].transactionState = "Done"

UndecidedIsPending ==
    \A t \in Transactions : \A n \in Nodes :
        pc[t] \in {"ready", "readyCheck"} \/ (pc[t] = "commit" /\ n \in todo[t]) =>
            tracked[t][n].transactionState = "Pending"

\* A service that was asked to commit is one the loop is at, or has recorded.
AskedIsRecorded ==
    \A t \in Transactions : \A n \in Nodes :
        Sent(t, n, "commit") =>
            \/ pc[t] = "commit" /\ n \in todo[t]
            \/ pc[t] = "failed"
            \/ tracked[t][n].transactionState # "Pending"

\* The row of a service that was asked to commit says Abort only if a call to it
\* failed or it has rolled back.
AbortHasReason ==
    \A t \in Transactions : \A n \in Nodes :
        Sent(t, n, "commit") /\ tracked[t][n].transactionState = "Abort" =>
            \/ Has(gaveUp, t, n, "commit") \/ Has(gaveUp, t, n, "rollback")
            \/ Served(t, n, "rollback")

FailureInv == FaultFreeRun /\ UndecidedIsPending /\ AskedIsRecorded /\ AbortHasReason

LEMMA FailureInit == Init => FailureInv
  BY DEF Init, FailureInv, FaultFreeRun, UndecidedIsPending, AskedIsRecorded,
         AbortHasReason, NoRow, Sent, Has

LEMMA FailureStep == IInv /\ FailureInv /\ [Next]_vars => FailureInv'
<1> SUFFICES ASSUME IInv, FailureInv, [Next]_vars
             PROVE  FailureInv'
  OBVIOUS
<1>a. TypeOK
  BY DEF IInv
<1> USE DEF FailureInv
<1>1. ASSUME NEW t \in Transactions, CreateTransaction(t)
      PROVE  FailureInv'
  <2>1. \A n \in Nodes : ~Sent(t, n, "commit")
    BY <1>1 DEF CreateTransaction, IInv, VotesAreKept
  <2>2. FaultFreeRun'
    BY <1>1, <1>a DEF FaultFreeRun, CreateTransaction, NewRow, TypeOK, NoFailure, AllRows
  <2>3. UndecidedIsPending'
    BY <1>1, <1>a DEF UndecidedIsPending, CreateTransaction, NewRow, TypeOK
  <2>4. AskedIsRecorded'
    BY <1>1, <1>a, <2>1 DEF AskedIsRecorded, CreateTransaction, TypeOK, Sent
  <2>5. AbortHasReason'
    BY <1>1, <1>a, <2>1 DEF AbortHasReason, CreateTransaction, TypeOK, Sent, Served
  <2> QED
    BY <2>2, <2>3, <2>4, <2>5
<1>2. ASSUME NEW t \in Transactions, Save(t)
      PROVE  FailureInv'
  <2>1. FaultFreeRun'
    BY <1>2, <1>a DEF FaultFreeRun, Save, AfterLoop, Operations, TypeOK, NoFailure, AllRows
  <2>2. UndecidedIsPending'
    BY <1>2, <1>a DEF UndecidedIsPending, Save, AfterLoop, Operations, TypeOK
  <2>3. AskedIsRecorded'
    BY <1>2, <1>a DEF AskedIsRecorded, Save, Operations, TypeOK, Sent
  <2>4. AbortHasReason'
    BY <1>2 DEF AbortHasReason, Save, Sent, Served
  <2> QED
    BY <2>1, <2>2, <2>3, <2>4
<1>3. ASSUME NEW t \in Transactions, DecideCommit(t)
      PROVE  FailureInv'
  <2>1. \A n \in Nodes : ~Sent(t, n, "commit")
    BY <1>3 DEF DecideCommit, IInv, VotesAreKept
  <2>2. FaultFreeRun'
    BY <1>3, <1>a
    DEF FaultFreeRun, DecideCommit, Enter, CheckReady, Operations, TypeOK, NoFailure, AllRows
  <2>3. UndecidedIsPending'
    BY <1>3, <1>a DEF UndecidedIsPending, DecideCommit, Enter, TypeOK
  <2>4. AskedIsRecorded'
    BY <1>3, <1>a, <2>1 DEF AskedIsRecorded, DecideCommit, Enter, TypeOK, Sent
  <2>5. AbortHasReason'
    BY <1>3 DEF AbortHasReason, DecideCommit, Enter, Sent, Served
  <2> QED
    BY <2>2, <2>3, <2>4, <2>5
<1>4. ASSUME NEW t \in Transactions, DecideRollback(t)
      PROVE  FailureInv'
  <2>1. FaultFreeRun'
    BY <1>4, <1>a
    DEF FaultFreeRun, DecideRollback, Enter, CheckTransactionState, TypeOK, NoFailure, AllRows
  <2>2. UndecidedIsPending'
    BY <1>4, <1>a DEF UndecidedIsPending, DecideRollback, Enter, TypeOK
  <2>3. AskedIsRecorded'
    BY <1>4, <1>a DEF AskedIsRecorded, DecideRollback, Enter, TypeOK, Sent
  <2>4. AbortHasReason'
    BY <1>4 DEF AbortHasReason, DecideRollback, Enter, Sent, Served
  <2> QED
    BY <2>1, <2>2, <2>3, <2>4
<1>5. ASSUME NEW t \in Transactions, NEW n \in Nodes, SendCall(t, n)
      PROVE  FailureInv'
  <2>1. \A a \in Transactions, m \in Nodes :
            Sent(a, m, "commit")' =>
                Sent(a, m, "commit") \/ (a = t /\ m = n /\ pc[t] = "commit" /\ n \in todo[t])
    BY <1>5 DEF SendCall, Call, Sent, Has
  <2>2. FaultFreeRun' /\ UndecidedIsPending'
    BY <1>5 DEF FaultFreeRun, UndecidedIsPending, SendCall, NoFailure, AllRows
  <2>3. AskedIsRecorded'
    BY <1>5, <2>1 DEF AskedIsRecorded, SendCall
  <2>4. AbortHasReason'
    BY <1>5, <2>1 DEF AbortHasReason, UndecidedIsPending, SendCall, Served
  <2> QED
    BY <2>2, <2>3, <2>4
<1>6. ASSUME NEW t \in Transactions, NEW n \in Nodes, SkipRollback(t, n)
      PROVE  FailureInv'
  <2>1. /\ pc[t] = "rollback" /\ tracked[t][n].transactionState # "Done"
        /\ UNCHANGED <<pc, requests, served, gaveUp>>
        /\ tracked'[t][n].transactionState = "Abort"
        /\ \A a \in Transactions, m \in Nodes :
              a # t \/ m # n => tracked'[a][m] = tracked[a][m]
        /\ \A a \in Transactions \ {t} : todo'[a] = todo[a]
    BY <1>6, <1>a DEF SkipRollback, MustCall, TypeOK, Row
  <2>2. FaultFreeRun' /\ UndecidedIsPending'
    BY <2>1 DEF FaultFreeRun, UndecidedIsPending, NoFailure, AllRows
  <2>3. AskedIsRecorded'
    BY <2>1 DEF AskedIsRecorded, Sent
  <2>4. AbortHasReason'
    <3>1. tracked[t][n].transactionState \in {"Pending", "Abort", "Absent"}
      BY <1>a, <2>1 DEF TypeOK, Row, TransactionState
    <3>2. tracked[t][n].transactionState # "Absent"
      BY <2>1 DEF IInv, RowsExist
    <3>3. Sent(t, n, "commit") => tracked[t][n].transactionState = "Abort"
      BY <2>1, <3>1, <3>2 DEF AskedIsRecorded
    <3> QED
      BY <2>1, <3>3 DEF AbortHasReason, Sent, Served
  <2> QED
    BY <2>2, <2>3, <2>4
<1>7. ASSUME NEW t \in Transactions, NEW n \in Nodes, NEW ok \in BOOLEAN,
             Awaits(t, n), Record(t, n, ok),
             \/ ok /\ Call(t, n) \in served /\ UNCHANGED gaveUp
             \/ gaveUp' = gaveUp \union {Call(t, n)}
      PROVE  FailureInv'
  <2>1. /\ tracked'[t][n] = AfterCall(pc[t], tracked[t][n], ok)
        /\ \A a \in Transactions, m \in Nodes :
              a # t \/ m # n => tracked'[a][m] = tracked[a][m]
        /\ todo'[t] = todo[t] \ {n}
        /\ \A a \in Transactions \ {t} : todo'[a] = todo[a]
        /\ UNCHANGED <<pc, requests, served>>
    BY <1>7, <1>a DEF Record, TypeOK
  <2>2. /\ pc[t] \in Operations
        /\ pc[t] = "ready" => /\ tracked'[t][n].isReady = (IF ok THEN "Ready" ELSE "Unready")
                              /\ tracked'[t][n].transactionState = tracked[t][n].transactionState
        /\ pc[t] = "commit" => tracked'[t][n].transactionState = (IF ok THEN "Done" ELSE "Abort")
        /\ pc[t] = "rollback" => tracked'[t][n].transactionState = "Abort"
    BY <1>7, <1>a, <2>1
    DEF Awaits, AfterCall, AfterReady, AfterCommit, AfterRollback, Operations, TypeOK, Row
  <2>3. \A a \in Transactions : NoFailure(a)' => NoFailure(a) /\ (a = t => ok)
    BY <1>7 DEF NoFailure, Call
  <2>4. FaultFreeRun'
    BY <2>1, <2>2, <2>3 DEF FaultFreeRun, AllRows, Operations
  <2>5. UndecidedIsPending'
    BY <2>1, <2>2 DEF UndecidedIsPending, Operations
  <2>6. AskedIsRecorded'
    BY <2>1, <2>2 DEF AskedIsRecorded, Sent, Operations
  <2>7. AbortHasReason'
    <3>1. \A a \in Transactions, m \in Nodes, op \in Operations :
              Has(gaveUp, a, m, op) => Has(gaveUp', a, m, op)
      BY <1>7 DEF Has
    <3>2. CASE pc[t] = "ready"
      BY <2>1, <2>2, <3>1, <3>2 DEF AbortHasReason, Sent, Served, Operations
    <3>3. CASE pc[t] = "commit"
      <4>1. ~ok => Has(gaveUp', t, n, "commit")
        BY <1>7, <3>3 DEF Has, Call
      <4> QED
        BY <2>1, <2>2, <3>1, <3>3, <4>1 DEF AbortHasReason, Sent, Served, Operations
    <3>4. CASE pc[t] = "rollback"
      <4>1. Served(t, n, "rollback") \/ Has(gaveUp', t, n, "rollback")
        BY <1>7, <3>4 DEF Served, Has, Call
      <4> QED
        BY <2>1, <2>2, <3>1, <3>4, <4>1 DEF AbortHasReason, Sent, Served, Operations
    <3> QED
      BY <2>2, <3>2, <3>3, <3>4 DEF Operations
  <2> QED
    BY <2>4, <2>5, <2>6, <2>7
<1>8. ASSUME NEW t \in Transactions, NEW n \in Nodes, Answered(t, n)
      PROVE  FailureInv'
  BY <1>7, <1>8 DEF Answered, Answer
<1>9. ASSUME NEW t \in Transactions, NEW n \in Nodes, CallFails(t, n)
      PROVE  FailureInv'
  BY <1>7, <1>9 DEF CallFails
<1>10. ASSUME NEW call \in Calls, Serve(call)
       PROVE  FailureInv'
  <2>1. \A t \in Transactions, n \in Nodes, op \in Operations :
            /\ Sent(t, n, op)' <=> Sent(t, n, op)
            /\ Served(t, n, op) => Served(t, n, op)'
    BY <1>10 DEF Serve, Sent, Served, Has
  <2>2. FaultFreeRun' /\ UndecidedIsPending'
    BY <1>10 DEF FaultFreeRun, UndecidedIsPending, Serve, NoFailure, AllRows
  <2>3. AskedIsRecorded'
    BY <1>10, <2>1 DEF AskedIsRecorded, Serve, Operations
  <2>4. AbortHasReason'
    BY <1>10, <2>1 DEF AbortHasReason, Serve, Operations
  <2> QED
    BY <2>2, <2>3, <2>4
<1>11. ASSUME \A t \in Transactions : pc'[t] \in {pc[t], "failed"},
              UNCHANGED <<todo, tracked, requests, served, gaveUp>>
       PROVE  FailureInv'
  <2>1. FaultFreeRun' /\ UndecidedIsPending'
    BY <1>11 DEF FaultFreeRun, UndecidedIsPending, NoFailure, AllRows
  <2>2. AskedIsRecorded' /\ AbortHasReason'
    BY <1>11 DEF AskedIsRecorded, AbortHasReason, Sent, Served
  <2> QED
    BY <2>1, <2>2
<1>12. ASSUME NEW t \in Transactions, DatabaseFails(t)
       PROVE  FailureInv'
  BY <1>11, <1>12, <1>a DEF DatabaseFails, TypeOK
<1>13. CASE Crash
  BY <1>11, <1>13 DEF Crash
<1>14. CASE UNCHANGED vars
  BY <1>11, <1>14 DEF vars
<1> QED
  BY <1>1, <1>2, <1>3, <1>4, <1>5, <1>6, <1>8, <1>9, <1>10, <1>12, <1>13, <1>14
  DEF Next, Proceed

LEMMA FailureInvHolds == Spec => []FailureInv
  BY FailureInit, FailureStep, IInvHolds, PTL DEF Spec

\* A run in which no call failed commits everywhere and rolls back nowhere, for any
\* nodes and whatever the other runs meet.
THEOREM FaultFreeRunsCommit == Spec => []FaultFreeCommits
<1>1. IInv /\ FailureInv => FaultFreeCommits
  <2> SUFFICES ASSUME IInv, FailureInv, NEW t \in Transactions,
                      pc[t] = "finished", NoFailure(t)
               PROVE  /\ AllRows(db[t], "Done")
                      /\ \A n \in Nodes : ~Sent(t, n, "rollback")
    BY DEF FaultFreeCommits, NoFailure
  <2>1. AllRows(db[t], "Done")
    BY DEF FailureInv, FaultFreeRun, IInv, SavedBetweenLoops
  <2> QED
    BY <2>1 DEF IInv, RolledBackIsNotDone, AllRows
<1> QED
  BY <1>1, IInvHolds, FailureInvHolds, PTL

\* What an aborted transaction leaves committed is a service whose commit or rollback
\* call failed: the loops themselves forget none.
THEOREM OnlyFailuresLeaveCommitted == Spec => []LeftCommittedHadFailure
<1>1. IInv /\ FailureInv => LeftCommittedHadFailure
  <2> SUFFICES ASSUME IInv, FailureInv, NEW t \in Transactions, NEW n \in Nodes,
                      pc[t] = "finished", AllRows(db[t], "Abort"),
                      Served(t, n, "commit"), ~Served(t, n, "rollback")
               PROVE  Has(gaveUp, t, n, "commit") \/ Has(gaveUp, t, n, "rollback")
    BY DEF LeftCommittedHadFailure, LeftCommitted
  <2>1. tracked[t][n].transactionState = "Abort"
    BY DEF IInv, SavedBetweenLoops, AllRows
  <2>2. Sent(t, n, "commit")
    BY DEF Served, Sent, Has
  <2> QED
    BY <2>1, <2>2 DEF FailureInv, AbortHasReason
<1> QED
  BY <1>1, IInvHolds, FailureInvHolds, PTL

-----------------------------------------------------------------------------
(* The coordinator is a ledger. *)

\* The table has no row of a run that has not begun, and until CommitAsync has saved
\* it says Pending of every service.
SavedIsPending ==
    \A t \in Transactions : \A n \in Nodes :
        /\ pc[t] = "idle" => db[t][n] = NoRow
        /\ pc[t] \in {"ready", "readyCheck", "commit"} =>
              db[t][n].transactionState = "Pending"

LEMMA SavedIsPendingHolds == Spec => []SavedIsPending
<1>1. Init => SavedIsPending
  BY DEF Init, SavedIsPending
<1>2. IInv /\ FailureInv /\ SavedIsPending /\ [Next]_vars => SavedIsPending'
  <2> SUFFICES ASSUME IInv, FailureInv, SavedIsPending, [Next]_vars,
                      NEW t \in Transactions, NEW n \in Nodes
               PROVE  /\ pc'[t] = "idle" => db'[t][n] = NoRow
                      /\ pc'[t] \in {"ready", "readyCheck", "commit"} =>
                            db'[t][n].transactionState = "Pending"
    BY DEF SavedIsPending, NoRow
  <2> DEFINE Goal == /\ pc'[t] = "idle" => db'[t][n] = NoRow
                     /\ pc'[t] \in {"ready", "readyCheck", "commit"} =>
                           db'[t][n].transactionState = "Pending"
             Same == pc'[t] = pc[t] /\ db'[t] = db[t]
  <2>a. TypeOK
    BY DEF IInv
  <2>1. Same => Goal
    BY DEF SavedIsPending
  <2>2. ASSUME NEW u \in Transactions, CreateTransaction(u), u = t
        PROVE  Goal
    BY <2>2, <2>a DEF CreateTransaction, NewRow, TypeOK
  <2>3. ASSUME NEW u \in Transactions, Save(u), u = t
        PROVE  Goal
    <3>1. pc'[t] # "idle" /\ db'[t] = tracked[t]
      BY <2>3, <2>a DEF Save, AfterLoop, Operations, TypeOK
    <3>2. pc'[t] \in {"ready", "readyCheck", "commit"} => pc[t] = "ready"
      BY <2>3, <2>a DEF Save, AfterLoop, Operations, TypeOK
    <3> QED
      BY <3>1, <3>2 DEF FailureInv, UndecidedIsPending
  <2>4. ASSUME NEW u \in Transactions, DecideCommit(u), u = t
        PROVE  Goal
    BY <2>4, <2>a DEF DecideCommit, Enter, TypeOK, SavedIsPending
  <2>5. ASSUME NEW u \in Transactions, DecideRollback(u) \/ DatabaseFails(u), u = t
        PROVE  Goal
    <3>1. pc'[t] \in {"finished", "rollback", "failed"}
      BY <2>5, <2>a DEF DecideRollback, Enter, DatabaseFails, TypeOK
    <3> QED
      BY <3>1
  <2>6. \A u \in Transactions : u # t =>
            (CreateTransaction(u) \/ Save(u) \/ DecideCommit(u) \/ DecideRollback(u)
               \/ DatabaseFails(u) => Same)
    BY <2>a DEF CreateTransaction, Save, DecideCommit, DecideRollback, DatabaseFails, Enter, TypeOK
  <2>7. \A u \in Transactions, m \in Nodes :
            SendCall(u, m) \/ SkipRollback(u, m) \/ Answered(u, m) \/ CallFails(u, m) => Same
    BY DEF SendCall, SkipRollback, Answered, CallFails, Record
  <2>8. Crash => Goal
    <3>1. Crash => db'[t] = db[t] /\ pc'[t] \in {pc[t], "failed"}
      BY DEF Crash
    <3> QED
      BY <2>1, <3>1
  <2>9. (\E call \in Calls : Serve(call)) \/ UNCHANGED vars => Same
    BY DEF Serve, vars
  <2> QED
    BY <2>1, <2>2, <2>3, <2>4, <2>5, <2>6, <2>7, <2>8, <2>9 DEF Next, Proceed
<1> QED
  BY <1>1, <1>2, IInvHolds, FailureInvHolds, PTL DEF Spec

LEMMA OutcomeFacts ==
    ASSUME NEW rows \in [Nodes -> Row]
    PROVE  /\ Outcome(rows) \in {"none", "open", "committed", "aborted"}
           /\ Outcome(rows) = "committed" => AllRows(rows, "Done")
           /\ \A n \in Nodes :
                 /\ rows[n] # NoRow => Outcome(rows) # "none"
                 /\ rows[n].transactionState = "Pending" => Outcome(rows) \in {"none", "open"}
                 /\ rows[n].transactionState # "Done" => Outcome(rows) \in {"none", "open", "aborted"}
                 /\ AllRows(rows, "Abort") => Outcome(rows) = "aborted"
  BY DEF Outcome, AllRows, NoRow, Row

LEMMA LedgerInit == Init => Ledger!Init
<1> SUFFICES ASSUME Init PROVE Ledger!Init
  OBVIOUS
<1>1. \A t \in Transactions : Outcome(db[t]) = "none"
  BY DEF Init, Outcome
<1>2. CallsOf("commit") = {} /\ CallsOf("rollback") = {}
  BY DEF Init, CallsOf
<1> QED
  BY <1>1, <1>2 DEF Ledger!Init

\* What the loops save: an open transaction, or the outcome it has.
LEMMA SaveLedger ==
    ASSUME IInv, FailureInv, SavedIsPending, NEW t \in Transactions, Save(t)
    PROVE  UNCHANGED Ledger!vars \/ Ledger!Commit(t) \/ Ledger!Abort(t)
<1>a. /\ db[t] \in [Nodes -> Row] /\ tracked[t] \in [Nodes -> Row]
      /\ db \in [Transactions -> [Nodes -> Row]]
  BY DEF IInv, TypeOK
<1>b. /\ db' = [db EXCEPT ![t] = tracked[t]] /\ served' = served
      /\ pc[t] \in Operations /\ todo[t] = {}
  BY DEF Save
<1>1. \A u \in Transactions : db'[u] = IF u = t THEN tracked[t] ELSE db[u]
  BY <1>a, <1>b
<1>2. CallsOf("commit")' = CallsOf("commit") /\ CallsOf("rollback")' = CallsOf("rollback")
  BY <1>b DEF CallsOf
<1>3. CASE Outcome(tracked[t]) = Outcome(db[t])
  <2>1. [u \in Transactions |-> Outcome(db'[u])] = [u \in Transactions |-> Outcome(db[u])]
    BY <1>1, <1>3
  <2>2. [u \in Transactions |-> Outcome(db[u])]' = [u \in Transactions |-> Outcome(db'[u])]
    BY DEF Outcome, AllRows, NoRow
  <2> QED
    BY <1>2, <2>1, <2>2 DEF Ledger!vars
<1>4. CASE Outcome(tracked[t]) # Outcome(db[t])
  <2>1. \E n \in Nodes : TRUE
    BY <1>4 DEF Outcome, AllRows
  <2>2. \A n \in Nodes : tracked[t][n] # NoRow /\ db[t][n] # NoRow
    BY <1>b DEF IInv, RowsExist, Operations, NoRow
  <2>3. Outcome(tracked[t]) # "none" /\ Outcome(db[t]) # "none"
    BY <1>a, <2>1, <2>2, OutcomeFacts
  <2>4. Outcome(db[t]) = "open" /\ Outcome(tracked[t]) \in {"committed", "aborted"}
    <3>1. CASE pc[t] \in {"ready", "commit"}
      <4>1. Outcome(db[t]) = "open"
        BY <1>a, <2>1, <2>3, <3>1, OutcomeFacts DEF SavedIsPending
      <4> QED
        BY <1>a, <1>4, <2>3, <4>1, OutcomeFacts
    <3>2. CASE pc[t] = "rollback"
      <4>1. PICK n \in Nodes : db[t][n].transactionState # "Done"
        BY <3>2 DEF IInv, RollbackMarks, AllRows
      <4>2. Outcome(db[t]) \in {"open", "aborted"}
        BY <1>a, <2>3, <4>1, OutcomeFacts
      <4>3. AllRows(tracked[t], "Abort")
        BY <1>b, <3>2 DEF IInv, RollbackMarks, AllRows
      <4>4. Outcome(tracked[t]) = "aborted"
        BY <1>a, <2>1, <4>3, OutcomeFacts
      <4> QED
        BY <1>4, <4>2, <4>4
    <3> QED
      BY <1>b, <3>1, <3>2 DEF Operations
  <2>5. [u \in Transactions |-> Outcome(db'[u])]
          = [[u \in Transactions |-> Outcome(db[u])] EXCEPT ![t] = Outcome(tracked[t])]
    BY <1>1
  <2>6. [u \in Transactions |-> Outcome(db[u])]' = [u \in Transactions |-> Outcome(db'[u])]
    BY DEF Outcome, AllRows, NoRow
  <2>7. CASE Outcome(tracked[t]) = "committed"
    <3>1. \A n \in Nodes : Served(t, n, "commit")
      BY <1>a, <2>7, OutcomeFacts DEF IInv, DoneRowsAreTrue, AllRows
    <3>2. \A n \in Nodes : <<t, n>> \in {<<call.tx, call.node>> : call \in CallsOf("commit")}
      <4>1. ASSUME NEW n \in Nodes
            PROVE  \E call \in CallsOf("commit") : <<t, n>> = <<call.tx, call.node>>
        <5>1. [tx |-> t, node |-> n, op |-> "commit"] \in CallsOf("commit")
          BY <3>1 DEF Served, Has, CallsOf
        <5> QED
          BY <5>1
      <4> QED
        BY <4>1
    <3> QED
      BY <1>2, <2>4, <2>5, <2>6, <2>7, <3>2 DEF Ledger!Commit
  <2>8. CASE Outcome(tracked[t]) = "aborted"
    BY <1>2, <2>4, <2>5, <2>6, <2>8 DEF Ledger!Abort
  <2> QED
    BY <2>4, <2>7, <2>8
<1> QED
  BY <1>3, <1>4

LEMMA CreateLedger ==
    ASSUME IInv, SavedIsPending, NEW t \in Transactions, CreateTransaction(t)
    PROVE  UNCHANGED Ledger!vars \/ Ledger!Begin(t)
<1> DEFINE new == [n \in Nodes |-> NewRow]
<1>a. db \in [Transactions -> [Nodes -> Row]] /\ new \in [Nodes -> Row]
  BY RowTypes DEF IInv, TypeOK
<1>1. \A u \in Transactions : db'[u] = IF u = t THEN new ELSE db[u]
  BY <1>a DEF CreateTransaction
<1>2. CallsOf("commit")' = CallsOf("commit") /\ CallsOf("rollback")' = CallsOf("rollback")
  BY DEF CreateTransaction, CallsOf
<1>3. [u \in Transactions |-> Outcome(db[u])]' = [u \in Transactions |-> Outcome(db'[u])]
  BY DEF Outcome, AllRows, NoRow
<1>4. Outcome(db[t]) = "none"
  BY DEF SavedIsPending, CreateTransaction, Outcome
<1>5. Outcome(new) = IF Nodes = {} THEN "none" ELSE "open"
  <2>1. CASE Nodes = {}
    BY <2>1 DEF Outcome
  <2>2. CASE Nodes # {}
    <3>1. PICK n \in Nodes : TRUE
      BY <2>2
    <3>2. new[n] # NoRow /\ new[n].transactionState = "Pending"
      BY DEF NoRow, NewRow
    <3>3. Outcome(new) # "none" /\ Outcome(new) \in {"none", "open"}
      <4> HIDE DEF new
      <4> QED
        BY <1>a, <3>2, OutcomeFacts
    <3> QED
      BY <2>2, <3>3
  <2> QED
    BY <2>1, <2>2
<1> HIDE DEF new
<1>6. [u \in Transactions |-> Outcome(db'[u])]
        = [[u \in Transactions |-> Outcome(db[u])] EXCEPT ![t] = Outcome(new)]
  BY <1>1
<1>7. CASE Nodes = {}
  <2>1. [u \in Transactions |-> Outcome(db'[u])] = [u \in Transactions |-> Outcome(db[u])]
    BY <1>1, <1>4, <1>5, <1>7
  <2> QED
    BY <1>2, <1>3, <2>1 DEF Ledger!vars
<1>8. CASE Nodes # {}
  BY <1>2, <1>3, <1>4, <1>5, <1>6, <1>8 DEF Ledger!Begin
<1> QED
  BY <1>7, <1>8

\* A service that is served late finds the transaction begun, and undoes only what it
\* has applied.
LEMMA ServeLedger ==
    ASSUME IInv, IInv', NEW call \in Calls, Serve(call)
    PROVE  \/ UNCHANGED Ledger!vars
           \/ Ledger!Apply(call.tx, call.node)
           \/ Ledger!Undo(call.tx, call.node)
<1> DEFINE t == call.tx
           n == call.node
           Pairs(op) == {<<c.tx, c.node>> : c \in CallsOf(op)}
<1>a. /\ t \in Transactions /\ n \in Nodes /\ call.op \in Operations
      /\ call = [tx |-> t, node |-> n, op |-> call.op]
  BY DEF Calls
<1>b. db[t] \in [Nodes -> Row]
  BY <1>a DEF IInv, TypeOK
<1>1. /\ call \in requests
      /\ served' = served \union {call}
      /\ db' = db
  BY DEF Serve
<1>2. [u \in Transactions |-> Outcome(db[u])]' = [u \in Transactions |-> Outcome(db[u])]
  BY <1>1 DEF Outcome, AllRows, NoRow
<1>3. \A op \in Operations :
          Pairs(op)' = IF op = call.op THEN Pairs(op) \union {<<t, n>>} ELSE Pairs(op)
  BY <1>1 DEF CallsOf
<1>4. CASE call.op = "ready"
  BY <1>2, <1>3, <1>4 DEF Ledger!vars, Operations
<1>5. CASE call.op = "commit"
  <2>1. Sent(t, n, "commit")
    BY <1>a, <1>1, <1>5 DEF Sent, Has
  <2>2. db[t][n].isReady = "Ready"
    BY <1>a, <2>1 DEF IInv, CommitNeedsEveryVote
  <2>3. Outcome(db[t]) # "none"
    <3>1. db[t][n] # NoRow
      BY <2>2 DEF NoRow
    <3> QED
      BY <1>a, <1>b, <3>1, OutcomeFacts
  <2> QED
    BY <1>a, <1>2, <1>3, <1>5, <2>3 DEF Ledger!Apply, Operations
<1>6. CASE call.op = "rollback"
  <2>1. Sent(t, n, "rollback")
    BY <1>a, <1>1, <1>6 DEF Sent, Has
  <2>2. Served(t, n, "commit")
    BY <1>a, <2>1 DEF IInv, RollbackOnlyAfterCommit
  <2>3. <<t, n>> \in Pairs("commit")
    BY <2>2 DEF Served, Has, CallsOf
  <2>4. PICK m \in Nodes : db[t][m].transactionState \in {"Pending", "Abort"}
    BY <1>a, <2>1 DEF IInv, RolledBackIsNotDone
  <2>5. Outcome(db[t]) \in {"open", "aborted"}
    <3>1. db[t][m] # NoRow /\ db[t][m].transactionState # "Done"
      BY <2>4 DEF NoRow
    <3> QED
      BY <1>b, <3>1, OutcomeFacts
  <2> QED
    BY <1>a, <1>2, <1>3, <1>6, <2>3, <2>5 DEF Ledger!Undo, Operations
<1> QED
  BY <1>a, <1>4, <1>5, <1>6 DEF Operations

LEMMA LedgerStep ==
    IInv /\ IInv' /\ FailureInv /\ SavedIsPending /\ [Next]_vars => [Ledger!Next]_Ledger!vars
<1> SUFFICES ASSUME IInv, IInv', FailureInv, SavedIsPending, [Next]_vars
             PROVE  Ledger!Next \/ UNCHANGED Ledger!vars
  OBVIOUS
<1>1. ASSUME UNCHANGED <<db, served>>
      PROVE  UNCHANGED Ledger!vars
  BY <1>1 DEF Ledger!vars, Outcome, AllRows, NoRow, CallsOf
<1>2. ASSUME NEW t \in Transactions, CreateTransaction(t)
      PROVE  Ledger!Next \/ UNCHANGED Ledger!vars
  BY <1>2, CreateLedger DEF Ledger!Next
<1>3. ASSUME NEW t \in Transactions, Save(t)
      PROVE  Ledger!Next \/ UNCHANGED Ledger!vars
  BY <1>3, SaveLedger DEF Ledger!Next
<1>4. ASSUME NEW call \in Calls, Serve(call)
      PROVE  Ledger!Next \/ UNCHANGED Ledger!vars
  <2>1. call.tx \in Transactions /\ call.node \in Nodes
    BY DEF Calls
  <2> QED
    BY <1>4, <2>1, ServeLedger DEF Ledger!Next
<1>5. Next => \/ UNCHANGED <<db, served>>
              \/ \E t \in Transactions : CreateTransaction(t) \/ Save(t)
              \/ \E call \in Calls : Serve(call)
  BY DEF Next, Proceed, DecideCommit, DecideRollback, Enter, DatabaseFails, SendCall,
         SkipRollback, Answered, CallFails, Record, Crash
<1> QED
  BY <1>1, <1>2, <1>3, <1>4, <1>5 DEF vars

\* The coordinator's table keeps the ledger's promise to its readers: committed only
\* with every service, never undone after, and nothing undone that was not applied,
\* whatever is late, lost or crashed.
THEOREM CoordinatorIsLedger == Spec => ImplementsLedger
  BY LedgerInit, LedgerStep, IInvHolds, FailureInvHolds, SavedIsPendingHolds, PTL
  DEF Spec, ImplementsLedger, Ledger!Spec

=============================================================================
