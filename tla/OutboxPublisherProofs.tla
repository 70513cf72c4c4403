----------------------- MODULE OutboxPublisherProofs -----------------------
(***************************************************************************)
(* Theorems about OutboxPublisher, for any set of orders, any number of     *)
(* runs of the job and of crashes, and either build of the database.        *)
(***************************************************************************)
EXTENDS OutboxPublisher, TLAPS

-----------------------------------------------------------------------------
(* Types.  That a row is in the table exactly when its order was accepted   *)
(* survives an UPDATE because the job only handles rows it has read.        *)

HandledAreRows ==
    \A o \in Orders :
        (o \in updates \/ \E j \in Jobs : o \in job[j].rows) => outbox[o] # "absent"

TypeInv == TypeOK /\ HandledAreRows

LEMMA TypeInit == Init => TypeInv
<1> SUFFICES ASSUME Init
             PROVE  TypeInv
  OBVIOUS
<1>1. /\ built \subseteq Features
      /\ causes \subseteq Causes
      /\ crashes \in 0 .. MaxCrashes
  BY MaxCrashesAssumption DEF Init
<1>2. job \in [Jobs -> JobStates]
  BY DEF Init, Idle, JobStates
<1>3. /\ order \in [Orders -> OrderStates]
      /\ outbox \in [Orders -> OutboxStates]
      /\ \A o \in Orders : outbox[o] = "absent" <=> order[o] # "accepted"
  BY DEF Init, OrderStates, OutboxStates
<1>4. TypeOK
  BY <1>1, <1>2, <1>3 DEF Init, TypeOK
<1>5. HandledAreRows
  BY DEF Init, Idle, HandledAreRows
<1> QED
  BY <1>4, <1>5 DEF TypeInv

LEMMA TypeStep == TypeInv /\ [Next]_vars => TypeInv'
<1> SUFFICES ASSUME TypeInv, [Next]_vars
             PROVE  TypeInv'
  OBVIOUS
<1> USE MaxCrashesAssumption DEF TypeInv, TypeOK, HandledAreRows
<1>1. ASSUME NEW o \in Orders, CreateOrder(o)
      PROVE  TypeInv'
  BY <1>1 DEF CreateOrder, jobVars, OrderStates
<1>2. ASSUME NEW o \in Orders, AddToOutbox(o)
      PROVE  TypeInv'
  BY <1>2 DEF AddToOutbox, jobVars, OrderStates, OutboxStates
<1>3. ASSUME NEW o \in Orders, AddThrows(o)
      PROVE  TypeInv'
  BY <1>3 DEF AddThrows, jobVars, OrderStates
<1>4. ASSUME NEW o \in Orders, OrderCrash(o)
      PROVE  TypeInv'
  BY <1>4 DEF OrderCrash, Die, jobVars, OrderStates
<1>5. ASSUME NEW o \in Orders, Update(o)
      PROVE  TypeInv'
  BY <1>5 DEF Update, OutboxStates
<1>6. ASSUME NEW o \in Orders, UpdateFails(o)
      PROVE  TypeInv'
  BY <1>6 DEF UpdateFails, postVars
<1>7. ASSUME NEW j \in Jobs, CheckReady(j)
      PROVE  TypeInv'
  BY <1>7 DEF CheckReady, Because, Causes, JobStates, postVars
<1>8. ASSUME NEW j \in Jobs, SetBusy(j)
      PROVE  TypeInv'
  BY <1>8 DEF SetBusy, JobStates, postVars
<1>9. ASSUME NEW j \in Jobs, Query(j)
      PROVE  TypeInv'
  BY <1>9 DEF Query, Rows, JobStates, postVars
<1>10. ASSUME NEW j \in Jobs, NEW o \in Orders, Publish(j, o)
       PROVE  TypeInv'
  <2>1. job' \in [Jobs -> JobStates]
    BY <1>10 DEF Publish, JobStates
  <2> QED
    BY <1>10, <2>1 DEF Publish, postVars
<1>11. ASSUME NEW j \in Jobs, Finish(j)
       PROVE  TypeInv'
  BY <1>11 DEF Finish, Idle, JobStates, postVars
<1>12. ASSUME NEW j \in Jobs, JobThrows(j)
       PROVE  TypeInv'
  BY <1>12 DEF JobThrows, Because, Causes, Idle, JobStates, postVars
<1>13. CASE PublisherCrash
  <2>1. job' \in [Jobs -> JobStates] /\ \A j \in Jobs : job'[j].rows = {}
    BY <1>13 DEF PublisherCrash, Idle, JobStates
  <2>2. crashes' \in 0 .. MaxCrashes
    BY <1>13 DEF PublisherCrash, Die
  <2> QED
    BY <1>13, <2>1, <2>2 DEF PublisherCrash, postVars
<1>14. CASE UNCHANGED vars
  BY <1>14 DEF vars, postVars, jobVars
<1> QED
  BY <1>1, <1>2, <1>3, <1>4, <1>5, <1>6, <1>7, <1>8, <1>9, <1>10, <1>11, <1>12,
     <1>13, <1>14
  DEF Next, PostStep, UpdateStep, JobStep

\* The type invariant of the outbox: in particular an order was accepted exactly
\* when its row is in the table.
THEOREM TypeCorrect == Spec => []TypeOK
<1>1. TypeInv => TypeOK
  BY DEF TypeInv
<1> QED
  BY <1>1, TypeInit, TypeStep, PTL DEF Spec

-----------------------------------------------------------------------------
(* At least once. *)

\* A row is marked, or an UPDATE that will mark it is under way, only when its
\* event has been published, whatever dies, throws or overlaps.  It is inductive:
\* a mark comes from an UPDATE, and an UPDATE from a Publish that was awaited.
THEOREM MarkedOnlyOncePublished == Spec => []MarkedRowsArePublished
<1>1. Init => MarkedRowsArePublished
  BY DEF Init, MarkedRowsArePublished
<1>2. TypeOK /\ MarkedRowsArePublished /\ [Next]_vars => MarkedRowsArePublished'
  <2> SUFFICES ASSUME TypeOK, MarkedRowsArePublished, [Next]_vars
               PROVE  MarkedRowsArePublished'
    OBVIOUS
  <2> USE DEF MarkedRowsArePublished
  <2>1. ASSUME UNCHANGED <<outbox, updates, published>>
        PROVE  MarkedRowsArePublished'
    BY <2>1
  <2>2. ASSUME NEW o \in Orders, AddToOutbox(o)
        PROVE  MarkedRowsArePublished'
    BY <2>2 DEF AddToOutbox, jobVars, TypeOK
  <2>3. ASSUME NEW o \in Orders, Update(o)
        PROVE  MarkedRowsArePublished'
    BY <2>3 DEF Update, TypeOK
  <2>4. ASSUME NEW o \in Orders, UpdateFails(o)
        PROVE  MarkedRowsArePublished'
    BY <2>4 DEF UpdateFails, postVars
  <2>5. ASSUME NEW j \in Jobs, NEW o \in Orders, Publish(j, o)
        PROVE  MarkedRowsArePublished'
    BY <2>5 DEF Publish, postVars
  <2>6. CASE PublisherCrash
    BY <2>6 DEF PublisherCrash, postVars
  <2> QED
    BY <2>1, <2>2, <2>3, <2>4, <2>5, <2>6
    DEF Next, PostStep, UpdateStep, JobStep, CreateOrder, AddThrows, OrderCrash,
        CheckReady, SetBusy, Query, Finish, JobThrows, vars, postVars, jobVars
<1> QED
  BY <1>1, <1>2, TypeCorrect, PTL DEF Spec

-----------------------------------------------------------------------------
(* The flag. *)

\* Until two runs have read the flag before either set it, at most one run goes on,
\* and the flag is busy from when it was set.
OneRunInv ==
    "flagReadTwice" \notin causes =>
        /\ \A j, k \in Jobs : job[j].pc # "idle" /\ job[k].pc # "idle" => j = k
        /\ \A j \in Jobs : Past(j) => busy

LEMMA OneRunStep == TypeOK /\ OneRunInv /\ [Next]_vars => OneRunInv'
<1> SUFFICES ASSUME TypeOK, OneRunInv, [Next]_vars
             PROVE  OneRunInv'
  OBVIOUS
<1> USE DEF OneRunInv, Past
<1>1. ASSUME UNCHANGED <<job, busy, causes>>
      PROVE  OneRunInv'
  BY <1>1
<1>2. ASSUME NEW j \in Jobs, CheckReady(j)
      PROVE  OneRunInv'
  <2>1. /\ job'[j].pc = "checked"
        /\ \A k \in Jobs \ {j} : job'[k] = job[k]
        /\ ~busy /\ busy' = busy
    BY <1>2 DEF CheckReady, TypeOK, JobStates
  <2>2. "flagReadTwice" \notin causes' =>
            "flagReadTwice" \notin causes /\ \A k \in Jobs \ {j} : job[k].pc # "checked"
    BY <1>2 DEF CheckReady, Because
  <2>3. \A k \in Jobs : job[k].pc \in {"idle", "checked"} \/ Past(k)
    BY DEF TypeOK, JobStates
  <2> QED
    BY <2>1, <2>2, <2>3
<1>3. ASSUME NEW j \in Jobs, SetBusy(j)
      PROVE  OneRunInv'
  <2>1. /\ job[j].pc # "idle" /\ \A k \in Jobs \ {j} : job'[k] = job[k]
        /\ busy' = TRUE /\ causes' = causes
    BY <1>3 DEF SetBusy, TypeOK
  <2> QED
    BY <2>1
<1>4. ASSUME NEW j \in Jobs, Query(j)
      PROVE  OneRunInv'
  <2>1. /\ Past(j) /\ \A k \in Jobs \ {j} : job'[k] = job[k]
        /\ busy' = busy /\ causes' = causes
    BY <1>4 DEF Query, TypeOK
  <2> QED
    BY <2>1
<1>5. ASSUME NEW j \in Jobs, NEW o \in Orders, Publish(j, o)
      PROVE  OneRunInv'
  <2>1. /\ \A k \in Jobs : job'[k].pc = job[k].pc
        /\ busy' = busy /\ causes' = causes
    BY <1>5 DEF Publish, TypeOK, JobStates
  <2> QED
    BY <2>1
<1>6. ASSUME NEW j \in Jobs, Finish(j)
      PROVE  OneRunInv'
  <2>1. /\ Past(j) /\ job'[j].pc = "idle" /\ \A k \in Jobs \ {j} : job'[k] = job[k]
        /\ causes' = causes
    BY <1>6 DEF Finish, Idle, TypeOK
  <2> QED
    BY <2>1
<1>7. ASSUME NEW j \in Jobs, JobThrows(j)
      PROVE  OneRunInv'
  <2>1. /\ job'[j].pc = "idle" /\ \A k \in Jobs \ {j} : job'[k] = job[k]
        /\ busy' = busy
        /\ "flagReadTwice" \in causes' <=> "flagReadTwice" \in causes
    BY <1>7 DEF JobThrows, Because, Idle, TypeOK
  <2> QED
    BY <2>1
<1>8. CASE PublisherCrash
  <2>1. \A j \in Jobs : job'[j].pc = "idle"
    BY <1>8 DEF PublisherCrash, Idle
  <2> QED
    BY <2>1
<1> QED
  BY <1>1, <1>2, <1>3, <1>4, <1>5, <1>6, <1>7, <1>8
  DEF Next, PostStep, UpdateStep, JobStep, CreateOrder, AddToOutbox, AddThrows, OrderCrash,
      Update, UpdateFails, vars, postVars, jobVars

\* The flag keeps any number of runs apart, those that throw and the crashes included:
\* the only way past it is to read it between another run's look at it and its setting.
THEOREM FlagKeepsRunsApart == Spec => []FlagExcludes
<1>1. Init => OneRunInv
  BY DEF Init, Idle, OneRunInv, Past
<1>2. OneRunInv => FlagExcludes
  BY DEF OneRunInv, FlagExcludes, Past
<1> QED
  BY <1>1, <1>2, OneRunStep, TypeCorrect, PTL DEF Spec

=============================================================================
