-------------------------- MODULE OutboxPublisher --------------------------
(***************************************************************************)
(* OutBoxAndInBoxDesignPatternPractice, the sending side: Order.API writes  *)
(* an order and then its row of the outbox, and a Quartz job of             *)
(* Order.OutBox.Table.Publisher.Service publishes the rows it finds and     *)
(* marks them, in another column than the one it looks at.  The job has a   *)
(* static busy flag, shared by runs Quartz may overlap, and does not await  *)
(* its UPDATE.                                                              *)
(***************************************************************************)
EXTENDS Integers

CONSTANTS Orders,      \* each with its IdempotentToken
          Jobs,        \* runs of OrderOutBoxPublishJob at one time
          MaxCrashes   \* bound: how often a process dies

ASSUME MaxCrashesAssumption == MaxCrashes \in Nat

VARIABLES built,      \* which of Features the database was built with
          order,      \* [Orders -> OrderStates]: POST /create-order
          outbox,     \* [Orders -> OutboxStates]: table OrderOutboxes
          busy,       \* ~_dataReaderState
          job,        \* [Jobs -> JobStates]
          updates,    \* UPDATEs that are under way
          published,  \* history: orders whose event was published
          causes,     \* history: which of Causes have happened
          crashes

postVars == <<order, outbox>>
jobVars == <<busy, job, updates, published, causes>>
vars == <<built, postVars, jobVars, crashes>>

\* "key": OrderOutbox has one (OrderAPIDbContext says HasNoKey).  "column": beside the
\* entity's ProccessedDate, which the job sets, the table has the PROCESSEDDATE it reads.
Features == {"key", "column"}

OrderStates == {"none", "posting", "accepted", "cutOff"}
OutboxStates == {"absent", "pending", "processed"}

JobStates == [pc : {"idle", "checked", "query", "publish"}, rows : SUBSET Orders]

Idle == [pc |-> "idle", rows |-> {}]

\* Two runs read the flag before either set it; a run threw.
Causes == {"flagReadTwice", "jobThrew"}

Init ==
    /\ built \in SUBSET Features
    /\ order = [o \in Orders |-> "none"]
    /\ outbox = [o \in Orders |-> "absent"]
    /\ busy = FALSE
    /\ job = [j \in Jobs |-> Idle]
    /\ updates = {}
    /\ published = {}
    /\ causes = {}
    /\ crashes = 0

Because(cause, condition) == causes' = IF condition THEN causes \union {cause} ELSE causes

Die == crashes < MaxCrashes /\ crashes' = crashes + 1

-----------------------------------------------------------------------------
(* Order.API *)

CreateOrder(o) ==
    /\ order[o] = "none"
    /\ order' = [order EXCEPT ![o] = "posting"]
    /\ UNCHANGED <<built, outbox, jobVars, crashes>>

AddToOutbox(o) ==
    /\ order[o] = "posting"
    /\ "key" \in built
    /\ outbox' = [outbox EXCEPT ![o] = "pending"]
    /\ order' = [order EXCEPT ![o] = "accepted"]
    /\ UNCHANGED <<built, jobVars, crashes>>

\* AddAsync throws: an entity without a key is not tracked.
AddThrows(o) ==
    /\ order[o] = "posting"
    /\ "key" \notin built
    /\ order' = [order EXCEPT ![o] = "cutOff"]
    /\ UNCHANGED <<built, outbox, jobVars, crashes>>

\* Between the two saves.
OrderCrash(o) ==
    /\ order[o] = "posting"
    /\ Die
    /\ order' = [order EXCEPT ![o] = "cutOff"]
    /\ UNCHANGED <<built, outbox, jobVars>>

-----------------------------------------------------------------------------
(* Order.OutBox.Table.Publisher.Service *)

CheckReady(j) ==
    /\ job[j].pc = "idle"
    /\ ~busy
    /\ job' = [job EXCEPT ![j].pc = "checked"]
    /\ Because("flagReadTwice", \E k \in Jobs \ {j} : job[k].pc = "checked")
    /\ UNCHANGED <<built, postVars, busy, updates, published, crashes>>

SetBusy(j) ==
    /\ job[j].pc = "checked"
    /\ job' = [job EXCEPT ![j].pc = "query"]
    /\ busy' = TRUE
    /\ UNCHANGED <<built, postVars, updates, published, causes, crashes>>

\* Nobody writes PROCESSEDDATE: the rows that are marked are read again with the others.
Rows == {o \in Orders : outbox[o] # "absent"}

\* Mutant: the flag is given back once the rows are read, as DataReaderState suggests.
QueryReady(j) ==
    /\ job[j].pc = "query"
    /\ "column" \in built
    /\ job' = [job EXCEPT ![j] = [pc |-> "publish", rows |-> Rows]]
    /\ busy' = FALSE
    /\ UNCHANGED <<built, postVars, updates, published, causes, crashes>>

Query(j) ==
    /\ job[j].pc = "query"
    /\ "column" \in built
    /\ job' = [job EXCEPT ![j] = [pc |-> "publish", rows |-> Rows]]
    /\ UNCHANGED <<built, postVars, busy, updates, published, causes, crashes>>

\* Mutant: the UPDATE before the Publish, and awaited.
PublishMarked(j, o) ==
    /\ o \in job[j].rows
    /\ outbox[o] # "processed"
    /\ outbox' = [outbox EXCEPT ![o] = "processed"]
    /\ UNCHANGED <<built, order, busy, job, updates, published, causes, crashes>>

Publish(j, o) ==
    /\ o \in job[j].rows
    /\ job' = [job EXCEPT ![j].rows = @ \ {o}]
    /\ published' = published \union {o}
    /\ updates' = updates \union {o}
    /\ UNCHANGED <<built, postVars, busy, causes, crashes>>

\* Mutant: the flag stays busy.
FinishBusy(j) ==
    /\ job[j] = [pc |-> "publish", rows |-> {}]
    /\ job' = [job EXCEPT ![j] = Idle]
    /\ UNCHANGED <<built, postVars, busy, updates, published, causes, crashes>>

Finish(j) ==
    /\ job[j] = [pc |-> "publish", rows |-> {}]
    /\ job' = [job EXCEPT ![j] = Idle]
    /\ busy' = FALSE
    /\ UNCHANGED <<built, postVars, updates, published, causes, crashes>>

\* QueryAsync or Publish throws: the run ends, and leaves the flag as it is.
JobThrows(j) ==
    /\ job[j].pc = "query" \/ job[j].rows # {}
    /\ job' = [job EXCEPT ![j] = Idle]
    /\ Because("jobThrew", TRUE)
    /\ UNCHANGED <<built, postVars, busy, updates, published, crashes>>

Update(o) ==
    /\ o \in updates
    /\ updates' = updates \ {o}
    /\ outbox' = [outbox EXCEPT ![o] = "processed"]
    /\ UNCHANGED <<built, order, busy, job, published, causes, crashes>>

\* Nobody observes the task: two commands on the one connection, say.
UpdateFails(o) ==
    /\ o \in updates
    /\ updates' = updates \ {o}
    /\ UNCHANGED <<built, postVars, busy, job, published, causes, crashes>>

PublisherCrash ==
    /\ Die
    /\ job' = [j \in Jobs |-> Idle]
    /\ busy' = FALSE
    /\ updates' = {}
    /\ UNCHANGED <<built, postVars, published, causes>>

-----------------------------------------------------------------------------
PostStep(o) == AddToOutbox(o) \/ AddThrows(o)

JobStep(j) ==
    \/ CheckReady(j)
    \/ SetBusy(j)
    \/ Query(j)
    \/ \E o \in Orders : Publish(j, o)
    \/ Finish(j)
    \/ JobThrows(j)

UpdateStep(o) == Update(o) \/ UpdateFails(o)

Next ==
    \/ \E o \in Orders : CreateOrder(o) \/ PostStep(o) \/ OrderCrash(o) \/ UpdateStep(o)
    \/ \E j \in Jobs : JobStep(j)
    \/ PublisherCrash

Spec == Init /\ [][Next]_vars

\* What has begun goes on, and Quartz repeats for ever.
FairSpec ==
    /\ Spec
    /\ \A o \in Orders : WF_vars(PostStep(o)) /\ WF_vars(UpdateStep(o))
    /\ \A j \in Jobs : WF_vars(JobStep(j))

-----------------------------------------------------------------------------
\* Each variable has its type, and an order that is accepted has its row.
TypeOK ==
    /\ built \subseteq Features
    /\ order \in [Orders -> OrderStates]
    /\ outbox \in [Orders -> OutboxStates]
    /\ \A o \in Orders : outbox[o] = "absent" <=> order[o] # "accepted"
    /\ busy \in BOOLEAN
    /\ job \in [Jobs -> JobStates]
    /\ updates \subseteq Orders
    /\ published \subseteq Orders
    /\ causes \subseteq Causes
    /\ crashes \in 0 .. MaxCrashes

\* A row is marked, or about to be, only once its event has been published: a
\* crash, an UPDATE that is lost or runs that overlap repeat an event, and
\* never lose one.
MarkedRowsArePublished ==
    \A o \in Orders : outbox[o] = "processed" \/ o \in updates => o \in published

\* A run holds the flag.
Past(j) == job[j].pc \in {"query", "publish"}

\* The runs share one connection, and the flag is there to keep them apart: while one
\* is past it the flag is busy and no other run goes on, through throws and crashes,
\* until two of them have read the flag before either set it.
FlagExcludes ==
    "flagReadTwice" \notin causes =>
        \A j \in Jobs : Past(j) => busy /\ \A k \in Jobs \ {j} : job[k].pc = "idle"

\* A run threw, and no other will ever begin: the flag is busy and nobody is.
Stuck == "jobThrew" \in causes /\ busy /\ \A j \in Jobs : job[j] = Idle

\* Every row of the outbox is published, unless a run that threw has left the
\* flag busy.
EveryRowIsPublished ==
    \A o \in Orders : outbox[o] = "pending" ~> o \in published \/ Stuck

=============================================================================
