------------------------ MODULE InferenceJobsProofs ------------------------
(***************************************************************************)
(* Proofs about InferenceJobs for any number of jobs, images and workers   *)
(* and any bounds on the faults.                                           *)
(***************************************************************************)
EXTENDS InferenceJobs, AnnotationTableProofs

-----------------------------------------------------------------------------
(* Facts about messages.                                                   *)

(* The messages enqueue_job and process_image are told apart by name, and  *)
(* carry the job, image and retries they were built with.                  *)
LEMMA MessageFacts ==
    /\ \A j \in Job : EnqueueMsg(j) \in Message /\ EnqueueMsg(j).job = j
    /\ \A j \in Job, i \in Image, r \in 0 .. MaxRetries :
          /\ ProcessMsg(j, i, r) \in ProcessMessage
          /\ ProcessMsg(j, i, r).job = j
          /\ ProcessMsg(j, i, r).image = i
          /\ ProcessMsg(j, i, r).retries = r
          /\ ProcessMsg(j, i, r).name = "process_image"
    /\ ProcessMessage \subseteq Message
    /\ \A m \in Message : m.job \in Job
    /\ \A m \in Message : m.name = "enqueue_job" \/ m \in ProcessMessage
    /\ \A m \in ProcessMessage :
          /\ m.name = "process_image"
          /\ m.image \in Image
          /\ m.retries \in 0 .. MaxRetries
          /\ m = ProcessMsg(m.job, m.image, m.retries)
  BY DEF EnqueueMsg, ProcessMsg, Message, ProcessMessage

-----------------------------------------------------------------------------
(* The except clause.                                                      *)

(* Given the exception, retry never raises MaxRetriesExceededError: the    *)
(* handler that would mark the image and the job failed is unreachable.    *)
LEMMA GiveUpCountsNothing ==
    ASSUME NEW w, GiveUp(w)
    PROVE  UNCHANGED dbVars
  BY DEF GiveUp, RetryRaises, dbVars

-----------------------------------------------------------------------------
(* Type correctness.  Each part of TypeOK speaks of one group of           *)
(* variables; a step that leaves the group alone preserves the part.       *)

(* A step that leaves a group of variables alone preserves the part of     *)
(* TypeOK that speaks of it.                                               *)
LEMMA UnchangedParts ==
    /\ UNCHANGED dbVars /\ DbTypeOK => DbTypeOK'
    /\ UNCHANGED apiVars /\ ApiTypeOK => ApiTypeOK'
    /\ UNCHANGED brokerVars /\ BrokerTypeOK => BrokerTypeOK'
    /\ UNCHANGED workerVars /\ WorkerTypeOK => WorkerTypeOK'
    /\ UNCHANGED faultVars /\ FaultTypeOK => FaultTypeOK'
<1>1. UNCHANGED dbVars /\ DbTypeOK => DbTypeOK'
  BY DEF dbVars, DbTypeOK
<1>2. UNCHANGED apiVars /\ ApiTypeOK => ApiTypeOK'
  BY DEF apiVars, ApiTypeOK
<1>3. UNCHANGED brokerVars /\ BrokerTypeOK => BrokerTypeOK'
  BY DEF brokerVars, BrokerTypeOK
<1>4. UNCHANGED workerVars /\ WorkerTypeOK => WorkerTypeOK'
  BY DEF workerVars, WorkerTypeOK
<1>5. UNCHANGED faultVars /\ FaultTypeOK => FaultTypeOK'
  BY DEF faultVars, FaultTypeOK
<1> QED
  BY <1>1, <1>2, <1>3, <1>4, <1>5

(* A worker that lets go of its message, or only forgets what it read,     *)
(* stays well typed.                                                       *)
LEMMA ReleaseType ==
    ASSUME NEW w \in Worker, WorkerTypeOK, Release(w)
    PROVE  WorkerTypeOK'
  BY DEF WorkerTypeOK, Release, JobRow, NoJobRow

(* Leaving the transaction of process_image, by a commit or an exception,  *)
(* keeps the worker well-typed.                                            *)
LEMMA CloseSessionType ==
    ASSUME NEW w \in Worker, WorkerTypeOK, CloseSession(w),
           NEW to \in {"except", "ack"}, pc' = [pc EXCEPT ![w] = to],
           msg[w] \in ProcessMessage
    PROVE  WorkerTypeOK'
<1>1. msg[w] \in Message
  BY MessageFacts
<1> QED
  BY <1>1 DEF WorkerTypeOK, CloseSession, JobRow, NoJobRow

(* A worker that moves on inside a task, with nothing else of its state    *)
(* changed.                                                                *)
LEMMA GotoType ==
    ASSUME NEW w \in Worker, WorkerTypeOK,
           NEW from, NEW to, Goto(w, from, to),
           \/ from \in {"update", "fanout", "load", "except"} /\ to = "ack"
           \/ from = "load" /\ to = "version"
           \/ from = "version" /\ to = "bump"
           \/ from = "bump" /\ to = "commit",
           UNCHANGED msg,
           todo' \in [Worker -> SUBSET Image],
           ver' \in [Worker -> Nat],
           seen' \in [Worker -> JobRow]
    PROVE  WorkerTypeOK'
<1>1. \A v \in Worker : v # w => pc'[v] = pc[v]
  BY DEF WorkerTypeOK, Goto
<1>2. pc[w] = from /\ pc'[w] = to /\ pc[w] # "idle"
  BY DEF WorkerTypeOK, Goto
<1>3. pc' \in [Worker -> {"idle", "update", "fanout", "load", "version",
                           "bump", "commit", "except", "ack"}]
  BY DEF WorkerTypeOK, Goto
<1> QED
  BY <1>1, <1>2, <1>3 DEF WorkerTypeOK

(* What _bump_job writes is a job row.                                     *)
LEMMA BumpJobType ==
    ASSUME NEW current \in JobRow, NEW read \in JobRow,
           NEW processed \in Nat, NEW failed \in Nat
    PROVE  BumpJob(current, read, processed, failed) \in JobRow
  BY DEF BumpJob, JobRow

(* The row that a commit inserts is an annotation row, and the table stays *)
(* finite.                                                                 *)
LEMMA CommitEffectType ==
    ASSUME NEW w \in Worker, DbTypeOK, WorkerTypeOK,
           VersionFresh, pc[w] = "commit", InsertAllowed(w), CommitEffect(w)
    PROVE  DbTypeOK'
<1> DEFINE i == msg[w].image
           j == msg[w].job
<1>1. msg[w] \in ProcessMessage
  BY DEF WorkerTypeOK
<1>2. i \in Image /\ j \in Job
  BY <1>1, MessageFacts
<1>3. ver[w] \in Nat \ {0}
  <2>1. ver[w] \in 1 .. Cardinality(RowsOf(annotations, i)) + 1
    BY DEF VersionFresh, InsertAllowed
  <2>2. Cardinality(RowsOf(annotations, i)) \in Nat
    BY RowCounts DEF DbTypeOK
  <2> QED
    BY <2>1, <2>2
<1>4. annotations' \subseteq Annotation
  BY <1>2, <1>3 DEF CommitEffect, Insert, DbTypeOK, Annotation
<1>5. IsFiniteSet(annotations')
  BY RowsAfterInsert DEF CommitEffect, InsertAllowed, DbTypeOK
<1>6. jobs' \in [Job -> JobRow]
  <2>1. jobs[j] \in JobRow /\ seen[w] \in JobRow
    BY <1>2 DEF DbTypeOK, WorkerTypeOK
  <2>2. BumpJob(jobs[j], seen[w], 1, 0) \in JobRow
    BY <2>1, BumpJobType
  <2>3. jobs' = [jobs EXCEPT ![j] = BumpJob(jobs[j], seen[w], 1, 0)]
    BY <1>2 DEF CommitEffect, DbTypeOK
  <2> QED
    BY <2>2, <2>3 DEF DbTypeOK
<1>7. images' \in [Image -> ImageStatus] /\ dataset' \in BOOLEAN
  BY DEF CommitEffect, DbTypeOK, ImageStatus
<1> QED
  BY <1>4, <1>5, <1>6, <1>7 DEF DbTypeOK

(* The initial state is well-typed.                                        *)
LEMMA InitType == Init => TypeOK
<1> SUFFICES ASSUME Init PROVE TypeOK
  OBVIOUS
<1> USE DEF Init
<1>1. DbTypeOK
  BY EmptyTable DEF DbTypeOK, JobRow, NoJobRow, ImageStatus
<1>2. ApiTypeOK
  BY DEF ApiTypeOK
<1>3. BrokerTypeOK
  BY DEF BrokerTypeOK
<1>4. WorkerTypeOK
  BY DEF WorkerTypeOK, JobRow, NoJobRow
<1>5. FaultTypeOK
  BY BoundsAssumption DEF FaultTypeOK
<1> QED
  BY <1>1, <1>2, <1>3, <1>4, <1>5 DEF TypeOK

(* The API handlers.                                                       *)
LEMMA ClientType ==
    ASSUME TypeOK, NEW j \in Job, Client(j)
    PROVE  TypeOK'
<1> USE UnchangedParts DEF TypeOK
<1>1. CASE SelectPending(j)
  <2>1. ApiTypeOK'
    BY <1>1 DEF SelectPending, ApiTypeOK
  <2> QED
    BY <1>1, <2>1 DEF SelectPending
<1>2. CASE CommitJob(j)
  <2>1. NewJobRow(Cardinality(selected[j])) \in JobRow
    <3>1. IsFiniteSet(selected[j])
      BY FiniteAssumption, FS_Subset DEF ApiTypeOK
    <3>2. Cardinality(selected[j]) \in Nat
      BY <3>1, FS_CardinalityType
    <3> QED
      BY <3>2 DEF NewJobRow, JobRow
  <2>2. DbTypeOK'
    BY <1>2, <2>1 DEF CommitJob, DbTypeOK
  <2>3. ApiTypeOK'
    BY <1>2 DEF CommitJob, ApiTypeOK
  <2> QED
    BY <1>2, <2>2, <2>3 DEF CommitJob
<1>3. CASE CommitJobFails(j)
  <2>1. ApiTypeOK'
    BY <1>3 DEF CommitJobFails, ApiTypeOK
  <2> QED
    BY <1>3, <2>1 DEF CommitJobFails
<1>4. CASE Dispatch(j)
  <2>1. ApiTypeOK'
    BY <1>4 DEF Dispatch, ApiTypeOK
  <2>2. BrokerTypeOK'
    BY <1>4, MessageFacts DEF Dispatch, Put, BrokerTypeOK
  <2> QED
    BY <1>4, <2>1, <2>2 DEF Dispatch
<1>5. CASE DispatchFails(j)
  <2>1. ApiTypeOK'
    BY <1>5 DEF DispatchFails, ApiTypeOK
  <2>2. FaultTypeOK'
    BY <1>5, BoundsAssumption DEF DispatchFails, FaultTypeOK
  <2> QED
    BY <1>5, <2>1, <2>2 DEF DispatchFails
<1>6. CASE LoadForCancel(j)
  <2>1. ApiTypeOK'
    BY <1>6 DEF LoadForCancel, ApiTypeOK
  <2> QED
    BY <1>6, <2>1 DEF LoadForCancel
<1>7. CASE CommitCancel(j)
  <2>1. DbTypeOK'
    BY <1>7 DEF CommitCancel, DbTypeOK, JobRow
  <2>2. ApiTypeOK'
    BY <1>7 DEF CommitCancel, ApiTypeOK
  <2> QED
    BY <1>7, <2>1, <2>2 DEF CommitCancel
<1> QED
  BY <1>1, <1>2, <1>3, <1>4, <1>5, <1>6, <1>7 DEF Client

(* The cascading delete of the dataset leaves well-typed, empty tables.    *)
LEMMA DeleteType ==
    ASSUME TypeOK, DeleteDataset
    PROVE  TypeOK'
<1>1. DbTypeOK'
  BY EmptyTable DEF DeleteDataset, DbTypeOK, JobRow, NoJobRow, ImageStatus
<1> QED
  BY <1>1, UnchangedParts DEF DeleteDataset, TypeOK

(* The steps of a worker.                                                  *)
LEMMA WorkerStepType ==
    ASSUME TypeOK, VersionLineage, VersionFresh, NEW w \in Worker, WorkerStep(w)
    PROVE  TypeOK'
<1> USE UnchangedParts DEF TypeOK
<1>0. /\ todo \in [Worker -> SUBSET Image]
      /\ ver \in [Worker -> Nat]
      /\ seen \in [Worker -> JobRow]
  BY DEF WorkerTypeOK
<1>1. CASE Receive(w)
  <2>1. PICK m \in Message :
          /\ queue[m] > 0
          /\ queue' = [queue EXCEPT ![m] = @ - 1]
          /\ msg' = [msg EXCEPT ![w] = m]
          /\ pc' = [pc EXCEPT ![w] =
                      IF m.name = "enqueue_job" THEN "update" ELSE "load"]
    BY <1>1 DEF Receive
  <2>2. BrokerTypeOK'
    BY <1>1, <2>1 DEF Receive, BrokerTypeOK
  <2>3. WorkerTypeOK'
    BY <1>1, <2>1, MessageFacts DEF Receive, WorkerTypeOK
  <2> QED
    BY <1>1, <2>2, <2>3 DEF Receive
<1>2. CASE Ack(w)
  BY <1>2, ReleaseType DEF Ack
<1>3. CASE MarkRunning(w)
  <2>1. msg[w].job \in Job
    BY <1>3, MessageFacts DEF MarkRunning, Goto, WorkerTypeOK
  <2>2. DbTypeOK'
    BY <1>3, <2>1 DEF MarkRunning, DbTypeOK, JobRow
  <2>3. todo' \in [Worker -> SUBSET Image]
    BY <1>0, <1>3, <2>1 DEF MarkRunning, ApiTypeOK
  <2>4. WorkerTypeOK'
    <3>1. /\ pc[w] = "update"
          /\ pc' = [pc EXCEPT ![w] = "fanout"]
          /\ UNCHANGED <<msg, ver, seen>>
      BY <1>3 DEF MarkRunning, Goto
    <3> QED
      BY <2>3, <3>1 DEF WorkerTypeOK
  <2> QED
    BY <1>3, <2>2, <2>4 DEF MarkRunning
<1>4. CASE Publish(w)
  <2>1. msg[w].job \in Job
    BY <1>4, MessageFacts DEF Publish, WorkerTypeOK
  <2>2. PICK i \in todo[w] :
          /\ Put(ProcessMsg(msg[w].job, i, 0))
          /\ sent' = sent \cup {<<msg[w].job, i>>}
          /\ todo' = [todo EXCEPT ![w] = @ \ {i}]
    BY <1>4 DEF Publish
  <2>3. i \in Image
    BY <1>0
  <2>4. ProcessMsg(msg[w].job, i, 0) \in Message
    BY <2>1, <2>3, MessageFacts, BoundsAssumption
  <2>5. BrokerTypeOK'
    BY <1>4, <2>1, <2>2, <2>3, <2>4 DEF Publish, Put, BrokerTypeOK
  <2>6. WorkerTypeOK'
    BY <1>4, <2>2 DEF Publish, WorkerTypeOK
  <2> QED
    BY <1>4, <2>5, <2>6 DEF Publish
<1>5. CASE FanoutDone(w)
  BY <1>0, <1>5, GotoType DEF FanoutDone
<1>6. CASE Load(w)
  <2>1. DbTypeOK'
    BY <1>6 DEF Load, DbTypeOK, ImageStatus
  <2> QED
    BY <1>0, <1>6, <2>1, GotoType DEF Load
<1>7. CASE LoadMissing(w)
  BY <1>0, <1>7, GotoType DEF LoadMissing
<1>8. CASE ReadVersion(w)
  <2>1. msg[w] \in ProcessMessage
    BY <1>8 DEF ReadVersion, Goto, WorkerTypeOK
  <2>2. Cardinality(RowsOf(annotations, msg[w].image)) \in Nat
    BY RowCounts DEF DbTypeOK
  <2>3. NextVersion(annotations, msg[w].image) \in Nat
    BY <2>1, <2>2, MessageFacts, NextOfCompleteLineage DEF VersionLineage
  <2>4. ver' \in [Worker -> Nat]
    BY <1>0, <1>8, <2>3 DEF ReadVersion
  <2> QED
    BY <1>0, <1>8, <2>4, GotoType DEF ReadVersion
<1>9. CASE UpdateImage(w)
  <2>1. msg[w].job \in Job
    BY <1>9, MessageFacts DEF UpdateImage, Goto, WorkerTypeOK
  <2>2. seen' \in [Worker -> JobRow]
    BY <1>0, <1>9, <2>1 DEF UpdateImage, DbTypeOK
  <2> QED
    BY <1>0, <1>9, <2>2, GotoType DEF UpdateImage
<1>10. CASE Commit(w)
  <2>1. msg[w] \in ProcessMessage
    BY <1>10 DEF Commit, Goto, WorkerTypeOK
  <2>2. DbTypeOK'
    BY <1>10, CommitEffectType DEF Commit, Goto
  <2>3. WorkerTypeOK'
    BY <1>10, <2>1, CloseSessionType DEF Commit, Goto
  <2> QED
    BY <1>10, <2>2, <2>3 DEF Commit
<1>11. CASE CommitRejected(w)
  <2>1. msg[w] \in ProcessMessage
    BY <1>11 DEF CommitRejected, Goto, WorkerTypeOK
  <2>2. WorkerTypeOK'
    BY <1>11, <2>1, CloseSessionType DEF CommitRejected, Goto
  <2> QED
    BY <1>11, <2>2 DEF CommitRejected
<1>12. CASE Retry(w)
  <2>1. msg[w] \in ProcessMessage
    BY <1>12 DEF Retry, Goto, WorkerTypeOK
  <2>2. msg[w].retries + 1 <= MaxRetries
    BY <1>12 DEF Retry, RetryRaises
  <2>3. ProcessMsg(msg[w].job, msg[w].image, msg[w].retries + 1) \in Message
    BY <2>1, <2>2, MessageFacts, BoundsAssumption
  <2>4. BrokerTypeOK'
    BY <1>12, <2>3 DEF Retry, Put, BrokerTypeOK
  <2>5. WorkerTypeOK'
    BY <1>0, <1>12, GotoType DEF Retry
  <2> QED
    BY <1>12, <2>4, <2>5 DEF Retry
<1>13. CASE GiveUp(w)
  <2>1. msg[w] \in ProcessMessage
    BY <1>13 DEF GiveUp, Goto, WorkerTypeOK
  <2>2. DbTypeOK'
    BY <1>13, GiveUpCountsNothing DEF DbTypeOK
  <2>3. BrokerTypeOK'
    BY <1>13, <2>1, MessageFacts DEF GiveUp, BrokerTypeOK
  <2>4. WorkerTypeOK'
    BY <1>0, <1>13, GotoType DEF GiveUp
  <2> QED
    BY <1>13, <2>2, <2>3, <2>4 DEF GiveUp
<1> QED
  BY <1>1, <1>2, <1>3, <1>4, <1>5, <1>6, <1>7, <1>8, <1>9, <1>10, <1>11,
     <1>12, <1>13 DEF WorkerStep

(* Faults.                                                                 *)
LEMMA FaultType ==
    ASSUME TypeOK, VersionFresh, NEW w \in Worker, Fault(w)
    PROVE  TypeOK'
<1> USE UnchangedParts, BoundsAssumption DEF TypeOK
<1>1. CASE Crash(w)
  <2>1. BrokerTypeOK'
    BY <1>1 DEF Crash, Put, BrokerTypeOK, WorkerTypeOK
  <2>2. FaultTypeOK'
    BY <1>1 DEF Crash, FaultTypeOK
  <2> QED
    BY <1>1, <2>1, <2>2, ReleaseType DEF Crash
<1>2. CASE VisibilityTimeout(w)
  <2>1. BrokerTypeOK'
    BY <1>2 DEF VisibilityTimeout, Put, BrokerTypeOK, WorkerTypeOK
  <2>2. FaultTypeOK'
    BY <1>2 DEF VisibilityTimeout, FaultTypeOK
  <2> QED
    BY <1>2, <2>1, <2>2 DEF VisibilityTimeout
<1>3. CASE EnqueueFails(w)
  <2>1. FaultTypeOK'
    BY <1>3 DEF EnqueueFails, FaultTypeOK
  <2>2. WorkerTypeOK'
    BY <1>3 DEF EnqueueFails, WorkerTypeOK
  <2> QED
    BY <1>3, <2>1, <2>2 DEF EnqueueFails
<1>4. CASE TaskRaises(w)
  <2>1. FaultTypeOK'
    BY <1>4 DEF TaskRaises, FaultTypeOK
  <2>2. msg[w] \in ProcessMessage
    BY <1>4 DEF TaskRaises, WorkerTypeOK
  <2>3. WorkerTypeOK'
    BY <1>4, <2>2, CloseSessionType DEF TaskRaises
  <2> QED
    BY <1>4, <2>1, <2>3 DEF TaskRaises
<1>5. CASE CommitUnacknowledged(w)
  <2>1. FaultTypeOK'
    BY <1>5 DEF CommitUnacknowledged, FaultTypeOK
  <2>2. msg[w] \in ProcessMessage
    BY <1>5 DEF CommitUnacknowledged, Goto, WorkerTypeOK
  <2>3. DbTypeOK'
    BY <1>5, CommitEffectType DEF CommitUnacknowledged, Goto
  <2>4. WorkerTypeOK'
    BY <1>5, <2>2, CloseSessionType DEF CommitUnacknowledged, Goto
  <2> QED
    BY <1>5, <2>1, <2>3, <2>4 DEF CommitUnacknowledged
<1>6. CASE RetryRejected(w)
  <2>1. msg[w] \in ProcessMessage
    BY <1>6 DEF RetryRejected, Goto, WorkerTypeOK
  <2>2. BrokerTypeOK'
    BY <1>6, <2>1, MessageFacts DEF RetryRejected, BrokerTypeOK
  <2>3. WorkerTypeOK'
    BY <1>6, GotoType DEF RetryRejected, WorkerTypeOK
  <2>4. FaultTypeOK'
    BY <1>6 DEF RetryRejected, FaultTypeOK
  <2> QED
    BY <1>6, <2>2, <2>3, <2>4 DEF RetryRejected
<1> QED
  BY <1>1, <1>2, <1>3, <1>4, <1>5, <1>6 DEF Fault

(* Every step preserves TypeOK. The inserting steps need the lineage:      *)
(* without it the version a worker computed need not be a number.          *)
LEMMA NextType ==
    ASSUME TypeOK, VersionLineage, VersionFresh, [Next]_vars
    PROVE  TypeOK'
<1>1. CASE Next
  BY <1>1, ClientType, DeleteType, WorkerStepType, FaultType DEF Next
<1>2. CASE UNCHANGED vars
  BY <1>2, UnchangedParts DEF TypeOK, vars
<1> QED
  BY <1>1, <1>2

-----------------------------------------------------------------------------
(* What one step can do.                                                   *)

(* All that a step of one worker changes of the workers' state is its own. *)
LEMMA OtherWorkers ==
    ASSUME TypeOK, NEW w \in Worker, WorkerStep(w) \/ Fault(w),
           NEW v \in Worker, v # w
    PROVE  /\ pc'[v] = pc[v] /\ msg'[v] = msg[v]
           /\ ver'[v] = ver[v] /\ seen'[v] = seen[v]
<1> USE DEF TypeOK, WorkerTypeOK, Goto, Release, CloseSession, workerVars
<1>1. CASE WorkerStep(w)
  BY <1>1 DEF WorkerStep, Receive, Ack, MarkRunning, Publish, FanoutDone, Load,
     LoadMissing, ReadVersion, UpdateImage, Commit, CommitRejected, Retry, GiveUp
<1>2. CASE Fault(w)
  BY <1>2 DEF Fault, Crash, VisibilityTimeout, EnqueueFails, TaskRaises,
     CommitUnacknowledged, RetryRejected
<1> QED
  BY <1>1, <1>2

(* A worker about to bump or to commit has just arrived there, or holds    *)
(* the message and the version it held before.                             *)
LEMMA HowToCommit ==
    ASSUME TypeOK, [Next]_vars, NEW v \in Worker, pc'[v] \in {"bump", "commit"}
    PROVE  \/ ReadVersion(v)
           \/ UpdateImage(v)
           \/ /\ pc[v] = pc'[v]
              /\ msg'[v] = msg[v] /\ ver'[v] = ver[v] /\ seen'[v] = seen[v]
<1> USE DEF TypeOK, WorkerTypeOK, Goto, Release, CloseSession, workerVars
<1>1. CASE UNCHANGED vars
  BY <1>1 DEF vars
<1>2. CASE DeleteDataset
  BY <1>2 DEF DeleteDataset
<1>3. ASSUME NEW j \in Job, Client(j)
      PROVE  UNCHANGED workerVars
  BY <1>3 DEF Client, SelectPending, CommitJob, CommitJobFails, Dispatch,
     DispatchFails, LoadForCancel, CommitCancel
<1>4. ASSUME NEW w \in Worker, WorkerStep(w) \/ Fault(w), v # w
      PROVE  /\ pc[v] = pc'[v]
             /\ msg'[v] = msg[v] /\ ver'[v] = ver[v] /\ seen'[v] = seen[v]
  BY <1>4, OtherWorkers
<1>5. CASE WorkerStep(v)
  BY <1>5 DEF WorkerStep, Receive, Ack, MarkRunning, Publish, FanoutDone, Load,
     LoadMissing, Commit, CommitRejected, Retry, GiveUp
<1>6. CASE Fault(v)
  BY <1>6 DEF Fault, Crash, VisibilityTimeout, EnqueueFails, TaskRaises,
     CommitUnacknowledged, RetryRejected
<1> QED
  BY <1>1, <1>2, <1>3, <1>4, <1>5, <1>6 DEF Next

(* The two steps that commit an annotation.                                *)
Inserts(w) == Commit(w) \/ CommitUnacknowledged(w)

(* Annotations are written by a commit or removed with their dataset.      *)
LEMMA WhoWritesAnnotations ==
    ASSUME [Next]_vars
    PROVE  \/ UNCHANGED annotations
           \/ DeleteDataset
           \/ \E w \in Worker : Inserts(w)
<1> USE DEF dbVars
<1>1. CASE UNCHANGED vars
  BY <1>1 DEF vars
<1>2. ASSUME NEW j \in Job, Client(j)
      PROVE  UNCHANGED annotations
  BY <1>2 DEF Client, SelectPending, CommitJob, CommitJobFails, Dispatch,
     DispatchFails, LoadForCancel, CommitCancel
<1>3. ASSUME NEW w \in Worker, WorkerStep(w)
      PROVE  UNCHANGED annotations \/ Inserts(w)
  BY <1>3 DEF WorkerStep, Receive, Ack, MarkRunning, Publish, FanoutDone, Load,
     LoadMissing, ReadVersion, UpdateImage, CommitRejected, Retry, GiveUp, Inserts
<1>4. ASSUME NEW w \in Worker, Fault(w)
      PROVE  UNCHANGED annotations \/ Inserts(w)
  BY <1>4 DEF Fault, Crash, VisibilityTimeout, EnqueueFails, TaskRaises,
     RetryRejected, Inserts
<1> QED
  BY <1>1, <1>2, <1>3, <1>4 DEF Next

(* What a commit does to the table: the row it adds is for an image that   *)
(* exists and under a free key.                                            *)
LEMMA InsertFacts ==
    ASSUME TypeOK, NEW w \in Worker, Inserts(w)
    PROVE  /\ pc[w] = "commit"
           /\ msg[w].image \in Image
           /\ msg[w].job \in Job
           /\ InsertAllowed(w)
           /\ CommitEffect(w)
           /\ IsFiniteSet(annotations)
           /\ annotations' = Insert(annotations, msg[w].image, ver[w], msg[w].job)
<1>1. pc[w] = "commit" /\ InsertAllowed(w) /\ CommitEffect(w)
  BY DEF Inserts, Commit, CommitUnacknowledged, Goto
<1>2. msg[w] \in ProcessMessage
  BY <1>1 DEF TypeOK, WorkerTypeOK
<1> QED
  BY <1>1, <1>2, MessageFacts DEF CommitEffect, TypeOK, DbTypeOK

(* Deletion is for good, and leaves no row.                                *)
LEMMA AbsentStays ==
    ASSUME TypeOK, [Next]_vars, NEW i \in Image, images[i] = "absent"
    PROVE  images'[i] = "absent"
<1> USE DEF TypeOK, DbTypeOK, dbVars
<1>1. CASE UNCHANGED vars
  BY <1>1 DEF vars
<1>2. CASE DeleteDataset
  BY <1>2 DEF DeleteDataset
<1>3. ASSUME NEW j \in Job, Client(j)
      PROVE  UNCHANGED images
  BY <1>3 DEF Client, SelectPending, CommitJob, CommitJobFails, Dispatch,
     DispatchFails, LoadForCancel, CommitCancel
<1>4. ASSUME NEW w \in Worker, Load(w)
      PROVE  images'[i] = "absent"
  BY <1>4 DEF Load
<1>5. ASSUME NEW w \in Worker, Inserts(w)
      PROVE  images'[i] = "absent"
  BY <1>5, InsertFacts DEF CommitEffect, InsertAllowed
<1>6. ASSUME NEW w \in Worker, WorkerStep(w), ~Load(w), ~Inserts(w)
      PROVE  UNCHANGED images
  BY <1>6, GiveUpCountsNothing DEF WorkerStep, Receive, Ack, MarkRunning, Publish,
     FanoutDone, LoadMissing, ReadVersion, UpdateImage, CommitRejected, Retry, Inserts
<1>7. ASSUME NEW w \in Worker, Fault(w), ~Inserts(w)
      PROVE  UNCHANGED images
  BY <1>7 DEF Fault, Crash, VisibilityTimeout, EnqueueFails, TaskRaises,
     RetryRejected, Inserts
<1> QED
  BY <1>1, <1>2, <1>3, <1>4, <1>5, <1>6, <1>7 DEF Next

(* The rows of an image, and of a job, are never fewer, save for the       *)
(* deletion of the dataset.                                                *)
LEMMA RowsOnlyGrow ==
    ASSUME TypeOK, [Next]_vars, ~DeleteDataset
    PROVE  /\ \A i : Cardinality(RowsOf(annotations, i)) \in Nat
           /\ \A i : Cardinality(RowsOf(annotations', i)) \in Nat
           /\ \A j : Cardinality(JobRows(annotations, j)) \in Nat
           /\ \A j : Cardinality(JobRows(annotations', j)) \in Nat
           /\ \A i : Cardinality(RowsOf(annotations', i))
                       >= Cardinality(RowsOf(annotations, i))
           /\ \A j : Cardinality(JobRows(annotations', j))
                       >= Cardinality(JobRows(annotations, j))
<1>1. /\ \A i : Cardinality(RowsOf(annotations, i)) \in Nat
      /\ \A j : Cardinality(JobRows(annotations, j)) \in Nat
  BY RowCounts DEF TypeOK, DbTypeOK
<1>2. CASE UNCHANGED annotations
  BY <1>1, <1>2
<1>3. CASE \E w \in Worker : Inserts(w)
  <2>1. PICK w \in Worker : Inserts(w)
    BY <1>3
  <2> DEFINE i == msg[w].image
             j == msg[w].job
  <2>2. /\ Cardinality(RowsOf(annotations', i)) = Cardinality(RowsOf(annotations, i)) + 1
        /\ \A k : k # i => RowsOf(annotations', k) = RowsOf(annotations, k)
        /\ Cardinality(JobRows(annotations', j)) = Cardinality(JobRows(annotations, j)) + 1
        /\ \A k : k # j => JobRows(annotations', k) = JobRows(annotations, k)
    BY <2>1, InsertFacts, RowsAfterInsert DEF InsertAllowed
  <2> HIDE DEF i, j
  <2>3. \A k : /\ Cardinality(RowsOf(annotations', k)) \in Nat
               /\ Cardinality(RowsOf(annotations', k)) >= Cardinality(RowsOf(annotations, k))
    BY <1>1, <2>2
  <2>4. \A k : /\ Cardinality(JobRows(annotations', k)) \in Nat
               /\ Cardinality(JobRows(annotations', k)) >= Cardinality(JobRows(annotations, k))
    BY <1>1, <2>2
  <2> QED
    BY <1>1, <2>3, <2>4
<1> QED
  BY <1>2, <1>3, WhoWritesAnnotations

-----------------------------------------------------------------------------
(* Lineage.                                                                *)

(* Every step keeps the lineage of every image complete: an insert that    *)
(* meets the unique key is refused, so a stale version inserts nothing.    *)
LEMMA LineageStep ==
    ASSUME TypeOK, VersionLineage, VersionFresh, [Next]_vars
    PROVE  VersionLineage'
<1>1. CASE UNCHANGED annotations
  BY <1>1 DEF VersionLineage
<1>2. CASE DeleteDataset
  BY <1>2, EmptyTable DEF DeleteDataset, VersionLineage
<1>3. CASE \E w \in Worker : Inserts(w)
  <2>1. PICK w \in Worker : Inserts(w)
    BY <1>3
  <2>2. ver[w] \in 1 .. Cardinality(RowsOf(annotations, msg[w].image)) + 1
    BY <2>1, InsertFacts DEF VersionFresh, InsertAllowed
  <2> QED
    BY <2>1, <2>2, InsertFacts, InsertKeepsLineage DEF VersionLineage, InsertAllowed
<1> QED
  BY <1>1, <1>2, <1>3, WhoWritesAnnotations

(* Every step keeps each computed version at most one above the committed  *)
(* ones: rows are only added while the image exists.                       *)
LEMMA FreshStep ==
    ASSUME TypeOK, VersionLineage, VersionFresh, [Next]_vars
    PROVE  VersionFresh'
<1> SUFFICES ASSUME NEW v \in Worker,
                    pc'[v] \in {"bump", "commit"},
                    images'[msg'[v].image] # "absent"
             PROVE  ver'[v] \in 1 .. Cardinality(RowsOf(annotations', msg'[v].image)) + 1
  BY DEF VersionFresh
<1> DEFINE i == msg[v].image
           n == Cardinality(RowsOf(annotations, i))
<1>1. CASE DeleteDataset
  <2>1. pc'[v] = pc[v] /\ msg'[v] = msg[v]
    BY <1>1 DEF DeleteDataset, workerVars
  <2>2. i \in Image
    BY <2>1, MessageFacts DEF TypeOK, WorkerTypeOK
  <2>3. images'[i] = "absent"
    BY <1>1, <2>2 DEF DeleteDataset
  <2> QED
    BY <2>1, <2>3
<1>2. CASE ReadVersion(v)
  <2>1. msg[v] \in ProcessMessage /\ msg'[v] = msg[v]
    BY <1>2 DEF ReadVersion, Goto, TypeOK, WorkerTypeOK
  <2>2. n \in Nat
    BY RowCounts DEF TypeOK, DbTypeOK
  <2>3. NextVersion(annotations, i) = n + 1
    BY <2>1, <2>2, MessageFacts, NextOfCompleteLineage DEF VersionLineage
  <2>4. ver'[v] = n + 1 /\ annotations' = annotations
    BY <1>2, <2>3 DEF ReadVersion, dbVars, TypeOK, WorkerTypeOK
  <2> QED
    BY <2>1, <2>2, <2>4
<1>3. CASE ~DeleteDataset /\ ~ReadVersion(v)
  <2>1. pc[v] \in {"bump", "commit"} /\ msg'[v] = msg[v] /\ ver'[v] = ver[v]
    BY <1>3, HowToCommit DEF UpdateImage, Goto
  <2>2. i \in Image
    BY <2>1, MessageFacts DEF TypeOK, WorkerTypeOK
  <2>3. images[i] # "absent"
    BY <2>1, <2>2, AbsentStays
  <2>4. ver[v] \in 1 .. n + 1
    BY <2>1, <2>3 DEF VersionFresh
  <2>5. /\ n \in Nat
        /\ Cardinality(RowsOf(annotations', i)) \in Nat
        /\ Cardinality(RowsOf(annotations', i)) >= n
    BY <1>3, RowsOnlyGrow
  <2> QED
    BY <2>1, <2>4, <2>5
<1> QED
  BY <1>1, <1>2, <1>3

(* Type correctness and lineage together are inductive: the version that a *)
(* worker computes is a number because the lineage is complete.            *)
LineageInv == TypeOK /\ VersionLineage /\ VersionFresh

(* The lineage, its typing and the freshness of computed versions are      *)
(* inductive together.                                                     *)
LEMMA LineageInvariant == Spec => []LineageInv
<1>1. Init => LineageInv
  BY InitType, EmptyTable DEF LineageInv, Init, VersionLineage, VersionFresh
<1>2. LineageInv /\ [Next]_vars => LineageInv'
  BY NextType, LineageStep, FreshStep DEF LineageInv
<1> QED
  BY <1>1, <1>2, PTL DEF Spec

(* Tables, requests, messages and workers keep their shape for any number  *)
(* of jobs, images and workers and under any number of faults.             *)
THEOREM TypeCorrect == Spec => []TypeOK
  BY LineageInvariant, PTL DEF LineageInv

(* However many tasks race for the next version of an image, over however  *)
(* many redeliveries, its versions stay 1, 2, ... without gap or           *)
(* repetition (tasks.py:93-113 and the unique key of annotation.py:23).    *)
THEOREM LineagePreserved == Spec => []VersionLineage
  BY LineageInvariant, PTL DEF LineageInv

-----------------------------------------------------------------------------
(* Only dispatched jobs have messages.                                     *)

(* Every step keeps messages to dispatched jobs: workers publish only for  *)
(* the job of the message they hold.                                       *)
LEMMA DispatchedStep ==
    ASSUME TypeOK, TypeOK', OnlyDispatched, [Next]_vars
    PROVE  OnlyDispatched'
<1> USE DEF TypeOK, BrokerTypeOK, WorkerTypeOK, ApiTypeOK
<1>1. CASE UNCHANGED vars
  BY <1>1 DEF OnlyDispatched, vars, apiVars, brokerVars, workerVars
<1>2. CASE DeleteDataset
  BY <1>2 DEF OnlyDispatched, DeleteDataset, apiVars, brokerVars, workerVars
<1>3. ASSUME NEW j \in Job, Client(j)
      PROVE  OnlyDispatched'
  <2>1. CASE Dispatch(j)
    BY <2>1, MessageFacts DEF OnlyDispatched, Dispatch, Put, workerVars
  <2>2. CASE ~Dispatch(j)
    <3>1. /\ UNCHANGED <<queue, pc, msg>>
          /\ \A k \in Job : req[k] = "dispatched" => req'[k] = "dispatched"
      BY <1>3, <2>2 DEF Client, SelectPending, CommitJob, CommitJobFails,
         DispatchFails, LoadForCancel, CommitCancel, brokerVars, workerVars
    <3> QED
      BY <3>1, MessageFacts DEF OnlyDispatched
  <2> QED
    BY <2>1, <2>2
<1>4. ASSUME NEW w \in Worker, WorkerStep(w) \/ Fault(w)
      PROVE  OnlyDispatched'
  <2>1. UNCHANGED req
    BY <1>4 DEF WorkerStep, Receive, Ack, MarkRunning, Publish, FanoutDone, Load,
       LoadMissing, ReadVersion, UpdateImage, Commit, CommitRejected, Retry, GiveUp,
       Fault, Crash, VisibilityTimeout, EnqueueFails, TaskRaises,
       CommitUnacknowledged, RetryRejected, apiVars
  <2>2. \A m \in Message : queue'[m] > 0 =>
            \/ queue[m] > 0
            \/ pc[w] # "idle" /\ m.job = msg[w].job
    <3>1. CASE Receive(w)
      BY <3>1 DEF Receive
    <3>2. CASE Publish(w)
      <4>1. PICK i \in todo[w] : Put(ProcessMsg(msg[w].job, i, 0))
        BY <3>2 DEF Publish
      <4>2. ProcessMsg(msg[w].job, i, 0).job = msg[w].job
        BY DEF ProcessMsg
      <4> QED
        BY <3>2, <4>1, <4>2 DEF Publish, Put
    <3>3. CASE Retry(w)
      <4>1. ProcessMsg(msg[w].job, msg[w].image, msg[w].retries + 1).job = msg[w].job
        BY DEF ProcessMsg
      <4> QED
        BY <3>3, <4>1 DEF Retry, Goto, Put
    <3>4. CASE Crash(w) \/ VisibilityTimeout(w)
      BY <3>4 DEF Crash, VisibilityTimeout, Put
    <3>5. CASE ~Receive(w) /\ ~Publish(w) /\ ~Retry(w) /\ ~Crash(w) /\ ~VisibilityTimeout(w)
      <4>1. UNCHANGED queue
        BY <1>4, <3>5 DEF WorkerStep, Ack, MarkRunning, FanoutDone, Load, LoadMissing,
           ReadVersion, UpdateImage, Commit, CommitRejected, GiveUp, Fault,
           EnqueueFails, TaskRaises, CommitUnacknowledged, RetryRejected, brokerVars
      <4> QED
        BY <4>1
    <3> QED
      BY <3>1, <3>2, <3>3, <3>4, <3>5
  <2>3. pc'[w] # "idle" =>
            \/ pc[w] # "idle" /\ msg'[w] = msg[w]
            \/ \E m \in Message : queue[m] > 0 /\ msg'[w] = m
    BY <1>4 DEF WorkerStep, Receive, Ack, MarkRunning, Publish, FanoutDone, Load,
       LoadMissing, ReadVersion, UpdateImage, Commit, CommitRejected, Retry, GiveUp,
       Fault, Crash, VisibilityTimeout, EnqueueFails, TaskRaises,
       CommitUnacknowledged, RetryRejected, workerVars, Goto, CloseSession, Release
  <2>4. \A v \in Worker : v # w => pc'[v] = pc[v] /\ msg'[v] = msg[v]
    BY <1>4, OtherWorkers
  <2> QED
    BY <2>1, <2>2, <2>3, <2>4 DEF OnlyDispatched
<1> QED
  BY <1>1, <1>2, <1>3, <1>4 DEF Next

-----------------------------------------------------------------------------
(* Counters.                                                               *)

(* A job row is left alone, deleted, created, given another status than    *)
(* COMPLETED, or bumped by the commit of a task of the job.                *)
LEMMA WhoWritesJobs ==
    ASSUME TypeOK, [Next]_vars, NEW j \in Job
    PROVE  \/ jobs'[j] = jobs[j]
           \/ DeleteDataset
           \/ CommitJob(j)
           \/ /\ jobs[j].status # "absent"
              /\ jobs'[j].status \in {"running", "cancelled"}
              /\ jobs'[j].processed = jobs[j].processed
              /\ jobs'[j].failed = jobs[j].failed
              /\ jobs'[j].total = jobs[j].total
           \/ \E w \in Worker : Inserts(w) /\ msg[w].job = j
<1> USE DEF TypeOK, DbTypeOK
<1>0. jobs[j] \in JobRow
  OBVIOUS
<1>1. CASE UNCHANGED vars
  BY <1>1 DEF vars, dbVars
<1>2. ASSUME NEW k \in Job, CommitJob(k)
      PROVE  jobs'[j] = jobs[j] \/ CommitJob(j)
  BY <1>2 DEF CommitJob
<1>3. ASSUME NEW k \in Job, CommitCancel(k), jobs'[j] # jobs[j]
      PROVE  /\ jobs[j].status # "absent"
             /\ jobs'[j].status = "cancelled"
             /\ jobs'[j].processed = jobs[j].processed
             /\ jobs'[j].failed = jobs[j].failed
             /\ jobs'[j].total = jobs[j].total
  BY <1>0, <1>3 DEF CommitCancel, JobRow
<1>4. ASSUME NEW k \in Job, Client(k), ~CommitJob(k), ~CommitCancel(k)
      PROVE  UNCHANGED jobs
  BY <1>4 DEF Client, SelectPending, CommitJobFails, Dispatch, DispatchFails,
     LoadForCancel, dbVars
<1>5. ASSUME NEW w \in Worker, MarkRunning(w), jobs'[j] # jobs[j]
      PROVE  /\ jobs[j].status # "absent"
             /\ jobs'[j].status = "running"
             /\ jobs'[j].processed = jobs[j].processed
             /\ jobs'[j].failed = jobs[j].failed
             /\ jobs'[j].total = jobs[j].total
  BY <1>0, <1>5 DEF MarkRunning, JobRow
<1>6. ASSUME NEW w \in Worker, Inserts(w), msg[w].job # j
      PROVE  jobs'[j] = jobs[j]
  BY <1>6, InsertFacts DEF CommitEffect
<1>7. ASSUME NEW w \in Worker, WorkerStep(w), ~MarkRunning(w), ~Inserts(w)
      PROVE  UNCHANGED jobs
  BY <1>7, GiveUpCountsNothing DEF WorkerStep, Receive, Ack, Publish, FanoutDone, Load,
     LoadMissing, ReadVersion, UpdateImage, CommitRejected, Retry, Inserts, dbVars
<1>8. ASSUME NEW w \in Worker, Fault(w), ~Inserts(w)
      PROVE  UNCHANGED jobs
  BY <1>8 DEF Fault, Crash, VisibilityTimeout, EnqueueFails, TaskRaises,
     RetryRejected, Inserts, dbVars
<1>9. CASE \E k \in Job : Client(k)
  BY <1>2, <1>3, <1>4, <1>9
<1>10. CASE \E w \in Worker : WorkerStep(w) \/ Fault(w)
  BY <1>5, <1>6, <1>7, <1>8, <1>10
<1> QED
  BY <1>1, <1>9, <1>10 DEF Next

CounterInv ==
    /\ OnlyDispatched /\ FailedIsZero /\ SeenIsBehind
    /\ CounterNeverAhead /\ CompletedIsBacked

(* What the commit of a task of job j makes of its row.                    *)
LEMMA BumpFacts ==
    ASSUME TypeOK, SeenIsBehind, NEW w \in Worker, Inserts(w),
           NEW j, j = msg[w].job
    PROVE  /\ jobs[j].status # "absent"
           /\ jobs[j] \in JobRow /\ seen[w] \in JobRow
           /\ jobs'[j] = BumpJob(jobs[j], seen[w], 1, 0)
           /\ seen[w].processed <= Cardinality(JobRows(annotations, j))
           /\ seen[w].failed = 0
           /\ seen[w].total = jobs[j].total
           /\ Cardinality(JobRows(annotations, j)) \in Nat
           /\ Cardinality(JobRows(annotations', j))
                = Cardinality(JobRows(annotations, j)) + 1
  BY InsertFacts, RowsAfterInsert, RowCounts
     DEF CommitEffect, InsertAllowed, SeenIsBehind, TypeOK, DbTypeOK, WorkerTypeOK

(* One job: its counter stays behind its rows and COMPLETED stays backed   *)
(* by rows, whatever stale row _bump_job had read.                         *)
LEMMA CounterStep ==
    ASSUME TypeOK, CounterInv, [Next]_vars, NEW j \in Job
    PROVE  /\ jobs'[j].failed = 0
           /\ jobs'[j].processed <= Cardinality(JobRows(annotations', j))
           /\ jobs'[j].status = "completed" =>
                 Cardinality(JobRows(annotations', j)) + jobs'[j].failed >= jobs'[j].total
<1> DEFINE n == Cardinality(JobRows(annotations, j))
           m == Cardinality(JobRows(annotations', j))
<1>0. jobs[j] \in JobRow
  BY DEF TypeOK, DbTypeOK
<1>1. /\ jobs[j].failed = 0
      /\ jobs[j].processed <= n
      /\ jobs[j].status = "completed" => n + jobs[j].failed >= jobs[j].total
  BY DEF CounterInv, FailedIsZero, CounterNeverAhead, CompletedIsBacked
<1>2. CASE DeleteDataset
  BY <1>2, EmptyTable DEF DeleteDataset, NoJobRow
<1>3. CASE ~DeleteDataset
  <2>1. n \in Nat /\ m \in Nat /\ m >= n
    BY <1>3, RowsOnlyGrow
  <2>2. CASE jobs'[j] = jobs[j]
    BY <1>0, <1>1, <2>1, <2>2 DEF JobRow
  <2>3. CASE CommitJob(j)
    BY <2>1, <2>3 DEF CommitJob, NewJobRow, TypeOK, DbTypeOK
  <2>4. CASE /\ jobs'[j].status \in {"running", "cancelled"}
             /\ jobs'[j].processed = jobs[j].processed
             /\ jobs'[j].failed = jobs[j].failed
    BY <1>0, <1>1, <2>1, <2>4 DEF JobRow
  <2>5. CASE \E w \in Worker : Inserts(w) /\ msg[w].job = j
    <3>1. PICK w \in Worker : Inserts(w) /\ msg[w].job = j
      BY <2>5
    <3>2. /\ seen[w] \in JobRow
          /\ jobs'[j] = BumpJob(jobs[j], seen[w], 1, 0)
          /\ seen[w].processed <= n
          /\ seen[w].failed = 0
          /\ seen[w].total = jobs[j].total
          /\ m = n + 1
      BY <3>1, BumpFacts DEF CounterInv
    <3> QED
      BY <1>0, <1>1, <2>1, <3>2 DEF BumpJob, JobRow
  <2> QED
    BY <1>3, <2>2, <2>3, <2>4, <2>5, WhoWritesJobs
<1> QED
  BY <1>2, <1>3

(* What a worker read of its job stays behind the committed rows until it  *)
(* commits, since rows are only added.                                     *)
LEMMA SeenStep ==
    ASSUME TypeOK, CounterInv, [Next]_vars
    PROVE  SeenIsBehind'
<1> SUFFICES ASSUME NEW v \in Worker,
                    pc'[v] = "commit",
                    jobs'[msg'[v].job].status # "absent"
             PROVE  /\ seen'[v].processed <= Cardinality(JobRows(annotations', msg'[v].job))
                    /\ seen'[v].failed = 0
                    /\ seen'[v].total = jobs'[msg'[v].job].total
  BY DEF SeenIsBehind
<1> DEFINE j == msg[v].job
           n == Cardinality(JobRows(annotations, j))
           m == Cardinality(JobRows(annotations', j))
<1>1. \/ UpdateImage(v)
      \/ /\ pc[v] = "commit"
         /\ msg'[v] = msg[v] /\ ver'[v] = ver[v] /\ seen'[v] = seen[v]
  BY HowToCommit DEF ReadVersion, Goto, TypeOK, WorkerTypeOK
<1>2. pc[v] \in {"bump", "commit"} /\ msg'[v] = msg[v]
  BY <1>1 DEF UpdateImage, Goto
<1>3. j \in Job /\ req[j] = "dispatched"
  BY <1>2, MessageFacts DEF CounterInv, OnlyDispatched, TypeOK, WorkerTypeOK
<1>4. ~DeleteDataset
  BY <1>2, <1>3 DEF DeleteDataset, NoJobRow
<1>5. n \in Nat /\ m \in Nat /\ m >= n
  BY <1>4, RowsOnlyGrow
<1>6. ~CommitJob(j)
  BY <1>3 DEF CommitJob
<1>7. jobs[j] \in JobRow /\ seen[v] \in JobRow
  BY <1>3 DEF TypeOK, DbTypeOK, WorkerTypeOK
<1>8. jobs'[j].total = jobs[j].total /\ jobs[j].status # "absent"
  <2>1. CASE jobs'[j] = jobs[j]
    BY <1>2, <2>1
  <2>2. CASE \E w \in Worker : Inserts(w) /\ msg[w].job = j
    <3>1. PICK w \in Worker : Inserts(w) /\ msg[w].job = j
      BY <2>2
    <3>2. jobs'[j] = BumpJob(jobs[j], seen[w], 1, 0) /\ jobs[j].status # "absent"
      BY <3>1, BumpFacts DEF CounterInv
    <3> QED
      BY <3>2 DEF BumpJob
  <2> QED
    BY <1>3, <1>4, <1>6, <2>1, <2>2, WhoWritesJobs
<1>9. CASE UpdateImage(v)
  <2>1. seen'[v] = jobs[j] /\ annotations' = annotations
    BY <1>9 DEF UpdateImage, dbVars, TypeOK, WorkerTypeOK
  <2>2. jobs[j].failed = 0 /\ jobs[j].processed <= n
    BY <1>3 DEF CounterInv, FailedIsZero, CounterNeverAhead
  <2> QED
    BY <1>2, <1>8, <2>1, <2>2
<1>10. CASE pc[v] = "commit" /\ seen'[v] = seen[v]
  <2>1. /\ seen[v].processed <= n
        /\ seen[v].failed = 0
        /\ seen[v].total = jobs[j].total
    BY <1>8, <1>10 DEF CounterInv, SeenIsBehind
  <2>2. seen[v].processed <= m
    BY <1>5, <1>7, <2>1 DEF JobRow
  <2> QED
    BY <1>2, <1>8, <1>10, <2>1, <2>2
<1> QED
  BY <1>1, <1>9, <1>10

(* The invariant behind the counters holds in every reachable state.       *)
LEMMA CounterInvariant == Spec => []CounterInv
<1>1. Init => CounterInv
  BY EmptyTable DEF Init, CounterInv, OnlyDispatched, FailedIsZero, SeenIsBehind,
     CounterNeverAhead, CompletedIsBacked, NoJobRow
<1>2. TypeOK /\ TypeOK' /\ CounterInv /\ [Next]_vars => CounterInv'
  <2> SUFFICES ASSUME TypeOK, TypeOK', CounterInv, [Next]_vars
               PROVE  CounterInv'
    OBVIOUS
  <2>1. OnlyDispatched'
    BY DispatchedStep DEF CounterInv
  <2>2. FailedIsZero' /\ CounterNeverAhead' /\ CompletedIsBacked'
    BY CounterStep DEF FailedIsZero, CounterNeverAhead, CompletedIsBacked
  <2>3. SeenIsBehind'
    BY SeenStep
  <2> QED
    BY <2>1, <2>2, <2>3 DEF CounterInv
<1> QED
  BY <1>1, <1>2, TypeCorrect, PTL DEF Spec

(* Lost updates, roll-backs and redeliveries can make the counter of a job *)
(* lag, never lead: it counts no annotation that was not committed         *)
(* (tasks.py:143-148).                                                     *)
THEOREM CounterIsNeverAhead == Spec => []CounterNeverAhead
  BY CounterInvariant, PTL DEF CounterInv

(* A COMPLETED job has as many committed annotations as it has images,     *)
(* though the decision rests on a stale row (tasks.py:149-151).            *)
THEOREM CompletionIsBacked == Spec => []CompletedIsBacked
  BY CounterInvariant, PTL DEF CounterInv

-----------------------------------------------------------------------------
(* At-least-once delivery.                                                 *)

(* What is settled stays settled: rows and drops are kept until the        *)
(* dataset goes, and then the image is gone.                               *)
LEMMA SettledStays ==
    ASSUME TypeOK, [Next]_vars, NEW j \in Job, NEW i \in Image, Settled(j, i)
    PROVE  Settled(j, i)'
<1>1. CASE images[i] = "absent"
  BY <1>1, AbsentStays DEF Settled, Annotated
<1>2. CASE DeleteDataset
  BY <1>2 DEF DeleteDataset, Settled, Annotated
<1>3. CASE ~DeleteDataset
  <2>1. annotations \subseteq annotations'
    BY <1>3, WhoWritesAnnotations, InsertFacts DEF Insert
  <2>2. gaveUp \subseteq gaveUp'
    <3>1. ASSUME NEW k \in Job, Client(k)
          PROVE  UNCHANGED gaveUp
      BY <3>1 DEF Client, SelectPending, CommitJob, CommitJobFails, Dispatch,
         DispatchFails, LoadForCancel, CommitCancel, brokerVars
    <3>2. ASSUME NEW w \in Worker, WorkerStep(w) \/ Fault(w)
          PROVE  gaveUp \subseteq gaveUp'
      BY <3>2 DEF WorkerStep, Receive, Ack, MarkRunning, Publish, FanoutDone, Load,
         LoadMissing, ReadVersion, UpdateImage, Commit, CommitRejected, Retry, GiveUp,
         Fault, Crash, VisibilityTimeout, EnqueueFails, TaskRaises,
         CommitUnacknowledged, RetryRejected, brokerVars
    <3> QED
      BY <1>3, <3>1, <3>2 DEF Next, vars, brokerVars
  <2> QED
    BY <1>1, <2>1, <2>2 DEF Settled, Annotated
<1> QED
  BY <1>2, <1>3

(* A waiting message leaves the queue only into the hands of a worker.     *)
LEMMA QueuedStays ==
    ASSUME TypeOK, [Next]_vars, NEW m \in Message, queue[m] > 0
    PROVE  \/ queue'[m] > 0
           \/ \E w \in Worker :
                 /\ msg'[w] = m
                 /\ pc'[w] = IF m.name = "enqueue_job" THEN "update" ELSE "load"
<1> USE DEF TypeOK, BrokerTypeOK
<1>1. ASSUME NEW w \in Worker, Receive(w), ~(queue'[m] > 0)
      PROVE  /\ msg'[w] = m
             /\ pc'[w] = IF m.name = "enqueue_job" THEN "update" ELSE "load"
  BY <1>1 DEF Receive, WorkerTypeOK
<1>2. ASSUME NEW n \in Message, Put(n)
      PROVE  queue'[m] > 0
  BY <1>2 DEF Put
<1>3. ASSUME NEW w \in Worker, Publish(w) \/ Retry(w)
      PROVE  queue'[m] > 0
  BY <1>3 DEF Publish, Retry, Put
<1>4. ASSUME NEW w \in Worker, Crash(w) \/ VisibilityTimeout(w)
      PROVE  queue'[m] > 0
  BY <1>2, <1>4 DEF Crash, VisibilityTimeout, WorkerTypeOK
<1>5. ASSUME NEW w \in Worker, WorkerStep(w) \/ Fault(w),
             ~Receive(w), ~Publish(w), ~Retry(w), ~Crash(w), ~VisibilityTimeout(w)
      PROVE  UNCHANGED queue
  BY <1>5 DEF WorkerStep, Ack, MarkRunning, FanoutDone, Load, LoadMissing,
     ReadVersion, UpdateImage, Commit, CommitRejected, GiveUp, Fault,
     EnqueueFails, TaskRaises, CommitUnacknowledged, RetryRejected, brokerVars
<1>6. ASSUME NEW k \in Job, Client(k)
      PROVE  queue'[m] > 0
  <2>1. CASE Dispatch(k)
    BY <1>2, <2>1, MessageFacts DEF Dispatch
  <2>2. CASE ~Dispatch(k)
    BY <1>6, <2>2 DEF Client, SelectPending, CommitJob, CommitJobFails,
       DispatchFails, LoadForCancel, CommitCancel, brokerVars
  <2> QED
    BY <2>1, <2>2
<1>7. ASSUME DeleteDataset \/ UNCHANGED vars
      PROVE  queue'[m] > 0
  BY <1>7 DEF DeleteDataset, vars, brokerVars
<1>8. ASSUME NEW w \in Worker, WorkerStep(w) \/ Fault(w), ~Receive(w)
      PROVE  queue'[m] > 0
  BY <1>3, <1>4, <1>5, <1>8, Zenon
<1> QED
  BY <1>1, <1>6, <1>7, <1>8 DEF Next

(* So does the task of an image.                                           *)
LEMMA WaitingStays ==
    ASSUME TypeOK, [Next]_vars, NEW j \in Job, NEW i \in Image, Waiting(j, i)
    PROVE  Waiting(j, i)' \/ \E w \in Worker : HeldBy(w, j, i)'
<1>1. PICK r \in 0 .. MaxRetries : queue[ProcessMsg(j, i, r)] > 0
  BY DEF Waiting
<1>2. ProcessMsg(j, i, r) \in Message /\ ProcessMsg(j, i, r).name # "enqueue_job"
  BY MessageFacts
<1>3. CASE queue'[ProcessMsg(j, i, r)] > 0
  BY <1>3 DEF Waiting
<1>4. ASSUME NEW w \in Worker, msg'[w] = ProcessMsg(j, i, r), pc'[w] = "load"
      PROVE  HeldBy(w, j, i)'
  BY <1>4 DEF HeldBy
<1> QED
  BY <1>1, <1>2, <1>3, <1>4, QueuedStays

(* A worker that has not finished its task keeps it or puts it back in the *)
(* queue, unless it commits, gives up, or finds the image missing.         *)
LEMMA HowTasksEnd ==
    ASSUME TypeOK, [Next]_vars, NEW j \in Job, NEW i \in Image,
           NEW v \in Worker, HeldBy(v, j, i)
    PROVE  \/ HeldBy(v, j, i)'
           \/ Waiting(j, i)'
           \/ /\ \/ Inserts(v)
                 \/ LoadMissing(v)
                 \/ GiveUp(v) \/ RetryRejected(v)
              /\ msg[v].job = j /\ msg[v].image = i
<1> USE DEF TypeOK, WorkerTypeOK
<1>1. PICK r \in 0 .. MaxRetries : msg[v] = ProcessMsg(j, i, r)
  BY DEF HeldBy
<1> DEFINE m == ProcessMsg(j, i, r)
<1>2. /\ m \in ProcessMessage /\ m \in Message
      /\ m.name # "enqueue_job"
      /\ m.job = j /\ m.image = i /\ m.retries = r
  BY MessageFacts
<1>3. pc[v] \in {"load", "version", "bump", "commit", "except"}
  BY <1>1, <1>2 DEF HeldBy
<1>4. ASSUME pc'[v] \notin {"idle", "ack"}, msg'[v] = msg[v]
      PROVE  HeldBy(v, j, i)'
  BY <1>1, <1>4 DEF HeldBy
<1>5. CASE UNCHANGED workerVars
  BY <1>3, <1>4, <1>5 DEF workerVars
<1>6. ASSUME NEW w \in Worker, w # v, WorkerStep(w) \/ Fault(w)
      PROVE  HeldBy(v, j, i)'
  BY <1>3, <1>4, <1>6, OtherWorkers
<1>7. CASE Crash(v)
  <2>1. queue'[m] > 0
    BY <1>1, <1>2, <1>7 DEF Crash, Put, BrokerTypeOK
  <2> QED
    BY <2>1 DEF Waiting
<1>8. CASE Inserts(v) \/ LoadMissing(v) \/ GiveUp(v) \/ RetryRejected(v)
  BY <1>1, <1>2, <1>8
<1>9. CASE Retry(v)
  <2>1. r + 1 \in 0 .. MaxRetries
    BY <1>1, <1>2, <1>9, BoundsAssumption DEF Retry, RetryRaises
  <2>2. ProcessMsg(j, i, r + 1) \in Message
    BY <2>1, MessageFacts
  <2>3. queue'[ProcessMsg(j, i, r + 1)] > 0
    BY <1>1, <1>2, <1>9, <2>2 DEF Retry, Put, BrokerTypeOK
  <2> QED
    BY <2>1, <2>3 DEF Waiting
<1>10. CASE Load(v) \/ ReadVersion(v) \/ UpdateImage(v)
  <2>1. pc'[v] \notin {"idle", "ack"} /\ msg'[v] = msg[v]
    BY <1>10 DEF Load, ReadVersion, UpdateImage, Goto
  <2> QED
    BY <1>4, <2>1
<1>11. CASE CommitRejected(v) \/ TaskRaises(v)
  <2>1. pc'[v] \notin {"idle", "ack"} /\ msg'[v] = msg[v]
    BY <1>11 DEF CommitRejected, TaskRaises, Goto, CloseSession
  <2> QED
    BY <1>4, <2>1
<1>12. CASE VisibilityTimeout(v)
  BY <1>5, <1>12 DEF VisibilityTimeout
<1>13. ~(Receive(v) \/ Ack(v) \/ MarkRunning(v) \/ Publish(v) \/ FanoutDone(v)
         \/ EnqueueFails(v))
  BY <1>3 DEF Receive, Ack, MarkRunning, Publish, FanoutDone, EnqueueFails, Goto
<1>14. CASE WorkerStep(v)
  BY <1>8, <1>9, <1>10, <1>11, <1>13, <1>14 DEF WorkerStep, Inserts
<1>15. CASE Fault(v)
  BY <1>7, <1>8, <1>11, <1>12, <1>13, <1>15 DEF Fault, Inserts
<1>16. CASE \E k \in Job : Client(k)
  <2>1. UNCHANGED workerVars
    BY <1>16 DEF Client, SelectPending, CommitJob, CommitJobFails, Dispatch,
       DispatchFails, LoadForCancel, CommitCancel
  <2> QED
    BY <1>5, <2>1
<1>17. CASE DeleteDataset \/ UNCHANGED vars
  BY <1>5, <1>17 DEF DeleteDataset, vars
<1> QED
  BY <1>6, <1>14, <1>15, <1>16, <1>17 DEF Next

(* A worker that has not finished its task keeps it, publishes it again,   *)
(* or settles it: committed, dropped, or missing.                          *)
LEMMA HeldStays ==
    ASSUME TypeOK, [Next]_vars, NEW j \in Job, NEW i \in Image,
           NEW v \in Worker, HeldBy(v, j, i)
    PROVE  HeldBy(v, j, i)' \/ Waiting(j, i)' \/ Settled(j, i)'
<1>1. CASE Inserts(v) /\ msg[v].job = j /\ msg[v].image = i
  <2>1. annotations' = Insert(annotations, i, ver[v], j)
    BY <1>1, InsertFacts
  <2>2. [image |-> i, version |-> ver[v], job |-> j] \in annotations'
    BY <2>1 DEF Insert
  <2> QED
    BY <2>2 DEF Settled, Annotated
<1>2. CASE LoadMissing(v) /\ msg[v].image = i
  BY <1>2 DEF LoadMissing, dbVars, Settled, Annotated
<1>3. CASE (GiveUp(v) \/ RetryRejected(v)) /\ msg[v].job = j /\ msg[v].image = i
  BY <1>3 DEF GiveUp, RetryRejected, Settled, Annotated
<1> QED
  BY <1>1, <1>2, <1>3, HowTasksEnd

(* Only the fan-out records a task as sent, and it has put it in the queue.*)
LEMMA SentIsPublished ==
    ASSUME TypeOK, [Next]_vars, NEW j \in Job, NEW i \in Image,
           <<j, i>> \in sent', <<j, i>> \notin sent
    PROVE  Waiting(j, i)'
<1>1. ASSUME NEW k \in Job, Client(k)
      PROVE  UNCHANGED sent
  BY <1>1 DEF Client, SelectPending, CommitJob, CommitJobFails, Dispatch,
     DispatchFails, LoadForCancel, CommitCancel, brokerVars
<1>2. ASSUME NEW w \in Worker, WorkerStep(w) \/ Fault(w), ~Publish(w)
      PROVE  UNCHANGED sent
  BY <1>2 DEF WorkerStep, Receive, Ack, MarkRunning, FanoutDone, Load, LoadMissing,
     ReadVersion, UpdateImage, Commit, CommitRejected, Retry, GiveUp, Fault, Crash,
     VisibilityTimeout, EnqueueFails, TaskRaises, CommitUnacknowledged,
     RetryRejected, brokerVars
<1>3. CASE \E w \in Worker : Publish(w)
  <2>1. PICK w \in Worker : Publish(w)
    BY <1>3
  <2>2. Put(ProcessMsg(j, i, 0))
    BY <2>1 DEF Publish
  <2>3. 0 \in 0 .. MaxRetries /\ ProcessMsg(j, i, 0) \in Message
    BY MessageFacts, BoundsAssumption
  <2>4. queue'[ProcessMsg(j, i, 0)] > 0
    BY <2>2, <2>3 DEF Put, TypeOK, BrokerTypeOK
  <2> QED
    BY <2>3, <2>4 DEF Waiting
<1>4. CASE DeleteDataset \/ UNCHANGED vars
  BY <1>4 DEF DeleteDataset, vars, brokerVars
<1> QED
  BY <1>1, <1>2, <1>3, <1>4 DEF Next

(* Every published task stays alive or settled.                            *)
LEMMA SentInvariant == Spec => []SentIsAlive
<1>1. Init => SentIsAlive
  BY DEF Init, SentIsAlive
<1>2. TypeOK /\ SentIsAlive /\ [Next]_vars => SentIsAlive'
  <2> SUFFICES ASSUME TypeOK, SentIsAlive, [Next]_vars,
                      NEW j \in Job, NEW i \in Image, <<j, i>> \in sent'
               PROVE  Alive(j, i)'
    BY DEF SentIsAlive
  <2>1. Alive(j, i)' <=>
            \/ Waiting(j, i)'
            \/ \E w \in Worker : HeldBy(w, j, i)'
            \/ Settled(j, i)'
    BY DEF Alive
  <2>2. CASE <<j, i>> \notin sent
    BY <2>1, <2>2, SentIsPublished
  <2>3. CASE <<j, i>> \in sent
    <3>1. \/ Waiting(j, i)
          \/ \E w \in Worker : HeldBy(w, j, i)
          \/ Settled(j, i)
      BY <2>3 DEF SentIsAlive, Alive
    <3> QED
      BY <2>1, <3>1, WaitingStays, HeldStays, SettledStays
  <2> QED
    BY <2>2, <2>3
<1> QED
  BY <1>1, <1>2, TypeCorrect, PTL DEF Spec

(* No published task is ever lost, over any number of crashes, redelivered *)
(* messages, failures and refused publishes: it waits, or a worker holds   *)
(* it, or it left its annotation, or it was given up, or its dataset is    *)
(* gone (celery_app.py:25-27, tasks.py:57-140).                            *)
THEOREM NothingIsLost == Spec => []NothingSentIsLost
<1>1. SentIsAlive => NothingSentIsLost
  BY DEF SentIsAlive, Alive, Waiting, HeldBy, Settled, Annotated, NothingSentIsLost
<1> QED
  BY <1>1, SentInvariant, PTL

-----------------------------------------------------------------------------
(* Pending images.                                                         *)

(* No step makes an image pending again; Load makes it processing and a    *)
(* commit annotated.                                                       *)
LEMMA PendingOnlyBefore ==
    ASSUME TypeOK, [Next]_vars, NEW i \in Image, images'[i] = "pending"
    PROVE  /\ images[i] = "pending"
           /\ ~DeleteDataset
           /\ \A w \in Worker : Load(w) \/ Inserts(w) => msg[w].image # i
<1> USE DEF TypeOK, DbTypeOK, dbVars
<1>1. ~DeleteDataset
  BY DEF DeleteDataset
<1>2. ASSUME NEW w \in Worker, Load(w)
      PROVE  msg[w].image # i /\ images[i] = "pending"
  BY <1>2 DEF Load
<1>3. ASSUME NEW w \in Worker, Inserts(w)
      PROVE  msg[w].image # i /\ images[i] = "pending"
  BY <1>3, InsertFacts DEF CommitEffect
<1>4. ASSUME UNCHANGED vars
      PROVE  UNCHANGED images
  BY <1>4 DEF vars
<1>5. ASSUME NEW j \in Job, Client(j)
      PROVE  UNCHANGED images
  BY <1>5 DEF Client, SelectPending, CommitJob, CommitJobFails, Dispatch,
     DispatchFails, LoadForCancel, CommitCancel
<1>6. ASSUME NEW w \in Worker, WorkerStep(w), ~Load(w), ~Inserts(w)
      PROVE  UNCHANGED images
  BY <1>6, GiveUpCountsNothing DEF WorkerStep, Receive, Ack, MarkRunning, Publish,
     FanoutDone, LoadMissing, ReadVersion, UpdateImage, CommitRejected, Retry, Inserts
<1>7. ASSUME NEW w \in Worker, Fault(w), ~Inserts(w)
      PROVE  UNCHANGED images
  BY <1>7 DEF Fault, Crash, VisibilityTimeout, EnqueueFails, TaskRaises,
     RetryRejected, Inserts
<1>8. images[i] = "pending"
  BY <1>1, <1>2, <1>3, <1>4, <1>5, <1>6, <1>7 DEF Next
<1> QED
  BY <1>1, <1>2, <1>3, <1>8

(* A worker past the first statement of process_image got there by Load or *)
(* holds the message it held there before.                                 *)
LEMMA HowToRun ==
    ASSUME TypeOK, [Next]_vars, NEW v \in Worker,
           pc'[v] \in {"version", "bump", "commit"}
    PROVE  /\ msg'[v] = msg[v]
           /\ Load(v) \/ pc[v] \in {"version", "bump", "commit"}
<1> USE DEF TypeOK, WorkerTypeOK, Goto, Release, CloseSession, workerVars
<1>1. CASE UNCHANGED vars \/ DeleteDataset
  BY <1>1 DEF vars, DeleteDataset
<1>2. ASSUME NEW j \in Job, Client(j)
      PROVE  UNCHANGED workerVars
  BY <1>2 DEF Client, SelectPending, CommitJob, CommitJobFails, Dispatch,
     DispatchFails, LoadForCancel, CommitCancel
<1>3. ASSUME NEW w \in Worker, WorkerStep(w) \/ Fault(w), v # w
      PROVE  pc[v] = pc'[v] /\ msg'[v] = msg[v]
  BY <1>3, OtherWorkers
<1>4. CASE WorkerStep(v)
  BY <1>4 DEF WorkerStep, Receive, Ack, MarkRunning, Publish, FanoutDone, Load,
     LoadMissing, ReadVersion, UpdateImage, Commit, CommitRejected, Retry, GiveUp
<1>5. CASE Fault(v)
  BY <1>5 DEF Fault, Crash, VisibilityTimeout, EnqueueFails, TaskRaises,
     CommitUnacknowledged, RetryRejected
<1> QED
  BY <1>1, <1>2, <1>3, <1>4, <1>5 DEF Next

(* Every step keeps workers away from PENDING images: the first            *)
(* transaction marks the image PROCESSING and nothing makes it PENDING     *)
(* again.                                                                  *)
LEMMA PendingStep ==
    ASSUME TypeOK, PendingIsUntouched, [Next]_vars
    PROVE  PendingIsUntouched'
<1> SUFFICES ASSUME NEW i \in Image, images'[i] = "pending"
             PROVE  /\ RowsOf(annotations', i) = {}
                    /\ \A v \in Worker :
                        ~(pc'[v] \in {"version", "bump", "commit"} /\ msg'[v].image = i)
  BY DEF PendingIsUntouched
<1>1. /\ images[i] = "pending"
      /\ ~DeleteDataset
      /\ \A w \in Worker : Load(w) \/ Inserts(w) => msg[w].image # i
  BY PendingOnlyBefore
<1>2. RowsOf(annotations, i) = {}
  BY <1>1 DEF PendingIsUntouched
<1>3. RowsOf(annotations', i) = {}
  <2>1. ASSUME NEW w \in Worker, Inserts(w)
        PROVE  RowsOf(annotations', i) = RowsOf(annotations, i)
    BY <1>1, <2>1, InsertFacts DEF RowsOf, Insert
  <2> QED
    BY <1>1, <1>2, <2>1, WhoWritesAnnotations
<1>4. ASSUME NEW v \in Worker, pc'[v] \in {"version", "bump", "commit"}, msg'[v].image = i
      PROVE  FALSE
  BY <1>1, <1>4, HowToRun DEF PendingIsUntouched
<1> QED
  BY <1>3, <1>4

(* create_job selects no image that a task has begun or annotated, however *)
(* tasks are redelivered (tasks.py:69-70, job_service.py:24-30).           *)
THEOREM PendingImagesAreUntouched == Spec => []PendingIsUntouched
<1>1. Init => PendingIsUntouched
  BY DEF Init, PendingIsUntouched, RowsOf
<1>2. TypeOK /\ PendingIsUntouched /\ [Next]_vars => PendingIsUntouched'
  BY PendingStep
<1> QED
  BY <1>1, <1>2, TypeCorrect, PTL DEF Spec

-----------------------------------------------------------------------------
(* The dead handler.                                                       *)

NoImageFailed == \A i \in Image : images[i] # "failed"

(* A step writes of an image that it is absent, PROCESSING or ANNOTATED.   *)
LEMMA NoImageFails ==
    ASSUME TypeOK, NoImageFailed, [Next]_vars
    PROVE  NoImageFailed'
<1> USE DEF TypeOK, DbTypeOK, dbVars, NoImageFailed
<1>1. CASE UNCHANGED vars \/ DeleteDataset
  BY <1>1 DEF vars, DeleteDataset
<1>2. ASSUME NEW j \in Job, Client(j)
      PROVE  UNCHANGED images
  BY <1>2 DEF Client, SelectPending, CommitJob, CommitJobFails, Dispatch,
     DispatchFails, LoadForCancel, CommitCancel
<1>3. ASSUME NEW w \in Worker, Load(w)
      PROVE  NoImageFailed'
  BY <1>3 DEF Load
<1>4. ASSUME NEW w \in Worker, Inserts(w)
      PROVE  NoImageFailed'
  BY <1>4, InsertFacts DEF CommitEffect
<1>5. ASSUME NEW w \in Worker, WorkerStep(w), ~Load(w), ~Inserts(w)
      PROVE  UNCHANGED images
  BY <1>5, GiveUpCountsNothing DEF WorkerStep, Receive, Ack, MarkRunning, Publish,
     FanoutDone, LoadMissing, ReadVersion, UpdateImage, CommitRejected, Retry, Inserts
<1>6. ASSUME NEW w \in Worker, Fault(w), ~Inserts(w)
      PROVE  UNCHANGED images
  BY <1>6 DEF Fault, Crash, VisibilityTimeout, EnqueueFails, TaskRaises,
     RetryRejected, Inserts
<1> QED
  BY <1>1, <1>2, <1>3, <1>4, <1>5, <1>6 DEF Next

(* No image is ever marked as failed and none is counted: the handler of   *)
(* MaxRetriesExceededError is dead code, whatever MaxRetries is and        *)
(* whatever fails (tasks.py:129-140), against ARCHITECTURE.md:141.         *)
THEOREM NothingIsCountedFailed == Spec => []NothingIsMarkedFailed
<1>1. Init => NoImageFailed
  BY DEF Init, NoImageFailed
<1>2. TypeOK /\ NoImageFailed /\ [Next]_vars => NoImageFailed'
  BY NoImageFails
<1>3. CounterInv /\ NoImageFailed => NothingIsMarkedFailed
  BY DEF CounterInv, NoImageFailed, NothingIsMarkedFailed
<1> QED
  BY <1>1, <1>2, <1>3, TypeCorrect, CounterInvariant, PTL DEF Spec

-----------------------------------------------------------------------------
(* The annotations table implements the append-only log.                   *)

UniqueKeys == Keyed(annotations)

(* The unique key (image_id, version) holds in every reachable state.      *)
LEMMA KeysInvariant == Spec => []UniqueKeys
<1>1. Init => UniqueKeys
  BY DEF Init, UniqueKeys, Keyed
<1>2. TypeOK /\ UniqueKeys /\ [Next]_vars => UniqueKeys'
  <2> SUFFICES ASSUME TypeOK, UniqueKeys, [Next]_vars
               PROVE  UniqueKeys'
    OBVIOUS
  <2>1. CASE UNCHANGED annotations
    BY <2>1 DEF UniqueKeys
  <2>2. CASE DeleteDataset
    BY <2>2 DEF DeleteDataset, UniqueKeys, Keyed
  <2>3. ASSUME NEW w \in Worker, Inserts(w)
        PROVE  UniqueKeys'
    BY <2>3, InsertFacts, InsertKeepsKeys DEF InsertAllowed, UniqueKeys
  <2> QED
    BY <2>1, <2>2, <2>3, WhoWritesAnnotations
<1> QED
  BY <1>1, <1>2, TypeCorrect, PTL DEF Spec

-----------------------------------------------------------------------------
(* The selection of a job, under any fault.                                *)

(* A request that has dispatched its job is over, one that has selected    *)
(* keeps its selection, and no request goes back.                          *)
LEMMA RequestsAdvance ==
    ASSUME TypeOK, [Next]_vars, NEW j \in Job
    PROVE  /\ req[j] = "dispatched" => req'[j] = "dispatched"
           /\ req[j] # "none" => selected'[j] = selected[j]
           /\ req[j] \notin {"none", "selected"} => req'[j] \notin {"none", "selected"}
<1> USE DEF TypeOK, ApiTypeOK
<1>1. CASE UNCHANGED vars \/ DeleteDataset
  BY <1>1 DEF vars, DeleteDataset, apiVars
<1>2. ASSUME NEW w \in Worker, WorkerStep(w) \/ Fault(w)
      PROVE  UNCHANGED apiVars
  BY <1>2 DEF WorkerStep, Receive, Ack, MarkRunning, Publish, FanoutDone, Load,
     LoadMissing, ReadVersion, UpdateImage, Commit, CommitRejected, Retry, GiveUp,
     Fault, Crash, VisibilityTimeout, EnqueueFails, TaskRaises,
     CommitUnacknowledged, RetryRejected
<1>3. ASSUME NEW k \in Job, Client(k)
      PROVE  /\ req[j] = "dispatched" => req'[j] = "dispatched"
             /\ req[j] # "none" => selected'[j] = selected[j]
             /\ req[j] \notin {"none", "selected"} => req'[j] \notin {"none", "selected"}
  BY <1>3 DEF Client, SelectPending, CommitJob, CommitJobFails, Dispatch,
     DispatchFails, LoadForCancel, CommitCancel
<1> QED
  BY <1>1, <1>2, <1>3 DEF Next, apiVars

(* The messages of different tasks, and of different retries, differ.      *)
LEMMA MessagesDiffer ==
    /\ \A j, k : EnqueueMsg(j) = EnqueueMsg(k) => j = k
    /\ \A j, k, i, r : EnqueueMsg(j) # ProcessMsg(k, i, r)
    /\ \A j, k, i, l, r, s :
          ProcessMsg(j, i, r) = ProcessMsg(k, l, s) => j = k /\ i = l /\ r = s
<1>1. \A j, k : EnqueueMsg(j) = EnqueueMsg(k) => j = k
  BY DEF EnqueueMsg
<1>2. \A j, k, i, r : EnqueueMsg(j) # ProcessMsg(k, i, r)
  BY DEF EnqueueMsg, ProcessMsg
<1>3. ASSUME NEW j, NEW k, NEW i, NEW l, NEW r, NEW s,
             ProcessMsg(j, i, r) = ProcessMsg(k, l, s)
      PROVE  j = k /\ i = l /\ r = s
  BY <1>3 DEF ProcessMsg
<1> QED
  BY <1>1, <1>2, <1>3

(* A worker takes message m out of the queue.                              *)
Received(w, m) ==
    /\ pc[w] = "idle"
    /\ queue[m] > 0
    /\ queue' = [queue EXCEPT ![m] = @ - 1]
    /\ msg' = [msg EXCEPT ![w] = m]
    /\ pc' = [pc EXCEPT ![w] = IF m.name = "enqueue_job" THEN "update" ELSE "load"]

(* A worker publishes image i of job j.                                    *)
Published(w, j, i) ==
    /\ FanningOut(w, j) /\ pc[w] = "fanout" /\ i \in todo[w]
    /\ queue' = [queue EXCEPT ![ProcessMsg(j, i, 0)] = @ + 1]
    /\ todo' = [todo EXCEPT ![w] = @ \ {i}]
    /\ UNCHANGED <<pc, msg, req>>

(* A worker publishes the task of image i of job j again and gives it up.  *)
Retried(w, j, i, r) ==
    /\ pc[w] = "except" /\ msg[w] = ProcessMsg(j, i, r)
    /\ r + 1 \in 0 .. MaxRetries
    /\ queue' = [queue EXCEPT ![ProcessMsg(j, i, r + 1)] = @ + 1]
    /\ pc' = [pc EXCEPT ![w] = "ack"]
    /\ UNCHANGED msg

(* A worker at the fan-out holds the enqueue_job message of its job.       *)
LEMMA FanoutMessage ==
    ASSUME TypeOK, NEW w \in Worker, pc[w] \in {"update", "fanout"}
    PROVE  msg[w].job \in Job /\ msg[w] = EnqueueMsg(msg[w].job)
<1>1. msg[w] \in Message /\ msg[w].name = "enqueue_job"
  BY DEF TypeOK, WorkerTypeOK
<1>2. msg[w] \notin ProcessMessage
  BY <1>1, MessageFacts
<1> QED
  BY <1>1, <1>2, MessageFacts DEF Message

(* Without redelivery, the queue changes when the API dispatches a job, a  *)
(* worker receives a message, publishes a task or retries one.             *)
LEMMA WhoWritesQueue ==
    ASSUME TypeOK, [Next]_vars, MaxRedeliveries = 0
    PROVE  \/ UNCHANGED queue
           \/ \E j \in Job : Dispatch(j)
           \/ \E w \in Worker, m \in Message : Received(w, m)
           \/ \E w \in Worker, j \in Job, i \in Image : Published(w, j, i)
           \/ \E w \in Worker, j \in Job, i \in Image, r \in 0 .. MaxRetries :
                 Retried(w, j, i, r)
<1> USE DEF brokerVars
<1>1. CASE UNCHANGED vars \/ DeleteDataset
  BY <1>1 DEF vars, DeleteDataset
<1>2. ASSUME NEW j \in Job, Client(j), ~Dispatch(j)
      PROVE  UNCHANGED queue
  BY <1>2 DEF Client, SelectPending, CommitJob, CommitJobFails,
     DispatchFails, LoadForCancel, CommitCancel
<1>3. ASSUME NEW w \in Worker, Receive(w)
      PROVE  \E m \in Message : Received(w, m)
  BY <1>3 DEF Receive, Received
<1>4. ASSUME NEW w \in Worker, Publish(w)
      PROVE  \E j \in Job, i \in Image : Published(w, j, i)
  <2>1. PICK i \in todo[w] :
          /\ Put(ProcessMsg(msg[w].job, i, 0))
          /\ todo' = [todo EXCEPT ![w] = @ \ {i}]
    BY <1>4 DEF Publish
  <2>2. i \in Image
    BY DEF TypeOK, WorkerTypeOK
  <2>3. Published(w, msg[w].job, i)
    BY <1>4, <2>1, FanoutMessage DEF Publish, Put, Published, FanningOut, apiVars
  <2> QED
    BY <1>4, <2>2, <2>3, FanoutMessage DEF Publish
<1>5. ASSUME NEW w \in Worker, Retry(w)
      PROVE  \E j \in Job, i \in Image, r \in 0 .. MaxRetries : Retried(w, j, i, r)
  <2> DEFINE m == msg[w]
  <2>1. pc[w] = "except" /\ m \in ProcessMessage
    BY <1>5 DEF Retry, Goto, TypeOK, WorkerTypeOK
  <2>2. /\ m.job \in Job /\ m.image \in Image /\ m.retries \in 0 .. MaxRetries
        /\ m = ProcessMsg(m.job, m.image, m.retries)
    BY <2>1, MessageFacts
  <2>3. m.retries + 1 \in 0 .. MaxRetries
    BY <1>5, <2>2, BoundsAssumption DEF Retry, RetryRaises
  <2>4. /\ queue' = [queue EXCEPT ![ProcessMsg(m.job, m.image, m.retries + 1)] = @ + 1]
        /\ pc' = [pc EXCEPT ![w] = "ack"]
        /\ UNCHANGED msg
    BY <1>5 DEF Retry, Put, Goto
  <2>5. Retried(w, m.job, m.image, m.retries)
    BY <2>1, <2>2, <2>3, <2>4 DEF Retried
  <2> QED
    BY <2>2, <2>5
<1>6. ASSUME NEW w \in Worker, Crash(w) \/ VisibilityTimeout(w)
      PROVE  FALSE
  BY <1>6 DEF Crash, VisibilityTimeout, TypeOK, FaultTypeOK
<1>7. ASSUME NEW w \in Worker, WorkerStep(w) \/ Fault(w),
             ~Receive(w), ~Publish(w), ~Retry(w), ~Crash(w), ~VisibilityTimeout(w)
      PROVE  UNCHANGED queue
  BY <1>7 DEF WorkerStep, Ack, MarkRunning, FanoutDone, Load, LoadMissing,
     ReadVersion, UpdateImage, Commit, CommitRejected, GiveUp, Fault,
     EnqueueFails, TaskRaises, CommitUnacknowledged, RetryRejected
<1>8. ASSUME NEW w \in Worker, WorkerStep(w) \/ Fault(w)
      PROVE  \/ UNCHANGED queue
             \/ \E m \in Message : Received(w, m)
             \/ \E j \in Job, i \in Image : Published(w, j, i)
             \/ \E j \in Job, i \in Image, r \in 0 .. MaxRetries : Retried(w, j, i, r)
  BY <1>3, <1>4, <1>5, <1>6, <1>7, <1>8
<1> QED
  BY <1>1, <1>2, <1>8 DEF Next

(* All a step changes of the workers is the state of one of them.          *)
LEMMA OneReceives ==
    ASSUME TypeOK, [Next]_vars, NEW w \in Worker, NEW m \in Message, Received(w, m)
    PROVE  \A v \in Worker : v # w => pc'[v] = pc[v] /\ msg'[v] = msg[v] /\ todo'[v] = todo[v]
<1> USE DEF TypeOK, WorkerTypeOK, Received
<1>1. pc'[w] # pc[w] /\ pc'[w] \in {"update", "load"}
  OBVIOUS
<1>2. \A v \in Worker : v # w => pc'[v] = pc[v] /\ msg'[v] = msg[v]
  OBVIOUS
<1>3. UNCHANGED todo \/ \E v \in Worker : WorkerStep(v) \/ Fault(v)
  BY DEF Next, vars, Client, SelectPending, CommitJob, CommitJobFails, Dispatch,
     DispatchFails, LoadForCancel, CommitCancel, DeleteDataset, workerVars
<1>4. ASSUME NEW v \in Worker, WorkerStep(v) \/ Fault(v)
      PROVE  Receive(v)
  <2>1. v = w
    BY <1>1, <1>4, OtherWorkers
  <2> QED
    BY <1>1, <1>4, <2>1 DEF WorkerStep, Ack, MarkRunning, Publish, FanoutDone, Load, LoadMissing,
       ReadVersion, UpdateImage, Commit, CommitRejected, Retry, GiveUp, Goto, Fault,
       Crash, VisibilityTimeout, EnqueueFails, TaskRaises, CommitUnacknowledged,
       RetryRejected
<1> QED
  BY <1>2, <1>3, <1>4 DEF Receive

(* A worker at the fan-out of a job has received its message, or was there *)
(* before, no earlier in it and with no more images to publish.            *)
LEMMA HowToFanOut ==
    ASSUME TypeOK, [Next]_vars, NEW w \in Worker, NEW j \in Job, FanningOut(w, j)'
    PROVE  \/ Received(w, EnqueueMsg(j)) /\ pc'[w] = "update"
           \/ /\ FanningOut(w, j)
              /\ pc[w] = "fanout" => pc'[w] = "fanout" /\ todo'[w] \subseteq todo[w]
<1> USE DEF TypeOK, WorkerTypeOK, FanningOut
<1>1. CASE UNCHANGED vars \/ DeleteDataset
  BY <1>1 DEF vars, DeleteDataset, workerVars
<1>2. ASSUME NEW k \in Job, Client(k)
      PROVE  UNCHANGED workerVars
  BY <1>2 DEF Client, SelectPending, CommitJob, CommitJobFails, Dispatch,
     DispatchFails, LoadForCancel, CommitCancel
<1>3. ASSUME NEW v \in Worker, v # w, WorkerStep(v) \/ Fault(v)
      PROVE  UNCHANGED <<pc[w], msg[w], todo[w]>>
  <2>1. UNCHANGED <<pc[w], msg[w]>>
    BY <1>3, OtherWorkers
  <2>2. UNCHANGED todo[w]
    BY <1>3 DEF WorkerStep, Receive, Ack, MarkRunning, Publish, FanoutDone, Load,
       LoadMissing, ReadVersion, UpdateImage, Commit, CommitRejected, Retry, GiveUp,
       Release, CloseSession, Fault, Crash, VisibilityTimeout, EnqueueFails, TaskRaises,
       CommitUnacknowledged, RetryRejected, workerVars
  <2> QED
    BY <2>1, <2>2
<1>4. CASE Receive(w)
  <2>1. PICK m \in Message : Received(w, m)
    BY <1>4 DEF Receive, Received
  <2>2. msg'[w] = m /\ pc'[w] \in {"update", "load"}
    BY <2>1 DEF Received
  <2> QED
    BY <2>1, <2>2
<1>5. CASE MarkRunning(w) \/ Publish(w) \/ VisibilityTimeout(w)
  BY <1>5 DEF MarkRunning, Publish, VisibilityTimeout, Goto, workerVars
<1>6. CASE WorkerStep(w) /\ ~Receive(w) /\ ~MarkRunning(w) /\ ~Publish(w)
  <2>1. pc'[w] \notin {"update", "fanout"}
    BY <1>6 DEF WorkerStep, Ack, FanoutDone, Load, LoadMissing, ReadVersion,
       UpdateImage, Commit, CommitRejected, Retry, GiveUp, Goto, Release
  <2> QED
    BY <2>1
<1>7. CASE Fault(w) /\ ~VisibilityTimeout(w)
  <2>1. pc'[w] \notin {"update", "fanout"}
    BY <1>7 DEF Fault, Crash, EnqueueFails, TaskRaises, CommitUnacknowledged,
       RetryRejected, Goto, Release
  <2> QED
    BY <2>1
<1> QED
  BY <1>1, <1>2, <1>3, <1>4, <1>5, <1>6, <1>7 DEF Next, workerVars

(* A worker at a task has received its message, or was at it before.       *)
LEMMA HowToHold ==
    ASSUME TypeOK, [Next]_vars, NEW w \in Worker, NEW j \in Job, NEW i \in Image,
           HeldBy(w, j, i)'
    PROVE  \/ \E r \in 0 .. MaxRetries : Received(w, ProcessMsg(j, i, r))
           \/ HeldBy(w, j, i)
<1> USE DEF TypeOK, WorkerTypeOK
<1>1. PICK r \in 0 .. MaxRetries : msg'[w] = ProcessMsg(j, i, r)
  BY DEF HeldBy
<1>2. pc'[w] \notin {"idle", "ack"}
  BY DEF HeldBy
<1>3. ASSUME UNCHANGED <<pc[w], msg[w]>>
      PROVE  HeldBy(w, j, i)
  BY <1>1, <1>2, <1>3 DEF HeldBy
<1>4. CASE UNCHANGED vars \/ DeleteDataset
  BY <1>3, <1>4 DEF vars, DeleteDataset, workerVars
<1>5. ASSUME NEW k \in Job, Client(k)
      PROVE  UNCHANGED workerVars
  BY <1>5 DEF Client, SelectPending, CommitJob, CommitJobFails, Dispatch,
     DispatchFails, LoadForCancel, CommitCancel
<1>6. ASSUME NEW v \in Worker, v # w, WorkerStep(v) \/ Fault(v)
      PROVE  UNCHANGED <<pc[w], msg[w]>>
  BY <1>6, OtherWorkers
<1>7. CASE Receive(w)
  <2>1. PICK m \in Message : Received(w, m)
    BY <1>7 DEF Receive, Received
  <2>2. msg'[w] = m
    BY <2>1 DEF Received
  <2> QED
    BY <1>1, <2>1, <2>2
<1>8. CASE (WorkerStep(w) \/ Fault(w)) /\ ~Receive(w)
  <2>1. msg'[w] = msg[w] /\ pc[w] \notin {"idle", "ack"}
    BY <1>2, <1>8 DEF WorkerStep, Ack, MarkRunning, Publish, FanoutDone, Load,
       LoadMissing, ReadVersion, UpdateImage, Commit, CommitRejected, Retry, GiveUp,
       Goto, Release, CloseSession, Fault, Crash, VisibilityTimeout, EnqueueFails,
       TaskRaises, CommitUnacknowledged, RetryRejected, workerVars
  <2> QED
    BY <1>1, <2>1 DEF HeldBy
<1> QED
  BY <1>3, <1>4, <1>5, <1>6, <1>7, <1>8 DEF Next, workerVars

-----------------------------------------------------------------------------
(* Without redelivery, tasks are in one place.                             *)

(* What has been published stays published.                                *)
LEMMA PublishedStays ==
    ASSUME TypeOK, [Next]_vars, MaxRedeliveries = 0,
           NEW j \in Job, NEW i \in Image, Unpublished(j, i)'
    PROVE  Unpublished(j, i)
<1>0. \A k : EnqueueMsg(j) \in Message
  BY MessageFacts
<1>1. CASE req'[j] # "dispatched"
  BY <1>1, RequestsAdvance DEF Unpublished
<1>2. CASE queue'[EnqueueMsg(j)] > 0
  <2>1. CASE UNCHANGED queue
    BY <1>2, <2>1 DEF Unpublished
  <2>2. ASSUME NEW k \in Job, Dispatch(k)
        PROVE  Unpublished(j, i)
    <3>1. CASE k = j
      BY <2>2, <3>1 DEF Dispatch, Unpublished
    <3>2. CASE k # j
      <4>1. queue'[EnqueueMsg(j)] = queue[EnqueueMsg(j)]
        BY <1>0, <2>2, <3>2, MessagesDiffer, MessageFacts DEF Dispatch, Put, TypeOK, BrokerTypeOK
      <4> QED
        BY <1>2, <4>1 DEF Unpublished
    <3> QED
      BY <3>1, <3>2
  <2>3. ASSUME NEW w \in Worker, NEW m \in Message, Received(w, m)
        PROVE  Unpublished(j, i)
    <3>1. queue[EnqueueMsg(j)] > 0
      BY <1>0, <1>2, <2>3 DEF Received, TypeOK, BrokerTypeOK
    <3> QED
      BY <3>1 DEF Unpublished
  <2>4. ASSUME NEW w \in Worker, NEW k \in Job, NEW l \in Image, NEW r \in 0 .. MaxRetries,
               Published(w, k, l) \/ Retried(w, k, l, r)
        PROVE  Unpublished(j, i)
    <3>1. queue'[EnqueueMsg(j)] = queue[EnqueueMsg(j)]
      BY <1>0, <2>4, MessagesDiffer DEF Published, Retried, TypeOK, BrokerTypeOK
    <3> QED
      BY <1>2, <3>1 DEF Unpublished
  <2>5. 0 \in 0 .. MaxRetries
    BY BoundsAssumption
  <2> QED
    BY <2>1, <2>2, <2>3, <2>4, <2>5, WhoWritesQueue
<1>3. CASE \E w \in Worker : FanningOut(w, j)' /\ (pc'[w] = "update" \/ i \in todo'[w])
  <2>1. PICK w \in Worker : FanningOut(w, j)' /\ (pc'[w] = "update" \/ i \in todo'[w])
    BY <1>3
  <2>2. CASE Received(w, EnqueueMsg(j))
    BY <2>2 DEF Received, Unpublished
  <2>3. CASE FanningOut(w, j) /\ (pc[w] = "fanout" =>
                                    pc'[w] = "fanout" /\ todo'[w] \subseteq todo[w])
    <3>1. pc[w] = "update" \/ i \in todo[w]
      BY <2>1, <2>3 DEF FanningOut
    <3> QED
      BY <2>3, <3>1 DEF Unpublished
  <2> QED
    BY <2>1, <2>2, <2>3, HowToFanOut
<1> QED
  BY <1>1, <1>2, <1>3 DEF Unpublished

(* What a step makes of the queue of one fan-out message.                  *)
LEMMA EnqueueQueue ==
    ASSUME TypeOK, [Next]_vars, MaxRedeliveries = 0, NEW j \in Job
    PROVE  \/ queue'[EnqueueMsg(j)] = queue[EnqueueMsg(j)]
           \/ /\ Dispatch(j)
              /\ queue'[EnqueueMsg(j)] = queue[EnqueueMsg(j)] + 1
           \/ \E w \in Worker :
                 /\ Received(w, EnqueueMsg(j))
                 /\ queue'[EnqueueMsg(j)] = queue[EnqueueMsg(j)] - 1
<1> USE DEF TypeOK, BrokerTypeOK
<1>0. EnqueueMsg(j) \in Message
  BY MessageFacts
<1>1. ASSUME NEW k \in Job, Dispatch(k)
      PROVE  \/ queue'[EnqueueMsg(j)] = queue[EnqueueMsg(j)]
             \/ /\ Dispatch(j)
                /\ queue'[EnqueueMsg(j)] = queue[EnqueueMsg(j)] + 1
  BY <1>0, <1>1, MessagesDiffer DEF Dispatch, Put
<1>2. ASSUME NEW w \in Worker, NEW m \in Message, Received(w, m)
      PROVE  \/ queue'[EnqueueMsg(j)] = queue[EnqueueMsg(j)]
             \/ /\ Received(w, EnqueueMsg(j))
                /\ queue'[EnqueueMsg(j)] = queue[EnqueueMsg(j)] - 1
  BY <1>0, <1>2 DEF Received
<1>3. ASSUME NEW w \in Worker, NEW k \in Job, NEW l \in Image, NEW r \in 0 .. MaxRetries,
             Published(w, k, l) \/ Retried(w, k, l, r)
      PROVE  queue'[EnqueueMsg(j)] = queue[EnqueueMsg(j)]
  BY <1>0, <1>3, MessagesDiffer DEF Published, Retried
<1>4. 0 \in 0 .. MaxRetries
  BY BoundsAssumption
<1> QED
  BY <1>1, <1>2, <1>3, <1>4, WhoWritesQueue

(* The fan-out of a job stays in one place.                                *)
LEMMA FanoutStep ==
    ASSUME TypeOK, TypeOK', OnlyDispatched, FanoutOnce, [Next]_vars, MaxRedeliveries = 0
    PROVE  FanoutOnce'
<1> SUFFICES ASSUME NEW j \in Job
             PROVE  /\ queue'[EnqueueMsg(j)] <= 1
                    /\ \A w \in Worker : FanningOut(w, j)' =>
                          /\ queue'[EnqueueMsg(j)] = 0
                          /\ \A v \in Worker : FanningOut(v, j)' => v = w
  BY DEF FanoutOnce
<1> DEFINE m == EnqueueMsg(j)
<1>0. /\ m \in Message /\ m.job = j
      /\ queue[m] \in Nat /\ queue'[m] \in Nat
      /\ queue[m] <= 1
      /\ \A w \in Worker : FanningOut(w, j) =>
            /\ queue[m] = 0
            /\ \A v \in Worker : FanningOut(v, j) => v = w
  BY MessageFacts DEF FanoutOnce, TypeOK, BrokerTypeOK
<1> HIDE DEF m
<1>1. \A w \in Worker : FanningOut(w, j)' => FanningOut(w, j) \/ Received(w, m)
  BY HowToFanOut DEF m
<1>2. CASE queue'[m] = queue[m]
  <2>1. \A w \in Worker : ~Received(w, m)
    BY <1>0, <1>2 DEF Received, TypeOK, BrokerTypeOK
  <2> QED
    BY <1>0, <1>1, <1>2, <2>1 DEF m
<1>3. CASE Dispatch(j) /\ queue'[m] = queue[m] + 1
  <2>1. queue[m] = 0
    BY <1>0, <1>3 DEF Dispatch, OnlyDispatched
  <2>2. \A w \in Worker : ~Received(w, m)
    BY <2>1 DEF Received
  <2>3. \A w \in Worker : ~FanningOut(w, j)
    BY <1>0, <1>3 DEF Dispatch, OnlyDispatched, FanningOut, m
  <2> QED
    BY <1>1, <1>3, <2>1, <2>2, <2>3 DEF m
<1>4. CASE \E w \in Worker : Received(w, m) /\ queue'[m] = queue[m] - 1
  <2>1. PICK w \in Worker : Received(w, m) /\ queue'[m] = queue[m] - 1
    BY <1>4
  <2>2. queue[m] = 1 /\ queue'[m] = 0
    BY <1>0, <2>1 DEF Received
  <2>3. \A v \in Worker : ~FanningOut(v, j)
    BY <1>0, <2>2
  <2>4. \A v \in Worker : v # w => pc'[v] = pc[v] /\ msg'[v] = msg[v]
    BY <1>0, <2>1, OneReceives
  <2>5. \A v \in Worker : FanningOut(v, j)' => v = w
    BY <2>3, <2>4 DEF FanningOut
  <2> QED
    BY <2>2, <2>5 DEF m
<1> QED
  BY <1>2, <1>3, <1>4, EnqueueQueue DEF m

(* What a step makes of the waiting copies of one task.                    *)
LEMMA TaskQueue ==
    ASSUME TypeOK, [Next]_vars, MaxRedeliveries = 0, NEW j \in Job, NEW i \in Image
    PROVE  \/ \A r \in 0 .. MaxRetries :
                 queue'[ProcessMsg(j, i, r)] = queue[ProcessMsg(j, i, r)]
           \/ \E w \in Worker : Published(w, j, i)
           \/ \E w \in Worker, r \in 0 .. MaxRetries : Received(w, ProcessMsg(j, i, r))
           \/ \E w \in Worker, r \in 0 .. MaxRetries : Retried(w, j, i, r)
<1> USE DEF TypeOK, BrokerTypeOK
<1>0. \A r \in 0 .. MaxRetries : ProcessMsg(j, i, r) \in Message
  BY MessageFacts
<1>1. ASSUME NEW k \in Job, Dispatch(k)
      PROVE  \A r \in 0 .. MaxRetries :
                queue'[ProcessMsg(j, i, r)] = queue[ProcessMsg(j, i, r)]
  BY <1>0, <1>1, MessagesDiffer DEF Dispatch, Put
<1>2. ASSUME NEW w \in Worker, NEW m \in Message, Received(w, m),
             \A r \in 0 .. MaxRetries : ~Received(w, ProcessMsg(j, i, r))
      PROVE  \A r \in 0 .. MaxRetries :
                queue'[ProcessMsg(j, i, r)] = queue[ProcessMsg(j, i, r)]
  <2>1. \A r \in 0 .. MaxRetries : m # ProcessMsg(j, i, r)
    BY <1>2
  <2> QED
    BY <1>0, <1>2, <2>1 DEF Received
<1>3. ASSUME NEW w \in Worker, NEW k \in Job, NEW l \in Image, Published(w, k, l),
             ~Published(w, j, i)
      PROVE  \A r \in 0 .. MaxRetries :
                queue'[ProcessMsg(j, i, r)] = queue[ProcessMsg(j, i, r)]
  <2>1. \A r \in 0 .. MaxRetries : ProcessMsg(k, l, 0) # ProcessMsg(j, i, r)
    BY <1>3, MessagesDiffer
  <2> QED
    BY <1>0, <1>3, <2>1 DEF Published
<1>4. ASSUME NEW w \in Worker, NEW k \in Job, NEW l \in Image, NEW s \in 0 .. MaxRetries,
             Retried(w, k, l, s), ~Retried(w, j, i, s)
      PROVE  \A r \in 0 .. MaxRetries :
                queue'[ProcessMsg(j, i, r)] = queue[ProcessMsg(j, i, r)]
  <2>1. \A r \in 0 .. MaxRetries : ProcessMsg(k, l, s + 1) # ProcessMsg(j, i, r)
    BY <1>4, MessagesDiffer
  <2> QED
    BY <1>0, <1>4, <2>1 DEF Retried
<1> QED
  BY <1>1, <1>2, <1>3, <1>4, WhoWritesQueue

(* Publishing takes a task from the fan-out to the queue.                  *)
LEMMA PublishedMoves ==
    ASSUME TypeOK, TypeOK', FanoutOnce, [Next]_vars, OnlyDispatched,
           NEW j \in Job, NEW i \in Image, OnePlace(j, i),
           NEW w \in Worker, Published(w, j, i)
    PROVE  /\ Unpublished(j, i) /\ ~Unpublished(j, i)'
           /\ OnePlace(j, i)'
<1>0. /\ \A r \in 0 .. MaxRetries :
            /\ ProcessMsg(j, i, r) \in Message
            /\ queue[ProcessMsg(j, i, r)] \in Nat
      /\ EnqueueMsg(j) \in Message /\ EnqueueMsg(j).job = j
      /\ 0 \in 0 .. MaxRetries
  BY MessageFacts, BoundsAssumption DEF TypeOK, BrokerTypeOK
<1>1. Unpublished(j, i)
  BY DEF Published, Unpublished
<1>2. ~Waiting(j, i) /\ \A v \in Worker : ~HeldBy(v, j, i)
  BY <1>1 DEF OnePlace
<1>3. FanningOut(w, j) /\ pc[w] = "fanout" /\ req[j] = "dispatched"
  BY <1>0 DEF Published, FanningOut, OnlyDispatched
<1>4. queue[EnqueueMsg(j)] = 0 /\ \A v \in Worker : FanningOut(v, j) => v = w
  BY <1>3 DEF FanoutOnce
<1>5. ~Unpublished(j, i)'
  <2>1. req'[j] = "dispatched" /\ UNCHANGED <<pc, msg>>
    BY <1>3 DEF Published
  <2>2. queue'[EnqueueMsg(j)] = 0
    BY <1>0, <1>4, MessagesDiffer DEF Published, TypeOK, BrokerTypeOK
  <2>3. \A v \in Worker : FanningOut(v, j)' => v = w
    BY <1>4, <2>1 DEF FanningOut
  <2>4. pc'[w] = "fanout" /\ i \notin todo'[w]
    BY <1>3, <2>1 DEF Published, TypeOK, WorkerTypeOK
  <2> QED
    BY <2>1, <2>2, <2>3, <2>4 DEF Unpublished
<1>6. \A v \in Worker : ~HeldBy(v, j, i)'
  BY <1>2 DEF Published, HeldBy
<1>7. \A r \in 0 .. MaxRetries : queue[ProcessMsg(j, i, r)] = 0
  BY <1>0, <1>2 DEF Waiting
<1>8. \A r \in 0 .. MaxRetries : queue'[ProcessMsg(j, i, r)] = IF r = 0 THEN 1 ELSE 0
  BY <1>0, <1>7, MessagesDiffer DEF Published, TypeOK, BrokerTypeOK
<1> QED
  BY <1>1, <1>5, <1>6, <1>8 DEF OnePlace

(* Receiving takes it from the queue to a worker.                          *)
LEMMA ReceivedMoves ==
    ASSUME TypeOK, TypeOK', [Next]_vars, MaxRedeliveries = 0,
           NEW j \in Job, NEW i \in Image, OnePlace(j, i),
           NEW w \in Worker, NEW r \in 0 .. MaxRetries, Received(w, ProcessMsg(j, i, r))
    PROVE  /\ Waiting(j, i) /\ ~Unpublished(j, i)'
           /\ OnePlace(j, i)'
<1>0. /\ \A s \in 0 .. MaxRetries :
            /\ ProcessMsg(j, i, s) \in Message
            /\ queue[ProcessMsg(j, i, s)] \in Nat
  BY MessageFacts DEF TypeOK, BrokerTypeOK
<1>1. Waiting(j, i)
  BY DEF Received, Waiting
<1>2. ~Unpublished(j, i)' /\ \A v \in Worker : ~HeldBy(v, j, i)
  BY <1>1, PublishedStays DEF OnePlace
<1>3. \A v \in Worker : v # w => pc'[v] = pc[v] /\ msg'[v] = msg[v]
  BY <1>0, OneReceives
<1>4. \A v \in Worker : HeldBy(v, j, i)' => v = w
  BY <1>2, <1>3 DEF HeldBy
<1>5. \A s \in 0 .. MaxRetries : queue'[ProcessMsg(j, i, s)] = 0
  <2>1. queue[ProcessMsg(j, i, r)] > 0
    BY DEF Received
  <2>2. queue[ProcessMsg(j, i, r)] = 1
        /\ \A s \in 0 .. MaxRetries : s # r => queue[ProcessMsg(j, i, s)] = 0
    BY <1>0, <2>1 DEF OnePlace
  <2> QED
    BY <1>0, <2>2, MessagesDiffer DEF Received, TypeOK, BrokerTypeOK
<1>6. ~Waiting(j, i)'
  BY <1>5 DEF Waiting
<1> QED
  BY <1>1, <1>2, <1>4, <1>5, <1>6 DEF OnePlace

(* A retry takes it from its worker back to the queue.                     *)
LEMMA RetriedMoves ==
    ASSUME TypeOK, TypeOK', [Next]_vars, MaxRedeliveries = 0,
           NEW j \in Job, NEW i \in Image, OnePlace(j, i),
           NEW w \in Worker, NEW r \in 0 .. MaxRetries, Retried(w, j, i, r)
    PROVE  /\ HeldBy(w, j, i) /\ ~Unpublished(j, i)'
           /\ OnePlace(j, i)'
<1>0. /\ \A s \in 0 .. MaxRetries :
            /\ ProcessMsg(j, i, s) \in Message
            /\ queue[ProcessMsg(j, i, s)] \in Nat
      /\ r + 1 \in 0 .. MaxRetries
  BY MessageFacts DEF TypeOK, BrokerTypeOK, Retried
<1>1. HeldBy(w, j, i)
  BY DEF Retried, HeldBy
<1>2. /\ ~Unpublished(j, i) /\ ~Waiting(j, i)
      /\ \A v \in Worker : HeldBy(v, j, i) => v = w
  BY <1>1 DEF OnePlace
<1>3. ~Unpublished(j, i)'
  BY <1>2, PublishedStays
<1>4. \A v \in Worker : ~HeldBy(v, j, i)'
  <2>1. pc'[w] = "ack"
    BY DEF Retried, TypeOK, WorkerTypeOK
  <2>2. \A v \in Worker : v # w => pc'[v] = pc[v] /\ msg'[v] = msg[v]
    BY DEF Retried, TypeOK, WorkerTypeOK
  <2> QED
    BY <1>2, <2>1, <2>2 DEF HeldBy
<1>5. \A s \in 0 .. MaxRetries : queue[ProcessMsg(j, i, s)] = 0
  BY <1>0, <1>2 DEF Waiting
<1>6. \A s \in 0 .. MaxRetries :
         queue'[ProcessMsg(j, i, s)] = IF s = r + 1 THEN 1 ELSE 0
  <2>1. \A s \in 0 .. MaxRetries : s # r + 1 =>
            ProcessMsg(j, i, s) # ProcessMsg(j, i, r + 1)
    BY MessagesDiffer
  <2> QED
    BY <1>0, <1>5, <2>1 DEF Retried, TypeOK, BrokerTypeOK
<1> QED
  BY <1>1, <1>3, <1>4, <1>6 DEF OnePlace

(* Every other step leaves it where it is, or takes it away.               *)
LEMMA OthersMoveNothing ==
    ASSUME TypeOK, TypeOK', [Next]_vars, MaxRedeliveries = 0,
           NEW j \in Job, NEW i \in Image, OnePlace(j, i),
           \A r \in 0 .. MaxRetries :
              queue'[ProcessMsg(j, i, r)] = queue[ProcessMsg(j, i, r)]
    PROVE  /\ Waiting(j, i)' => Waiting(j, i)
           /\ \A w \in Worker : HeldBy(w, j, i)' => HeldBy(w, j, i)
           /\ OnePlace(j, i)'
<1>0. \A s \in 0 .. MaxRetries :
            /\ ProcessMsg(j, i, s) \in Message
            /\ queue[ProcessMsg(j, i, s)] \in Nat
  BY MessageFacts DEF TypeOK, BrokerTypeOK
<1>1. Waiting(j, i)' => Waiting(j, i)
  BY DEF Waiting
<1>2. Unpublished(j, i)' => Unpublished(j, i)
  BY PublishedStays
<1>3. \A w \in Worker, r \in 0 .. MaxRetries : ~Received(w, ProcessMsg(j, i, r))
  BY <1>0 DEF Received, TypeOK, BrokerTypeOK
<1>4. \A w \in Worker : HeldBy(w, j, i)' => HeldBy(w, j, i)
  BY <1>3, HowToHold
<1> QED
  BY <1>1, <1>2, <1>4 DEF OnePlace

(* Every step keeps every task in one place.                               *)
LEMMA TaskStep ==
    ASSUME TypeOK, TypeOK', OnlyDispatched, FanoutOnce, TaskOnce, [Next]_vars,
           MaxRedeliveries = 0
    PROVE  TaskOnce'
<1> SUFFICES ASSUME NEW j \in Job, NEW i \in Image
             PROVE  OnePlace(j, i)'
  BY DEF TaskOnce
<1>1. OnePlace(j, i)
  BY DEF TaskOnce
<1> QED
  BY <1>1, TaskQueue, PublishedMoves, ReceivedMoves, RetriedMoves, OthersMoveNothing

(* A COMPLETED job has published a task: the one whose commit completed it.*)
LEMMA StartedStep ==
    ASSUME TypeOK, TaskOnce, CompletedIsStarted, [Next]_vars, MaxRedeliveries = 0
    PROVE  CompletedIsStarted'
<1> SUFFICES ASSUME NEW j \in Job, jobs'[j].status = "completed"
             PROVE  \E i \in Image : ~Unpublished(j, i)'
  BY DEF CompletedIsStarted
<1>1. ASSUME NEW i \in Image, ~Unpublished(j, i)
      PROVE  ~Unpublished(j, i)'
  BY <1>1, PublishedStays
<1>2. CASE jobs'[j] = jobs[j]
  BY <1>1, <1>2 DEF CompletedIsStarted
<1>3. CASE DeleteDataset \/ CommitJob(j)
  BY <1>3 DEF DeleteDataset, CommitJob, NoJobRow, NewJobRow, TypeOK, DbTypeOK
<1>4. ASSUME NEW w \in Worker, Inserts(w), msg[w].job = j
      PROVE  \E i \in Image : ~Unpublished(j, i)'
  <2>1. pc[w] = "commit" /\ msg[w].image \in Image /\ msg[w] \in ProcessMessage
    BY <1>4, InsertFacts DEF TypeOK, WorkerTypeOK
  <2>2. HeldBy(w, j, msg[w].image)
    BY <1>4, <2>1, MessageFacts DEF HeldBy
  <2>3. ~Unpublished(j, msg[w].image)
    BY <2>1, <2>2 DEF TaskOnce, OnePlace
  <2> QED
    BY <1>1, <2>1, <2>3
<1> QED
  BY <1>2, <1>3, <1>4, WhoWritesJobs

OnceInv == FanoutOnce /\ TaskOnce /\ CompletedIsStarted

(* Without redelivery every task is in one place, under any number of      *)
(* failures and refused publishes, cancellations and deletions.            *)
LEMMA OnceInvariant ==
    ASSUME MaxRedeliveries = 0
    PROVE  Spec => []OnceInv
<1>1. Init => OnceInv
  <2> SUFFICES ASSUME Init PROVE OnceInv
    OBVIOUS
  <2>1. /\ \A j \in Job : queue[EnqueueMsg(j)] = 0
        /\ \A j \in Job, i \in Image, r \in 0 .. MaxRetries : queue[ProcessMsg(j, i, r)] = 0
    BY MessageFacts DEF Init
  <2>2. /\ \A w \in Worker, j \in Job : ~FanningOut(w, j)
        /\ \A w \in Worker, j \in Job, i \in Image : ~HeldBy(w, j, i)
    BY DEF Init, FanningOut, HeldBy
  <2>3. \A j \in Job, i \in Image : ~Waiting(j, i)
    BY <2>1 DEF Waiting
  <2>4. FanoutOnce
    BY <2>1, <2>2 DEF FanoutOnce
  <2>5. TaskOnce
    BY <2>1, <2>2, <2>3 DEF TaskOnce, OnePlace
  <2>6. CompletedIsStarted
    BY DEF Init, CompletedIsStarted, NoJobRow
  <2> QED
    BY <2>4, <2>5, <2>6 DEF OnceInv
<1>2. TypeOK /\ TypeOK' /\ CounterInv /\ OnceInv /\ [Next]_vars => OnceInv'
  BY FanoutStep, TaskStep, StartedStep DEF OnceInv, CounterInv
<1> QED
  BY <1>1, <1>2, TypeCorrect, CounterInvariant, PTL DEF Spec

(* A COMPLETED job is given another status by a fan-out or a cancellation. *)
LEMMA WhoReopens ==
    ASSUME TypeOK, [Next]_vars, NEW j \in Job, jobs[j].status = "completed",
           jobs'[j].status \notin {"completed", "absent"}
    PROVE  \/ CommitJob(j)
           \/ CommitCancel(j)
           \/ \E w \in Worker : FanningOut(w, j) /\ pc[w] = "update"
<1> USE DEF TypeOK, DbTypeOK
<1>0. jobs[j] \in JobRow
  OBVIOUS
<1>1. CASE UNCHANGED vars \/ DeleteDataset
  BY <1>1 DEF vars, dbVars, DeleteDataset, NoJobRow
<1>2. ASSUME NEW k \in Job, Client(k)
      PROVE  CommitJob(j) \/ CommitCancel(j)
  BY <1>2 DEF Client, SelectPending, CommitJob, CommitJobFails, Dispatch, DispatchFails,
     LoadForCancel, CommitCancel, dbVars
<1>3. ASSUME NEW w \in Worker, MarkRunning(w)
      PROVE  FanningOut(w, j) /\ pc[w] = "update"
  <2>1. pc[w] = "update"
    BY <1>3 DEF MarkRunning, Goto
  <2>2. msg[w].job = j
    BY <1>0, <1>3 DEF MarkRunning
  <2> QED
    BY <2>1, <2>2, FanoutMessage DEF FanningOut
<1>4. ASSUME NEW w \in Worker, Inserts(w)
      PROVE  FALSE
  <2>1. jobs' = [jobs EXCEPT ![msg[w].job] = BumpJob(@, seen[w], 1, 0)]
    BY <1>4, InsertFacts DEF CommitEffect
  <2> QED
    BY <1>0, <2>1 DEF BumpJob
<1>5. ASSUME NEW w \in Worker, WorkerStep(w), ~MarkRunning(w), ~Inserts(w)
      PROVE  UNCHANGED jobs
  BY <1>5, GiveUpCountsNothing DEF WorkerStep, Receive, Ack, Publish, FanoutDone, Load,
     LoadMissing, ReadVersion, UpdateImage, CommitRejected, Retry, Inserts, dbVars
<1>6. ASSUME NEW w \in Worker, Fault(w), ~Inserts(w)
      PROVE  UNCHANGED jobs
  BY <1>6 DEF Fault, Crash, VisibilityTimeout, EnqueueFails, TaskRaises,
     RetryRejected, Inserts, dbVars
<1> QED
  BY <1>1, <1>2, <1>3, <1>4, <1>5, <1>6 DEF Next

(* As long as no message is redelivered, no worker takes COMPLETED back,   *)
(* under any failures, refused publishes, cancellations, deletion and      *)
(* number of workers: the fan-out's RUNNING comes before the first task,   *)
(* and a bump on a stale read writes no status but COMPLETED               *)
(* (tasks.py:44-52, 149-151).                                              *)
THEOREM CompletionIsNotRevived ==
    ASSUME MaxRedeliveries = 0
    PROVE  Spec => CompletedIsNotRevived
<1>1. TypeOK /\ OnceInv /\ [Next]_vars =>
        [\A j \in Job : jobs[j].status = "completed" =>
            jobs'[j].status \notin {"queued", "running"}]_vars
  <2> SUFFICES ASSUME TypeOK, OnceInv, [Next]_vars,
                      NEW j \in Job, jobs[j].status = "completed",
                      jobs'[j].status \in {"queued", "running"}
               PROVE  FALSE
    OBVIOUS
  <2>1. PICK i \in Image : ~Unpublished(j, i)
    BY DEF OnceInv, CompletedIsStarted
  <2>2. ~CommitJob(j)
    BY <2>1 DEF CommitJob, Unpublished
  <2>3. jobs \in [Job -> JobRow]
    BY DEF TypeOK, DbTypeOK
  <2>4. ~CommitCancel(j)
    BY <2>3 DEF CommitCancel, JobRow
  <2>5. ASSUME NEW w \in Worker, FanningOut(w, j), pc[w] = "update"
        PROVE  FALSE
    BY <2>1, <2>5 DEF Unpublished
  <2>6. jobs'[j].status \notin {"completed", "absent"}
    OBVIOUS
  <2> QED
    BY <2>2, <2>4, <2>5, <2>6, WhoReopens
<1> QED
  BY <1>1, TypeCorrect, OnceInvariant, PTL DEF Spec, CompletedIsNotRevived

-----------------------------------------------------------------------------
(* Without redelivery or failure, one annotation per task.                 *)

(* Without failures a commit is known to its worker.                       *)
LEMMA InsertsAcknowledged ==
    ASSUME TypeOK, MaxFailures = 0, NEW w \in Worker, Inserts(w)
    PROVE  /\ pc'[w] = "ack"
           /\ UNCHANGED queue
           /\ HeldBy(w, msg[w].job, msg[w].image)
<1>1. ~CommitUnacknowledged(w)
  BY DEF CommitUnacknowledged, TypeOK, FaultTypeOK
<1>2. pc'[w] = "ack" /\ UNCHANGED queue
  BY <1>1 DEF Inserts, Commit, Goto, brokerVars, TypeOK, WorkerTypeOK
<1>3. pc[w] = "commit" /\ msg[w] \in ProcessMessage
  BY InsertFacts DEF TypeOK, WorkerTypeOK
<1> QED
  BY <1>2, <1>3, MessageFacts DEF HeldBy

(* A task is annotated by the commit of a worker that holds it.            *)
LEMMA HowToAnnotate ==
    ASSUME TypeOK, [Next]_vars, NEW j \in Job, NEW i \in Image, Annotated(j, i)'
    PROVE  \/ Annotated(j, i)
           \/ \E w \in Worker : Inserts(w) /\ msg[w].job = j /\ msg[w].image = i
<1>1. CASE UNCHANGED annotations
  BY <1>1 DEF Annotated
<1>2. CASE DeleteDataset
  BY <1>2 DEF DeleteDataset, Annotated
<1>3. CASE \E w \in Worker : Inserts(w)
  <2>1. PICK w \in Worker : Inserts(w)
    BY <1>3
  <2>2. annotations' = Insert(annotations, msg[w].image, ver[w], msg[w].job)
    BY <2>1, InsertFacts
  <2> QED
    BY <2>1, <2>2 DEF Annotated, Insert
<1> QED
  BY <1>1, <1>2, <1>3, WhoWritesAnnotations

(* An annotated task does not come back: nobody publishes, receives or     *)
(* retries it, and the worker that commits it lets it go.                  *)
LEMMA DoneStep ==
    ASSUME TypeOK, TypeOK', FanoutOnce, TaskOnce, AnnotatedIsDone, [Next]_vars,
           MaxRedeliveries = 0, MaxFailures = 0
    PROVE  AnnotatedIsDone'
<1> SUFFICES ASSUME NEW j \in Job, NEW i \in Image, Annotated(j, i)'
             PROVE  /\ ~Unpublished(j, i)' /\ ~Waiting(j, i)'
                    /\ \A v \in Worker : ~HeldBy(v, j, i)'
  BY DEF AnnotatedIsDone
<1>0. OnePlace(j, i)
  BY DEF TaskOnce
<1>1. CASE Annotated(j, i)
  <2>1. /\ ~Unpublished(j, i) /\ ~Waiting(j, i)
        /\ \A w \in Worker : ~HeldBy(w, j, i)
    BY <1>1 DEF AnnotatedIsDone
  <2>2. \A w \in Worker : ~Published(w, j, i)
    BY <2>1 DEF Published, Unpublished
  <2>3. \A w \in Worker, r \in 0 .. MaxRetries : ~Received(w, ProcessMsg(j, i, r))
    BY <2>1 DEF Received, Waiting
  <2>4. \A w \in Worker, r \in 0 .. MaxRetries : ~Retried(w, j, i, r)
    BY <2>1 DEF Retried, HeldBy
  <2>5. \A r \in 0 .. MaxRetries :
           queue'[ProcessMsg(j, i, r)] = queue[ProcessMsg(j, i, r)]
    BY <2>2, <2>3, <2>4, TaskQueue
  <2> QED
    BY <1>0, <2>1, <2>5, OthersMoveNothing, PublishedStays
<1>2. ASSUME NEW w \in Worker, Inserts(w), msg[w].job = j, msg[w].image = i
      PROVE  /\ ~Unpublished(j, i)' /\ ~Waiting(j, i)'
             /\ \A v \in Worker : ~HeldBy(v, j, i)'
  <2>1. pc'[w] = "ack" /\ UNCHANGED queue /\ HeldBy(w, j, i)
    BY <1>2, InsertsAcknowledged
  <2>2. /\ ~Unpublished(j, i) /\ ~Waiting(j, i)
        /\ \A v \in Worker : HeldBy(v, j, i) => v = w
    BY <1>0, <2>1 DEF OnePlace
  <2>3. /\ Waiting(j, i)' => Waiting(j, i)
        /\ \A v \in Worker : HeldBy(v, j, i)' => HeldBy(v, j, i)
    BY <1>0, <2>1, OthersMoveNothing
  <2>4. ~HeldBy(w, j, i)'
    BY <2>1 DEF HeldBy
  <2> QED
    BY <2>2, <2>3, <2>4, PublishedStays
<1> QED
  BY <1>1, <1>2, HowToAnnotate

(* No step adds a second row of a task.                                    *)
LEMMA DuplicatesStep ==
    ASSUME TypeOK, AnnotatedIsDone, NoDuplicateAnnotations, [Next]_vars, MaxFailures = 0
    PROVE  NoDuplicateAnnotations'
<1>1. CASE UNCHANGED annotations
  BY <1>1 DEF NoDuplicateAnnotations
<1>2. CASE DeleteDataset
  BY <1>2 DEF DeleteDataset, NoDuplicateAnnotations
<1>3. ASSUME NEW w \in Worker, Inserts(w)
      PROVE  NoDuplicateAnnotations'
  <2>1. /\ msg[w].job \in Job /\ msg[w].image \in Image
        /\ annotations' = Insert(annotations, msg[w].image, ver[w], msg[w].job)
    BY <1>3, InsertFacts
  <2>2. ~Annotated(msg[w].job, msg[w].image)
    BY <1>3, <2>1, InsertsAcknowledged DEF AnnotatedIsDone
  <2> QED
    BY <2>1, <2>2 DEF NoDuplicateAnnotations, Annotated, Insert
<1> QED
  BY <1>1, <1>2, <1>3, WhoWritesAnnotations

DoneInv == AnnotatedIsDone /\ NoDuplicateAnnotations

(* Without redelivery or failure, an annotated task is nowhere else and    *)
(* has one row.                                                            *)
LEMMA DoneInvariant ==
    ASSUME MaxRedeliveries = 0, MaxFailures = 0
    PROVE  Spec => []DoneInv
<1>1. Init => DoneInv
  BY DEF Init, DoneInv, AnnotatedIsDone, Annotated, NoDuplicateAnnotations
<1>2. TypeOK /\ TypeOK' /\ OnceInv /\ DoneInv /\ [Next]_vars => DoneInv'
  BY DoneStep, DuplicatesStep DEF DoneInv, OnceInv
<1>3. Spec => []OnceInv
  BY OnceInvariant
<1> QED
  BY <1>1, <1>2, <1>3, TypeCorrect, PTL DEF Spec

(* One annotation per task key (job_id, image_id), as long as no message   *)
(* is redelivered and no task fails, for any number of workers and jobs    *)
(* and with refused publishes, cancellations and deletions                 *)
(* (ARCHITECTURE.md:140, tasks.py:3-4).                                    *)
THEOREM NoDuplicates ==
    ASSUME MaxRedeliveries = 0, MaxFailures = 0
    PROVE  Spec => []NoDuplicateAnnotations
<1>1. Spec => []DoneInv
  BY DoneInvariant
<1> QED
  BY <1>1, PTL DEF DoneInv

-----------------------------------------------------------------------------
(* Rows and messages stay within the job's selection.                      *)

(* Message m waits, or a worker holds it, the task finished or not.        *)
InFlight(m) == queue[m] > 0 \/ \E w \in Worker : pc[w] # "idle" /\ msg[w] = m

(* A process_image message was in flight, or retries one that was, or is   *)
(* published by a worker at the fan-out.                                   *)
LEMMA WhereTasksComeFrom ==
    ASSUME TypeOK, [Next]_vars, NEW m \in ProcessMessage, InFlight(m)'
    PROVE  \/ \E n \in ProcessMessage : InFlight(n) /\ n.job = m.job /\ n.image = m.image
           \/ \E w \in Worker :
                 pc[w] = "fanout" /\ msg[w].job = m.job /\ m.image \in todo[w]
<1> DEFINE Held(v) == pc[v] # "idle" /\ msg[v] = m
           Same == \E n \in ProcessMessage : InFlight(n) /\ n.job = m.job /\ n.image = m.image
           FannedOut == \E w \in Worker :
                 pc[w] = "fanout" /\ msg[w].job = m.job /\ m.image \in todo[w]
<1> USE DEF TypeOK, BrokerTypeOK, WorkerTypeOK
<1>0. m \in Message /\ m.name # "enqueue_job" /\ InFlight(m)' <=>
         (queue'[m] > 0 \/ \E w \in Worker : Held(w)')
  BY MessageFacts DEF InFlight
<1>1. ASSUME queue[m] > 0 \/ \E v \in Worker : Held(v)
      PROVE  Same
  BY <1>1 DEF InFlight
<1>2. ASSUME UNCHANGED queue, UNCHANGED <<pc, msg>>
      PROVE  Same
  BY <1>1, <1>2 DEF InFlight
<1>3. CASE UNCHANGED vars \/ DeleteDataset
  BY <1>2, <1>3 DEF vars, DeleteDataset, brokerVars, workerVars
<1>4. ASSUME NEW k \in Job, Client(k), ~Dispatch(k)
      PROVE  Same
  BY <1>2, <1>4 DEF Client, SelectPending, CommitJob, CommitJobFails,
     DispatchFails, LoadForCancel, CommitCancel, brokerVars, workerVars
<1>5. ASSUME NEW k \in Job, Dispatch(k)
      PROVE  Same
  <2>1. EnqueueMsg(k) # m /\ EnqueueMsg(k) \in Message
    BY <1>0, MessageFacts DEF EnqueueMsg
  <2>2. queue'[m] = queue[m] /\ UNCHANGED <<pc, msg>>
    BY <1>5, <1>0, <2>1, MessageFacts DEF Dispatch, Put, workerVars
  <2> QED
    BY <1>1, <2>2 DEF InFlight
<1>6. ASSUME NEW w \in Worker, WorkerStep(w) \/ Fault(w)
      PROVE  Same \/ FannedOut
  <2>1. ASSUME queue'[m] > 0
        PROVE  Same \/ FannedOut
    <3>1. CASE Receive(w)
      <4>1. queue[m] > 0
        BY <2>1, <3>1, MessageFacts DEF Receive
      <4> QED
        BY <1>1, <4>1
    <3>2. CASE Publish(w)
      <4>1. PICK i \in todo[w] : Put(ProcessMsg(msg[w].job, i, 0))
        BY <3>2 DEF Publish
      <4>2. CASE m = ProcessMsg(msg[w].job, i, 0)
        BY <3>2, <4>1, <4>2 DEF Publish, ProcessMsg
      <4>3. CASE m # ProcessMsg(msg[w].job, i, 0)
        BY <1>1, <2>1, <4>1, <4>3, MessageFacts DEF Put
      <4> QED
        BY <4>2, <4>3
    <3>3. CASE Retry(w)
      <4> DEFINE n == ProcessMsg(msg[w].job, msg[w].image, msg[w].retries + 1)
      <4>1. Put(n) /\ pc[w] = "except" /\ msg[w] \in ProcessMessage
        BY <3>3 DEF Retry, Goto
      <4>2. CASE m = n
        <5>1. msg[w].job = m.job /\ msg[w].image = m.image
          BY <4>2 DEF ProcessMsg
        <5>2. InFlight(msg[w])
          BY <4>1 DEF InFlight
        <5> QED
          BY <4>1, <5>1, <5>2
      <4>3. CASE m # n
        BY <1>1, <2>1, <4>1, <4>3, MessageFacts DEF Put
      <4> QED
        BY <4>2, <4>3
    <3>4. CASE Crash(w) \/ VisibilityTimeout(w)
      <4>1. pc[w] # "idle" /\ Put(msg[w])
        BY <3>4 DEF Crash, VisibilityTimeout
      <4> QED
        BY <1>1, <2>1, <4>1, MessageFacts DEF Put
    <3>5. CASE ~Receive(w) /\ ~Publish(w) /\ ~Retry(w) /\ ~Crash(w) /\ ~VisibilityTimeout(w)
      <4>1. UNCHANGED queue
        BY <1>6, <3>5 DEF WorkerStep, Ack, MarkRunning, FanoutDone, Load, LoadMissing,
           ReadVersion, UpdateImage, Commit, CommitRejected, GiveUp, Fault,
           EnqueueFails, TaskRaises, CommitUnacknowledged, RetryRejected, brokerVars
      <4> QED
        BY <1>1, <2>1, <4>1
    <3> QED
      BY <3>1, <3>2, <3>3, <3>4, <3>5
  <2>2. ASSUME NEW v \in Worker, Held(v)'
        PROVE  Same
    <3>1. CASE v # w
      BY <1>1, <1>6, <2>2, <3>1, OtherWorkers
    <3>2. CASE v = w
      <4>1. \/ pc[w] # "idle" /\ msg'[w] = msg[w]
            \/ \E n \in Message : queue[n] > 0 /\ msg'[w] = n
        BY <1>6, <2>2, <3>2 DEF WorkerStep, Receive, Ack, MarkRunning, Publish, FanoutDone,
           Load, LoadMissing, ReadVersion, UpdateImage, Commit, CommitRejected, Retry,
           GiveUp, Fault, Crash, VisibilityTimeout, EnqueueFails, TaskRaises,
           CommitUnacknowledged, RetryRejected, workerVars, Goto, CloseSession, Release
      <4> QED
        BY <1>1, <2>2, <3>2, <4>1
    <3> QED
      BY <3>1, <3>2
  <2> QED
    BY <1>0, <2>1, <2>2 DEF InFlight
<1> QED
  BY <1>3, <1>4, <1>5, <1>6 DEF Next

(* The images a worker has still to publish are those its job selected,    *)
(* from the moment it marks the job RUNNING.                               *)
LEMMA HowToPublish ==
    ASSUME TypeOK, [Next]_vars, NEW v \in Worker, pc'[v] = "fanout"
    PROVE  /\ msg'[v] = msg[v] /\ pc[v] \in {"update", "fanout"}
           /\ \/ pc[v] = "fanout" /\ todo'[v] \subseteq todo[v]
              \/ todo'[v] = selected[msg[v].job]
<1> USE DEF TypeOK, WorkerTypeOK, Goto, Release, CloseSession, workerVars
<1>1. CASE UNCHANGED vars \/ DeleteDataset
  BY <1>1 DEF vars, DeleteDataset
<1>2. ASSUME NEW j \in Job, Client(j)
      PROVE  UNCHANGED workerVars
  BY <1>2 DEF Client, SelectPending, CommitJob, CommitJobFails, Dispatch,
     DispatchFails, LoadForCancel, CommitCancel
<1>3. ASSUME NEW w \in Worker, WorkerStep(w) \/ Fault(w), v # w
      PROVE  pc'[v] = pc[v] /\ msg'[v] = msg[v] /\ todo'[v] = todo[v]
  <2>1. todo'[v] = todo[v]
    BY <1>3 DEF WorkerStep, Receive, Ack, MarkRunning, Publish, FanoutDone, Load,
       LoadMissing, ReadVersion, UpdateImage, Commit, CommitRejected, Retry, GiveUp,
       Fault, Crash, VisibilityTimeout, EnqueueFails, TaskRaises,
       CommitUnacknowledged, RetryRejected
  <2> QED
    BY <1>3, <2>1, OtherWorkers
<1>4. CASE MarkRunning(v)
  BY <1>4 DEF MarkRunning
<1>5. CASE Publish(v) \/ VisibilityTimeout(v)
  BY <1>5 DEF Publish, VisibilityTimeout
<1>6. CASE WorkerStep(v) /\ ~MarkRunning(v) /\ ~Publish(v)
  BY <1>6 DEF WorkerStep, Receive, Ack, FanoutDone, Load, LoadMissing, ReadVersion,
     UpdateImage, Commit, CommitRejected, Retry, GiveUp
<1>7. CASE Fault(v) /\ ~VisibilityTimeout(v)
  BY <1>7 DEF Fault, Crash, EnqueueFails, TaskRaises, CommitUnacknowledged,
     RetryRejected
<1> QED
  BY <1>1, <1>2, <1>3, <1>4, <1>5, <1>6, <1>7 DEF Next

(* Every step keeps rows and messages within the selection.                *)
LEMMA SelectedStep ==
    ASSUME TypeOK, CounterInv, SelectedOnly, [Next]_vars
    PROVE  SelectedOnly'
<1>1. ASSUME NEW j \in Job, jobs'[j].status # "absent"
      PROVE  /\ req'[j] \notin {"none", "selected"}
             /\ jobs'[j].total = Cardinality(selected'[j])
  <2>1. CASE CommitJob(j)
    BY <2>1 DEF CommitJob, NewJobRow, TypeOK, DbTypeOK, ApiTypeOK
  <2>2. CASE DeleteDataset
    BY <1>1, <2>2 DEF DeleteDataset, NoJobRow
  <2>3. CASE jobs[j].status # "absent" /\ jobs'[j].total = jobs[j].total
    BY <2>3, RequestsAdvance DEF SelectedOnly
  <2>4. ASSUME NEW w \in Worker, Inserts(w), msg[w].job = j
        PROVE  jobs[j].status # "absent" /\ jobs'[j].total = jobs[j].total
    <3>1. /\ jobs[j].status # "absent"
          /\ jobs'[j] = BumpJob(jobs[j], seen[w], 1, 0)
      BY <2>4, BumpFacts DEF CounterInv
    <3> QED
      BY <3>1 DEF BumpJob
  <2> QED
    BY <1>1, <2>1, <2>2, <2>3, <2>4, WhoWritesJobs
<1>2. ASSUME NEW j \in Job, NEW i, req[j] = "dispatched" /\ i \in selected[j]
      PROVE  req'[j] = "dispatched" /\ i \in selected'[j]
  BY <1>2, RequestsAdvance
<1>3. ASSUME NEW row \in annotations'
      PROVE  req'[row.job] = "dispatched" /\ row.image \in selected'[row.job]
  <2>1. ASSUME row \in annotations
        PROVE  /\ row.job \in Job
               /\ req[row.job] = "dispatched" /\ row.image \in selected[row.job]
    BY <2>1 DEF SelectedOnly, TypeOK, DbTypeOK, Annotation
  <2>2. ASSUME NEW w \in Worker, Inserts(w), row \notin annotations
        PROVE  /\ row.job \in Job
               /\ req[row.job] = "dispatched" /\ row.image \in selected[row.job]
    <3>1. /\ row.image = msg[w].image /\ row.job = msg[w].job
          /\ msg[w].job \in Job /\ pc[w] = "commit"
      BY <1>3, <2>2, InsertFacts DEF Insert
    <3>2. msg[w] \in ProcessMessage
      BY <3>1 DEF TypeOK, WorkerTypeOK
    <3> QED
      BY <3>1, <3>2 DEF SelectedOnly, CounterInv, OnlyDispatched
  <2>3. row \in annotations \/ \E w \in Worker : Inserts(w)
    BY <1>3, WhoWritesAnnotations DEF DeleteDataset
  <2>4. /\ row.job \in Job
        /\ req[row.job] = "dispatched" /\ row.image \in selected[row.job]
    BY <2>1, <2>2, <2>3
  <2> QED
    BY <1>2, <2>4
<1>4. ASSUME NEW m \in ProcessMessage, InFlight(m)'
      PROVE  m.image \in selected'[m.job]
  <2>0. m.job \in Job
    BY MessageFacts
  <2>1. ASSUME NEW n \in ProcessMessage, InFlight(n), n.job = m.job, n.image = m.image
        PROVE  req[m.job] = "dispatched" /\ m.image \in selected[m.job]
    <3>1. n \in Message
      BY MessageFacts
    <3> QED
      BY <2>1, <3>1 DEF InFlight, SelectedOnly, CounterInv, OnlyDispatched
  <2>2. ASSUME NEW w \in Worker, pc[w] = "fanout", msg[w].job = m.job, m.image \in todo[w]
        PROVE  req[m.job] = "dispatched" /\ m.image \in selected[m.job]
    BY <2>2 DEF SelectedOnly, CounterInv, OnlyDispatched
  <2>3. req[m.job] = "dispatched" /\ m.image \in selected[m.job]
    BY <1>4, <2>1, <2>2, WhereTasksComeFrom
  <2> QED
    BY <1>2, <2>0, <2>3
<1>5. ASSUME NEW w \in Worker, pc'[w] = "fanout"
      PROVE  todo'[w] \subseteq selected'[msg'[w].job]
  <2>1. /\ msg'[w] = msg[w] /\ pc[w] \in {"update", "fanout"}
        /\ todo'[w] \subseteq selected[msg[w].job]
    BY <1>5, HowToPublish DEF SelectedOnly
  <2>2. msg[w].job \in Job /\ req[msg[w].job] = "dispatched"
    BY <2>1, FanoutMessage DEF CounterInv, OnlyDispatched
  <2> QED
    BY <1>2, <2>1, <2>2
<1> QED
  BY <1>1, <1>3, <1>4, <1>5 DEF SelectedOnly, InFlight

(* Under any fault, rows and messages of a job are of images it selected.  *)
LEMMA SelectedInvariant == Spec => []SelectedOnly
<1>1. Init => SelectedOnly
  BY MessageFacts DEF Init, SelectedOnly, NoJobRow
<1>2. TypeOK /\ CounterInv /\ SelectedOnly /\ [Next]_vars => SelectedOnly'
  BY SelectedStep
<1> QED
  BY <1>1, <1>2, TypeCorrect, CounterInvariant, PTL DEF Spec

(* A job with as many rows as images it selected, one per image, has a row *)
(* of each of them.                                                        *)
LEMMA OneRowPerImage ==
    ASSUME NEW rows, IsFiniteSet(rows), NEW S, IsFiniteSet(S), NEW j,
           \A r \in JobRows(rows, j) : r.image \in S,
           \A a, b \in JobRows(rows, j) : a.image = b.image => a = b,
           Cardinality(JobRows(rows, j)) >= Cardinality(S)
    PROVE  \A i \in S : \E r \in rows : r.image = i /\ r.job = j
<1> DEFINE R == JobRows(rows, j)
           f == [r \in R |-> r.image]
<1>1. IsFiniteSet(R)
  BY FS_Subset DEF JobRows
<1>2. f \in Injection(R, S)
  BY DEF Injection, IsInjective
<1>3. /\ Cardinality(R) <= Cardinality(S)
      /\ Cardinality(R) = Cardinality(S) <=> f \in Surjection(R, S)
  BY <1>2, FS_Injection
<1>4. Cardinality(R) \in Nat /\ Cardinality(S) \in Nat
  BY <1>1, FS_CardinalityType
<1>5. f \in Surjection(R, S)
  BY <1>3, <1>4
<1>6. \A i \in S : \E r \in R : f[r] = i
  BY <1>5 DEF Surjection
<1> QED
  BY <1>6 DEF JobRows

(* COMPLETED means that every image the job selected has its annotation,   *)
(* as long as no message is redelivered and no task fails: the total       *)
(* counts the selected images, the rows are no fewer, and no two are of    *)
(* one image (tasks.py:149-150).                                           *)
THEOREM CompletionIsComplete ==
    ASSUME MaxRedeliveries = 0, MaxFailures = 0
    PROVE  Spec => []CompletedMeansAllAnnotated
<1>1. TypeOK /\ CounterInv /\ SelectedOnly /\ NoDuplicateAnnotations =>
        CompletedMeansAllAnnotated
  <2> SUFFICES ASSUME TypeOK, CounterInv, SelectedOnly, NoDuplicateAnnotations,
                      NEW j \in Job, jobs[j].status = "completed"
               PROVE  \A i \in selected[j] :
                         \E row \in annotations : row.image = i /\ row.job = j
    BY DEF CompletedMeansAllAnnotated
  <2>1. IsFiniteSet(annotations) /\ IsFiniteSet(selected[j])
    BY FiniteAssumption, FS_Subset DEF TypeOK, DbTypeOK, ApiTypeOK
  <2>2. \A r \in JobRows(annotations, j) : r.image \in selected[j]
    BY DEF SelectedOnly, JobRows
  <2>3. \A a, b \in JobRows(annotations, j) : a.image = b.image => a = b
    BY DEF NoDuplicateAnnotations, JobRows
  <2>4. /\ jobs[j].total = Cardinality(selected[j])
        /\ jobs[j].failed = 0
        /\ Cardinality(JobRows(annotations, j)) + jobs[j].failed >= jobs[j].total
    BY DEF SelectedOnly, CounterInv, FailedIsZero, CompletedIsBacked
  <2>5. Cardinality(JobRows(annotations, j)) \in Nat
    BY <2>1, RowCounts
  <2>6. Cardinality(JobRows(annotations, j)) >= Cardinality(selected[j])
    BY <2>4, <2>5
  <2> QED
    BY <2>1, <2>2, <2>3, <2>6, OneRowPerImage
<1>2. Spec => []NoDuplicateAnnotations
  BY NoDuplicates
<1> QED
  BY <1>1, <1>2, TypeCorrect, CounterInvariant, SelectedInvariant, PTL

-----------------------------------------------------------------------------
(* Collisions.                                                             *)

(* Nothing but the deletion of the dataset removes an image.               *)
LEMMA ImagesStay ==
    ASSUME TypeOK, [Next]_vars, ~DeleteDataset,
           NEW i \in Image, images[i] # "absent"
    PROVE  images'[i] # "absent"
<1> USE DEF TypeOK, DbTypeOK, dbVars
<1>1. ASSUME NEW w \in Worker, Load(w)
      PROVE  images'[i] # "absent"
  BY <1>1 DEF Load
<1>2. ASSUME NEW w \in Worker, Inserts(w)
      PROVE  images'[i] # "absent"
  BY <1>2, InsertFacts DEF CommitEffect
<1>3. ASSUME NEW j \in Job, Client(j)
      PROVE  UNCHANGED images
  BY <1>3 DEF Client, SelectPending, CommitJob, CommitJobFails, Dispatch,
     DispatchFails, LoadForCancel, CommitCancel
<1>4. ASSUME NEW w \in Worker, WorkerStep(w), ~Load(w), ~Inserts(w)
      PROVE  UNCHANGED images
  BY <1>4, GiveUpCountsNothing DEF WorkerStep, Receive, Ack, MarkRunning, Publish,
     FanoutDone, LoadMissing, ReadVersion, UpdateImage, CommitRejected, Retry, Inserts
<1>5. ASSUME NEW w \in Worker, Fault(w), ~Inserts(w)
      PROVE  UNCHANGED images
  BY <1>5 DEF Fault, Crash, VisibilityTimeout, EnqueueFails, TaskRaises,
     RetryRejected, Inserts
<1>6. CASE UNCHANGED vars
  BY <1>6 DEF vars
<1> QED
  BY <1>1, <1>2, <1>3, <1>4, <1>5, <1>6 DEF Next

(* Without deletion images and committed jobs stay.                        *)
LEMMA ExistsStep ==
    ASSUME TypeOK, NothingDeleted, [Next]_vars, ~MayDelete
    PROVE  NothingDeleted'
<1> USE DEF TypeOK, DbTypeOK, ApiTypeOK, dbVars
<1>0. ~DeleteDataset
  BY DEF DeleteDataset
<1>1. ASSUME NEW i \in Image
      PROVE  images'[i] # "absent"
  BY <1>0, ImagesStay DEF NothingDeleted
<1>2. ASSUME NEW j \in Job, req'[j] \in {"committed", "dispatched"}
      PROVE  jobs'[j].status # "absent"
  <2>1. CASE CommitJob(j)
    BY <2>1 DEF CommitJob, NewJobRow
  <2>2. ASSUME ~CommitJob(j)
        PROVE  req[j] \in {"committed", "dispatched"}
    <3>1. ASSUME NEW w \in Worker, WorkerStep(w) \/ Fault(w)
          PROVE  UNCHANGED apiVars
      BY <3>1 DEF WorkerStep, Receive, Ack, MarkRunning, Publish, FanoutDone, Load,
         LoadMissing, ReadVersion, UpdateImage, Commit, CommitRejected, Retry, GiveUp,
         Fault, Crash, VisibilityTimeout, EnqueueFails, TaskRaises,
         CommitUnacknowledged, RetryRejected
    <3>2. ASSUME NEW k \in Job, Client(k)
          PROVE  req[j] \in {"committed", "dispatched"}
      BY <1>2, <2>2, <3>2 DEF Client, SelectPending, CommitJob, CommitJobFails, Dispatch,
         DispatchFails, LoadForCancel, CommitCancel
    <3> QED
      BY <1>0, <1>2, <3>1, <3>2 DEF Next, vars, apiVars
  <2>3. CASE ~CommitJob(j) /\ jobs'[j] = jobs[j]
    BY <2>2, <2>3 DEF NothingDeleted
  <2>4. ASSUME NEW w \in Worker, Inserts(w), msg[w].job = j
        PROVE  jobs'[j].status # "absent"
    <3>1. /\ jobs[j].status # "absent"
          /\ jobs'[j] = BumpJob(jobs[j], seen[w], 1, 0)
      BY <2>4, InsertFacts DEF CommitEffect, InsertAllowed
    <3> QED
      BY <3>1 DEF BumpJob
  <2> QED
    BY <1>0, <2>1, <2>3, <2>4, WhoWritesJobs
<1> QED
  BY <1>1, <1>2 DEF NothingDeleted

(* Without failures or redelivery a worker starts a task it received, gets *)
(* past its first statement, is refused by the unique key, or stays.       *)
LEMMA HowToProcess ==
    ASSUME TypeOK, [Next]_vars, MaxRedeliveries = 0, MaxFailures = 0,
           NEW v \in Worker, pc'[v] \in {"load", "version", "except"}
    PROVE  \/ \E m \in ProcessMessage : Received(v, m) /\ pc'[v] = "load"
           \/ Load(v) /\ pc'[v] = "version"
           \/ CommitRejected(v) /\ pc'[v] = "except"
           \/ pc'[v] = pc[v] /\ msg'[v] = msg[v]
<1> USE DEF TypeOK, WorkerTypeOK, Goto, Release, CloseSession, workerVars
<1>1. CASE UNCHANGED vars \/ DeleteDataset
  BY <1>1 DEF vars, DeleteDataset
<1>2. ASSUME NEW j \in Job, Client(j)
      PROVE  UNCHANGED workerVars
  BY <1>2 DEF Client, SelectPending, CommitJob, CommitJobFails, Dispatch,
     DispatchFails, LoadForCancel, CommitCancel
<1>3. ASSUME NEW w \in Worker, WorkerStep(w) \/ Fault(w), v # w
      PROVE  pc[v] = pc'[v] /\ msg'[v] = msg[v]
  BY <1>3, OtherWorkers
<1>4. CASE Receive(v)
  <2>1. PICK m \in Message : Received(v, m)
    BY <1>4 DEF Receive, Received
  <2>2. m.name # "enqueue_job" /\ pc'[v] = "load"
    BY <2>1 DEF Received
  <2> QED
    BY <2>1, <2>2, MessageFacts
<1>5. CASE Load(v) \/ CommitRejected(v)
  BY <1>5 DEF Load, CommitRejected
<1>6. CASE WorkerStep(v) /\ ~Receive(v) /\ ~Load(v) /\ ~CommitRejected(v)
  BY <1>6 DEF WorkerStep, Ack, MarkRunning, Publish, FanoutDone,
     LoadMissing, ReadVersion, UpdateImage, Commit, Retry, GiveUp
<1>7. CASE Fault(v)
  <2>1. ~Crash(v) /\ ~VisibilityTimeout(v) /\ ~TaskRaises(v) /\ ~CommitUnacknowledged(v)
    BY DEF Crash, VisibilityTimeout, TaskRaises, CommitUnacknowledged, FaultTypeOK
  <2> QED
    BY <1>7, <2>1 DEF Fault, EnqueueFails, RetryRejected
<1> QED
  BY <1>1, <1>2, <1>3, <1>4, <1>5, <1>6, <1>7 DEF Next

(* A worker whose insert is refused had computed a version that is taken:  *)
(* one of the committed ones.                                              *)
LEMMA RefusedIsTaken ==
    ASSUME TypeOK, VersionLineage, CounterInv, NothingDeleted,
           NEW w \in Worker, CommitRejected(w)
    PROVE  /\ pc[w] = "commit"
           /\ ver[w] <= Cardinality(RowsOf(annotations, msg[w].image))
<1>1. pc[w] = "commit" /\ msg[w] \in ProcessMessage
  BY DEF CommitRejected, Goto, TypeOK, WorkerTypeOK
<1>2. msg[w].image \in Image /\ msg[w].job \in Job /\ req[msg[w].job] = "dispatched"
  BY <1>1, MessageFacts DEF CounterInv, OnlyDispatched
<1>3. KeyTaken(annotations, msg[w].image, ver[w])
  BY <1>2 DEF CommitRejected, InsertAllowed, NothingDeleted
<1>4. ver[w] \in VersionsOf(annotations, msg[w].image)
  BY <1>3 DEF KeyTaken, VersionsOf, RowsOf
<1>5. ver[w] \in 1 .. Cardinality(RowsOf(annotations, msg[w].image))
  BY <1>2, <1>4 DEF VersionLineage, LineageComplete
<1> QED
  BY <1>1, <1>5, RowCounts DEF TypeOK, DbTypeOK

(* The retries of the copies in the queue stay backed by rows.             *)
LEMMA QueuedStep ==
    ASSUME TypeOK, TypeOK', RetriesAreBacked, [Next]_vars, ~MayDelete,
           MaxRedeliveries = 0,
           NEW j \in Job, NEW i \in Image, NEW r \in 0 .. MaxRetries,
           queue'[ProcessMsg(j, i, r)] > 0
    PROVE  r <= Cardinality(RowsOf(annotations', i))
<1> DEFINE n == Cardinality(RowsOf(annotations, i))
           q == Cardinality(RowsOf(annotations', i))
<1>1. ~DeleteDataset
  BY DEF DeleteDataset
<1>2. n \in Nat /\ q \in Nat /\ q >= n
  BY <1>1, RowsOnlyGrow
<1>3. ProcessMsg(j, i, r) \in Message
  BY MessageFacts
<1>4. CASE queue[ProcessMsg(j, i, r)] > 0
  <2>1. r <= n
    BY <1>4 DEF RetriesAreBacked
  <2> HIDE DEF n, q
  <2> QED
    BY <1>2, <2>1 DEF q
<1>5. ASSUME NEW w \in Worker, Published(w, j, i), ~(queue[ProcessMsg(j, i, r)] > 0)
      PROVE  r = 0
  <2>1. ProcessMsg(j, i, r) = ProcessMsg(j, i, 0)
    BY <1>3, <1>5 DEF Published, TypeOK, BrokerTypeOK
  <2> QED
    BY <2>1, MessagesDiffer
<1>6. ASSUME NEW w \in Worker, NEW s \in 0 .. MaxRetries, Received(w, ProcessMsg(j, i, s))
      PROVE  queue[ProcessMsg(j, i, r)] > 0
  BY <1>3, <1>6 DEF Received, TypeOK, BrokerTypeOK
<1>7. ASSUME NEW w \in Worker, NEW s \in 0 .. MaxRetries, Retried(w, j, i, s),
             ~(queue[ProcessMsg(j, i, r)] > 0)
      PROVE  r <= n
  <2>1. ProcessMsg(j, i, r) = ProcessMsg(j, i, s + 1)
    BY <1>3, <1>7 DEF Retried, TypeOK, BrokerTypeOK
  <2>2. r = s + 1
    BY <2>1, MessagesDiffer
  <2>3. pc[w] = "except" /\ msg[w].retries = s /\ msg[w].image = i
    BY <1>7, MessageFacts DEF Retried
  <2>4. s < n
    BY <2>3 DEF RetriesAreBacked
  <2> HIDE DEF n
  <2> QED
    BY <1>2, <2>2, <2>4
<1>8. CASE r = 0
  <2> HIDE DEF q
  <2> QED
    BY <1>2, <1>8 DEF q
<1>9. CASE r <= n
  <2> HIDE DEF n, q
  <2> QED
    BY <1>2, <1>9 DEF q
<1> QED
  BY <1>4, <1>5, <1>6, <1>7, <1>8, <1>9, TaskQueue

(* The retries of the tasks that workers hold stay backed by rows.         *)
LEMMA HeldRetriesStep ==
    ASSUME TypeOK, TypeOK', VersionLineage, CounterInv, NothingDeleted,
           RetriesAreBacked, [Next]_vars, ~MayDelete,
           MaxRedeliveries = 0, MaxFailures = 0,
           NEW v \in Worker
    PROVE  LET rows == Cardinality(RowsOf(annotations', msg'[v].image))
           IN  /\ pc'[v] \in {"load", "version"} => msg'[v].retries <= rows
               /\ pc'[v] \in {"bump", "commit"} => msg'[v].retries < ver'[v]
               /\ pc'[v] = "except" => msg'[v].retries < rows
<1> DEFINE i == msg'[v].image
           r == msg'[v].retries
           n == Cardinality(RowsOf(annotations, i))
           q == Cardinality(RowsOf(annotations', i))
<1>1. n \in Nat /\ q \in Nat /\ q >= n
  BY RowsOnlyGrow DEF DeleteDataset
<1>2. pc'[v] \in {"load", "version", "bump", "commit", "except"} =>
        msg'[v] \in ProcessMessage /\ r \in 0 .. MaxRetries
  BY MessageFacts DEF TypeOK, WorkerTypeOK
<1>3. ASSUME pc'[v] \in {"load", "version"}
      PROVE  r <= n
  <2>1. ASSUME NEW m \in ProcessMessage, Received(v, m)
        PROVE  r <= n
    <3>1. msg'[v] = m /\ queue[m] > 0
      BY <2>1 DEF Received, TypeOK, WorkerTypeOK
    <3> QED
      BY <3>1, MessageFacts DEF RetriesAreBacked
  <2>2. CASE Load(v)
    <3>1. pc[v] = "load" /\ msg'[v] = msg[v]
      BY <2>2 DEF Load, Goto
    <3> QED
      BY <3>1 DEF RetriesAreBacked
  <2>3. CASE pc'[v] = pc[v] /\ msg'[v] = msg[v]
    BY <1>3, <2>3 DEF RetriesAreBacked
  <2> QED
    BY <1>3, <2>1, <2>2, <2>3, HowToProcess
<1>4. ASSUME pc'[v] = "except"
      PROVE  r < n
  <2>1. CASE CommitRejected(v)
    <3>1. msg'[v] = msg[v]
      BY <2>1 DEF CommitRejected, CloseSession
    <3>2. pc[v] = "commit" /\ ver[v] <= n
      BY <2>1, <3>1, RefusedIsTaken
    <3>3. r < ver[v]
      BY <3>1, <3>2 DEF RetriesAreBacked
    <3>4. ver[v] \in Nat /\ r \in Nat
      BY <1>2, <1>4, BoundsAssumption DEF TypeOK, WorkerTypeOK
    <3> HIDE DEF n, r
    <3> QED
      BY <1>1, <3>2, <3>3, <3>4
  <2>2. CASE pc'[v] = pc[v] /\ msg'[v] = msg[v]
    BY <1>4, <2>2 DEF RetriesAreBacked
  <2> QED
    BY <1>4, <2>1, <2>2, HowToProcess
<1>5. ASSUME pc'[v] \in {"bump", "commit"}
      PROVE  r < ver'[v]
  <2>1. CASE ReadVersion(v)
    <3>1. pc[v] = "version" /\ msg'[v] = msg[v]
      BY <2>1 DEF ReadVersion, Goto
    <3>2. r <= n
      BY <3>1 DEF RetriesAreBacked
    <3>3. i \in Image
      BY <1>2, <1>5, MessageFacts
    <3>4. ver'[v] = n + 1
      BY <1>1, <2>1, <3>1, <3>3, NextOfCompleteLineage
         DEF ReadVersion, TypeOK, WorkerTypeOK, VersionLineage
    <3>5. r \in Nat
      BY <1>2, <1>5, BoundsAssumption
    <3> HIDE DEF n, r
    <3> QED
      BY <1>1, <3>2, <3>4, <3>5
  <2>2. CASE UpdateImage(v)
    <3>1. pc[v] = "bump" /\ msg'[v] = msg[v] /\ ver'[v] = ver[v]
      BY <2>2 DEF UpdateImage, Goto
    <3> QED
      BY <3>1 DEF RetriesAreBacked
  <2>3. CASE pc[v] = pc'[v] /\ msg'[v] = msg[v] /\ ver'[v] = ver[v]
    BY <1>5, <2>3 DEF RetriesAreBacked
  <2> QED
    BY <1>5, <2>1, <2>2, <2>3, HowToCommit
<1>6. pc'[v] \in {"load", "version"} => r <= q
  <2>1. pc'[v] \in {"load", "version"} => r \in Nat
    BY <1>2, BoundsAssumption
  <2> HIDE DEF n, q, r
  <2> QED
    BY <1>1, <1>3, <2>1
<1>7. pc'[v] = "except" => r < q
  <2>1. pc'[v] = "except" => r \in Nat
    BY <1>2, BoundsAssumption
  <2> HIDE DEF n, q, r
  <2> QED
    BY <1>1, <1>4, <2>1
<1> QED
  BY <1>5, <1>6, <1>7

CollisionInv == NothingDeleted /\ RetriesAreBacked

(* As long as nothing fails, a task was retried at most as often as other  *)
(* jobs annotated its image.                                               *)
LEMMA CollisionInvariant ==
    ASSUME MaxRedeliveries = 0, MaxFailures = 0, ~MayDelete
    PROVE  Spec => []CollisionInv
<1>1. Init => CollisionInv
  BY MessageFacts DEF Init, CollisionInv, NothingDeleted, RetriesAreBacked
<1>2. LineageInv /\ LineageInv' /\ CounterInv /\ CollisionInv /\ [Next]_vars =>
        CollisionInv'
  <2> SUFFICES ASSUME TypeOK, TypeOK', VersionLineage, CounterInv, NothingDeleted,
                      RetriesAreBacked, [Next]_vars
               PROVE  NothingDeleted' /\ RetriesAreBacked'
    BY DEF LineageInv, CollisionInv
  <2>1. NothingDeleted'
    BY ExistsStep
  <2>2. \A j \in Job, i \in Image, r \in 0 .. MaxRetries :
           queue'[ProcessMsg(j, i, r)] > 0 => r <= Cardinality(RowsOf(annotations', i))
    BY QueuedStep
  <2>3. \A v \in Worker :
          LET rows == Cardinality(RowsOf(annotations', msg'[v].image))
          IN  /\ pc'[v] \in {"load", "version"} => msg'[v].retries <= rows
              /\ pc'[v] \in {"bump", "commit"} => msg'[v].retries < ver'[v]
              /\ pc'[v] = "except" => msg'[v].retries < rows
    BY HeldRetriesStep
  <2> QED
    BY <2>1, <2>2, <2>3 DEF RetriesAreBacked
<1> QED
  BY <1>1, <1>2, LineageInvariant, CounterInvariant, PTL DEF Spec

(* When the tasks of distinct jobs have one row each, an image that job j  *)
(* has not annotated has fewer rows than there are jobs.                   *)
LEMMA RowsOfOthers ==
    ASSUME NEW rows, IsFiniteSet(rows), NEW S, IsFiniteSet(S),
           NEW i, NEW j \in S,
           \A r \in RowsOf(rows, i) : r.job \in S /\ r.job # j,
           \A a, b \in RowsOf(rows, i) : a.job = b.job => a = b
    PROVE  Cardinality(RowsOf(rows, i)) < Cardinality(S)
<1> DEFINE R == RowsOf(rows, i)
           T == S \ {j}
           f == [r \in R |-> r.job]
<1>1. IsFiniteSet(T) /\ Cardinality(T) = Cardinality(S) - 1
  BY FS_RemoveElement
<1>2. f \in Injection(R, T)
  BY DEF Injection, IsInjective
<1>3. IsFiniteSet(R) /\ Cardinality(R) <= Cardinality(T)
  BY <1>1, <1>2, FS_Injection
<1>4. Cardinality(R) \in Nat /\ Cardinality(T) \in Nat /\ Cardinality(S) \in Nat
  BY <1>1, <1>3, FS_CardinalityType
<1> QED
  BY <1>1, <1>3, <1>4

(* What gives a task up.                                                   *)
LEMMA WhoGivesUp ==
    ASSUME TypeOK, [Next]_vars, MaxBrokerFaults = 0
    PROVE  UNCHANGED gaveUp \/ \E w \in Worker : GiveUp(w)
<1> USE DEF brokerVars
<1>1. ASSUME NEW k \in Job, Client(k)
      PROVE  UNCHANGED gaveUp
  BY <1>1 DEF Client, SelectPending, CommitJob, CommitJobFails, Dispatch,
     DispatchFails, LoadForCancel, CommitCancel
<1>2. ASSUME NEW w \in Worker, WorkerStep(w), ~GiveUp(w)
      PROVE  UNCHANGED gaveUp
  BY <1>2 DEF WorkerStep, Receive, Ack, MarkRunning, Publish, FanoutDone, Load,
     LoadMissing, ReadVersion, UpdateImage, Commit, CommitRejected, Retry
<1>3. ASSUME NEW w \in Worker, Fault(w)
      PROVE  UNCHANGED gaveUp
  <2>1. ~RetryRejected(w)
    BY DEF RetryRejected, TypeOK, FaultTypeOK
  <2> QED
    BY <1>3, <2>1 DEF Fault, Crash, VisibilityTimeout, EnqueueFails, TaskRaises,
       CommitUnacknowledged
<1> QED
  BY <1>1, <1>2, <1>3 DEF Next, vars, DeleteDataset

(* With at most max_retries + 1 jobs, however they collide on the versions *)
(* of their images, no task is ever given up, as long as nothing fails, is *)
(* redelivered or deleted: each retry follows the row of another job, and  *)
(* there are not that many (tasks.py:93-140, max_retries=3).               *)
THEOREM CollisionsAreResolved ==
    ASSUME MaxRedeliveries = 0, MaxFailures = 0, MaxBrokerFaults = 0, ~MayDelete,
           Cardinality(Job) <= MaxRetries + 1
    PROVE  Spec => []ConflictsAreRetried
<1>1. Init => ConflictsAreRetried
  BY DEF Init, ConflictsAreRetried
<1>2. TypeOK /\ DoneInv /\ CollisionInv /\ ConflictsAreRetried /\ [Next]_vars =>
        ConflictsAreRetried'
  <2> SUFFICES ASSUME TypeOK, AnnotatedIsDone, NoDuplicateAnnotations,
                      RetriesAreBacked, ConflictsAreRetried, [Next]_vars
               PROVE  ConflictsAreRetried'
    BY DEF DoneInv, CollisionInv
  <2>1. ASSUME NEW w \in Worker, GiveUp(w)
        PROVE  FALSE
    <3> DEFINE i == msg[w].image
               j == msg[w].job
               n == Cardinality(RowsOf(annotations, i))
    <3>1. pc[w] = "except" /\ msg[w] \in ProcessMessage
      BY <2>1 DEF GiveUp, Goto, TypeOK, WorkerTypeOK
    <3>2. /\ i \in Image /\ j \in Job /\ msg[w].retries \in 0 .. MaxRetries
          /\ HeldBy(w, j, i)
      BY <3>1, MessageFacts DEF HeldBy
    <3>3. msg[w].retries < n
      BY <3>1 DEF RetriesAreBacked
    <3>4. ~(msg[w].retries + 1 <= MaxRetries)
      BY <2>1 DEF GiveUp, RetryRaises
    <3>5. ~Annotated(j, i)
      BY <3>2 DEF AnnotatedIsDone
    <3>6. IsFiniteSet(annotations) /\ \A r \in annotations : r.job \in Job
      BY DEF TypeOK, DbTypeOK, Annotation
    <3>7. n < Cardinality(Job)
      <4>1. \A r \in RowsOf(annotations, i) : r.job \in Job /\ r.job # j
        BY <3>5, <3>6 DEF RowsOf, Annotated
      <4>2. \A a, b \in RowsOf(annotations, i) : a.job = b.job => a = b
        BY DEF RowsOf, NoDuplicateAnnotations
      <4> QED
        BY <3>2, <3>6, <4>1, <4>2, RowsOfOthers, FiniteAssumption
    <3>8. n \in Nat /\ Cardinality(Job) \in Nat
      BY <3>6, RowCounts, FiniteAssumption, FS_CardinalityType
    <3>9. msg[w].retries = MaxRetries /\ MaxRetries \in Nat
      BY <3>2, <3>4, BoundsAssumption
    <3> HIDE DEF n
    <3> QED
      BY <3>3, <3>7, <3>8, <3>9
  <2> QED
    BY <2>1, WhoGivesUp DEF ConflictsAreRetried
<1>3. Spec => []DoneInv
  BY DoneInvariant
<1>4. Spec => []CollisionInv
  BY CollisionInvariant
<1> QED
  BY <1>1, <1>2, <1>3, <1>4, TypeCorrect, PTL DEF Spec

-----------------------------------------------------------------------------
(* A single worker.                                                        *)

(* The row that a single worker read of its job is current until it        *)
(* commits: cancel_job writes the status alone.                            *)
LEMMA CurrentStep ==
    ASSUME TypeOK, TypeOK', CounterInv, SeenIsCurrent, [Next]_vars,
           \A v, w \in Worker : v = w
    PROVE  SeenIsCurrent'
<1> SUFFICES ASSUME NEW v \in Worker, pc'[v] = "commit",
                    jobs'[msg'[v].job].status # "absent"
             PROVE  seen'[v].processed = jobs'[msg'[v].job].processed
  BY DEF SeenIsCurrent
<1> DEFINE j == msg[v].job
<1>1. \/ UpdateImage(v)
      \/ /\ pc[v] = "commit"
         /\ msg'[v] = msg[v] /\ seen'[v] = seen[v]
  BY HowToCommit DEF ReadVersion, Goto, TypeOK, WorkerTypeOK
<1>2. pc[v] \in {"bump", "commit"} /\ msg'[v] = msg[v]
  BY <1>1 DEF UpdateImage, Goto
<1>3. j \in Job /\ req[j] = "dispatched"
  BY <1>2, MessageFacts DEF CounterInv, OnlyDispatched, TypeOK, WorkerTypeOK
<1>4. CASE UpdateImage(v)
  BY <1>2, <1>3, <1>4 DEF UpdateImage, dbVars, TypeOK, WorkerTypeOK
<1>5. CASE pc[v] = "commit" /\ msg'[v] = msg[v] /\ seen'[v] = seen[v]
  <2>1. ~DeleteDataset /\ ~CommitJob(j)
    BY <1>3, <1>5 DEF DeleteDataset, CommitJob
  <2>2. \A w \in Worker : ~Inserts(w)
    <3> SUFFICES ASSUME NEW w \in Worker, Inserts(w) PROVE FALSE
      OBVIOUS
    <3>1. pc'[w] # "commit"
      BY DEF Inserts, Commit, CommitUnacknowledged, Goto, TypeOK, WorkerTypeOK
    <3> QED
      BY <3>1
  <2>3. /\ jobs'[j].processed = jobs[j].processed
        /\ jobs[j].status # "absent"
    BY <1>2, <1>3, <2>1, <2>2, WhoWritesJobs
  <2> QED
    BY <1>2, <1>5, <2>3 DEF SeenIsCurrent
<1> QED
  BY <1>1, <1>4, <1>5

(* One job: a bump on a current row counts the row it inserts.             *)
LEMMA ExactStep ==
    ASSUME TypeOK, CounterInv, SelectedOnly, SeenIsCurrent, CountersExact, [Next]_vars,
           NEW j \in Job, jobs'[j].status # "absent"
    PROVE  jobs'[j].processed = Cardinality(JobRows(annotations', j))
<1>1. ~DeleteDataset
  BY DEF DeleteDataset, NoJobRow
<1>2. ASSUME NEW w \in Worker, Inserts(w), msg[w].job = j
      PROVE  jobs'[j].processed = Cardinality(JobRows(annotations', j))
  <2>1. /\ jobs[j].status # "absent"
        /\ jobs[j] \in JobRow /\ seen[w] \in JobRow
        /\ jobs'[j] = BumpJob(jobs[j], seen[w], 1, 0)
        /\ Cardinality(JobRows(annotations', j)) = Cardinality(JobRows(annotations, j)) + 1
    BY <1>2, BumpFacts DEF CounterInv
  <2>2. seen[w].processed = jobs[j].processed
    BY <1>2, <2>1, InsertFacts DEF SeenIsCurrent
  <2>3. jobs'[j].processed = seen[w].processed + 1
    BY <2>1 DEF BumpJob
  <2> QED
    BY <2>1, <2>2, <2>3 DEF CountersExact
<1>3. ASSUME \A w \in Worker : Inserts(w) => msg[w].job # j
      PROVE  /\ JobRows(annotations', j) = JobRows(annotations, j)
             /\ \/ jobs[j].status # "absent" /\ jobs'[j].processed = jobs[j].processed
                \/ CommitJob(j)
  <2>1. JobRows(annotations', j) = JobRows(annotations, j)
    BY <1>1, <1>3, WhoWritesAnnotations, InsertFacts, RowsAfterInsert
       DEF InsertAllowed
  <2> QED
    BY <1>1, <1>3, <2>1, WhoWritesJobs
<1>4. CASE CommitJob(j)
  <2>1. jobs'[j].processed = 0
    BY <1>4 DEF CommitJob, NewJobRow, TypeOK, DbTypeOK
  <2>2. JobRows(annotations', j) = {}
    BY <1>4 DEF CommitJob, SelectedOnly, JobRows
  <2> QED
    BY <2>1, <2>2, FS_EmptySet
<1> QED
  BY <1>2, <1>3, <1>4 DEF CountersExact

(* With a single worker the counter of a job is its number of committed    *)
(* annotations, over failures, unacknowledged commits, redeliveries,       *)
(* cancellations and deletions: the lost updates of _bump_job need two     *)
(* workers (tasks.py:4, 143-148).                                          *)
THEOREM CountersAreExact ==
    ASSUME \A v, w \in Worker : v = w
    PROVE  Spec => []CountersExact
<1> DEFINE ExactInv == SeenIsCurrent /\ CountersExact
<1>1. Init => ExactInv
  BY DEF Init, SeenIsCurrent, CountersExact, NoJobRow
<1>2. TypeOK /\ TypeOK' /\ CounterInv /\ SelectedOnly /\ ExactInv /\ [Next]_vars => ExactInv'
  <2> SUFFICES ASSUME TypeOK, TypeOK', CounterInv, SelectedOnly, SeenIsCurrent,
                      CountersExact, [Next]_vars
               PROVE  SeenIsCurrent' /\ CountersExact'
    OBVIOUS
  <2>1. SeenIsCurrent'
    BY CurrentStep
  <2>2. CountersExact'
    BY ExactStep DEF CountersExact
  <2> QED
    BY <2>1, <2>2
<1>3. ExactInv => CountersExact
  OBVIOUS
<1> HIDE DEF ExactInv
<1> QED
  BY <1>1, <1>2, <1>3, TypeCorrect, CounterInvariant, SelectedInvariant, PTL DEF Spec

-----------------------------------------------------------------------------
(* Refinement: InferenceJobs implements AnnotationLog.  The annotations of *)
(* each image, read in the order of their versions, are an append-only     *)
(* log that only the deletion of the dataset clears.                       *)

(* A commit appends to the log of its image, which exists.                 *)
LEMMA CommitWrites ==
    ASSUME LineageInv, LineageInv', UniqueKeys, UniqueKeys', dataset = TRUE,
           NEW w \in Worker, Inserts(w)
    PROVE  Log!Next
<1> DEFINE i == msg[w].image
           j == msg[w].job
           log == [k \in Image |-> Lineage(annotations, k)]
           logNext == [k \in Image |-> Lineage(annotations', k)]
<1>1. /\ i \in Image /\ j \in Job
      /\ InsertAllowed(w)
      /\ CommitEffect(w)
      /\ annotations' = Insert(annotations, i, ver[w], j)
      /\ pc[w] = "commit"
  BY InsertFacts DEF LineageInv
<1>2. ver[w] \in 1 .. Cardinality(RowsOf(annotations, i)) + 1
  BY <1>1 DEF LineageInv, VersionFresh, InsertAllowed
<1>3. /\ Lineage(annotations', i) = Append(Lineage(annotations, i), j)
      /\ \A k \in Image : k # i => Lineage(annotations', k) = Lineage(annotations, k)
  <2>1. Keyed(annotations) /\ \A k \in Image : LineageComplete(annotations, k)
    BY DEF UniqueKeys, LineageInv, VersionLineage
  <2>2. IsFiniteSet(annotations)
    BY DEF LineageInv, TypeOK, DbTypeOK
  <2>3. ~KeyTaken(annotations, i, ver[w])
    BY <1>1 DEF InsertAllowed
  <2> QED
    BY <1>1, <1>2, <2>1, <2>2, <2>3, InsertAppends, InsertLeavesOthers
<1>4. logNext = [log EXCEPT ![i] = Append(@, j)]
  BY <1>1, <1>3
<1>5. dataset' = dataset
  BY <1>1 DEF CommitEffect
<1>6. Log!Write(i, j)
  BY <1>4, <1>5 DEF Log!Write
<1> QED
  BY <1>1, <1>6 DEF Log!Next

(* Rows exist only while the dataset does.                                 *)
DatasetHolds == ~dataset => \A i \in Image : images[i] = "absent"

(* Only the delete handler writes the dataset row.                         *)
LEMMA WhoWritesDataset ==
    ASSUME [Next]_vars
    PROVE  DeleteDataset \/ UNCHANGED dataset
<1> USE DEF dbVars
<1>1. CASE UNCHANGED vars
  BY <1>1 DEF vars
<1>2. ASSUME NEW j \in Job, Client(j)
      PROVE  UNCHANGED dataset
  BY <1>2 DEF Client, SelectPending, CommitJob, CommitJobFails, Dispatch,
     DispatchFails, LoadForCancel, CommitCancel
<1>3. ASSUME NEW w \in Worker, WorkerStep(w)
      PROVE  UNCHANGED dataset
  BY <1>3 DEF WorkerStep, Receive, Ack, MarkRunning, Publish, FanoutDone, Load,
     LoadMissing, ReadVersion, UpdateImage, Commit, CommitRejected, Retry, GiveUp,
     CommitEffect
<1>4. ASSUME NEW w \in Worker, Fault(w)
      PROVE  UNCHANGED dataset
  BY <1>4 DEF Fault, Crash, VisibilityTimeout, EnqueueFails, TaskRaises,
     CommitUnacknowledged, RetryRejected, CommitEffect
<1> QED
  BY <1>1, <1>2, <1>3, <1>4 DEF Next

(* A deleted dataset has no images left to annotate.                       *)
LEMMA DatasetInvariant == Spec => []DatasetHolds
<1>1. Init => DatasetHolds
  BY DEF Init, DatasetHolds
<1>2. TypeOK /\ DatasetHolds /\ [Next]_vars => DatasetHolds'
  <2> SUFFICES ASSUME TypeOK, DatasetHolds, [Next]_vars, ~dataset',
                      NEW i \in Image
               PROVE  images'[i] = "absent"
    BY DEF DatasetHolds
  <2>1. CASE DeleteDataset
    BY <2>1 DEF DeleteDataset
  <2>2. CASE UNCHANGED dataset
    BY <2>2, AbsentStays DEF DatasetHolds
  <2> QED
    BY <2>1, <2>2, WhoWritesDataset
<1> QED
  BY <1>1, <1>2, TypeCorrect, PTL DEF Spec

-----------------------------------------------------------------------------

(* Initially every log is empty.                                           *)
LEMMA LogInit == Init => Log!Init
<1> SUFFICES ASSUME Init PROVE Log!Init
  OBVIOUS
<1>1. \A i \in Image : Lineage(annotations, i) = <<>>
  BY EmptyTable DEF Init, Lineage
<1> QED
  BY <1>1 DEF Init, Log!Init

(* Every step of the system is a step of the log or leaves it alone.       *)
LEMMA LogStep ==
    ASSUME LineageInv, LineageInv', UniqueKeys, UniqueKeys', DatasetHolds,
           [Next]_vars
    PROVE  [Log!Next]_(Log!vars)
<1>0. dataset \in BOOLEAN
  BY DEF LineageInv, TypeOK, DbTypeOK
<1>1. CASE DeleteDataset
  <2>1. annotations' = {} /\ dataset = TRUE /\ dataset' = FALSE
    BY <1>0, <1>1 DEF DeleteDataset
  <2>2. \A i \in Image : Lineage(annotations', i) = <<>>
    BY <2>1, EmptyTable DEF Lineage
  <2>3. Log!Delete
    BY <2>1, <2>2 DEF Log!Delete
  <2> QED
    BY <2>3 DEF Log!Next
<1>2. CASE \E w \in Worker : Inserts(w)
  <2>1. PICK w \in Worker : Inserts(w)
    BY <1>2
  <2>2. InsertAllowed(w) /\ msg[w].image \in Image
    BY <2>1, InsertFacts DEF LineageInv
  <2>3. dataset = TRUE
    BY <1>0, <2>2 DEF InsertAllowed, DatasetHolds
  <2> QED
    BY <2>1, <2>3, CommitWrites
<1>3. CASE UNCHANGED annotations /\ UNCHANGED dataset
  BY <1>3 DEF Log!vars
<1> QED
  BY <1>1, <1>2, <1>3, WhoWritesAnnotations, WhoWritesDataset DEF LineageInv

(* The table that racing, crashing and retrying workers write is an        *)
(* append-only log per image: the lineage that annotation.py:17-18         *)
(* promises, for any number of jobs, images, workers and faults.           *)
THEOREM AnnotationsAreALog == Spec => ImplementsAnnotationLog
<1>1. LineageInv /\ LineageInv' /\ UniqueKeys /\ UniqueKeys' /\ DatasetHolds
        /\ [Next]_vars => [Log!Next]_(Log!vars)
  BY LogStep
<1> QED
  BY <1>1, LogInit, LineageInvariant, KeysInvariant, DatasetInvariant, PTL
     DEF Spec, ImplementsAnnotationLog, Log!Spec

-----------------------------------------------------------------------------
(* A single worker leaves no job behind.                                   *)

(* The rows of a dataset stand or fall with it.                            *)
DatasetStands ==
    /\ dataset => \A i \in Image : images[i] # "absent"
    /\ \A j \in Job : jobs[j].status # "absent" => dataset

LEMMA StandsInvariant == Spec => []DatasetStands
<1>1. Init => DatasetStands
  BY DEF Init, DatasetStands, NoJobRow
<1>2. TypeOK /\ DatasetStands /\ [Next]_vars => DatasetStands'
  <2> SUFFICES ASSUME TypeOK, DatasetStands, [Next]_vars
               PROVE  DatasetStands'
    OBVIOUS
  <2>1. CASE DeleteDataset
    BY <2>1 DEF DeleteDataset, DatasetStands, NoJobRow
  <2>2. CASE ~DeleteDataset
    <3>1. UNCHANGED dataset
      BY <2>2, WhoWritesDataset
    <3>2. ASSUME NEW j \in Job, jobs'[j].status # "absent"
          PROVE  dataset
      <4>1. CASE CommitJob(j)
        BY <4>1 DEF CommitJob
      <4>2. ASSUME NEW w \in Worker, Inserts(w), msg[w].job = j
            PROVE  jobs[j].status # "absent"
        BY <4>2, InsertFacts DEF InsertAllowed
      <4> QED
        BY <2>2, <3>2, <4>1, <4>2, WhoWritesJobs DEF DatasetStands
    <3> QED
      BY <2>2, <3>1, <3>2, ImagesStay DEF DatasetStands
  <2> QED
    BY <2>1, <2>2
<1> QED
  BY <1>1, <1>2, TypeCorrect, PTL DEF Spec

(* Nothing is taken back: cancellations, refused publishes, tasks that are *)
(* given up and the record of what was sent.                               *)
LEMMA HistoryGrows ==
    ASSUME TypeOK, [Next]_vars
    PROVE  /\ sent \subseteq sent' /\ gaveUp \subseteq gaveUp'
           /\ brokerFaults = 0 \/ brokerFaults' > 0
           /\ \A j \in Job : cancel[j] # "none" => cancel'[j] # "none"
<1> USE DEF TypeOK, ApiTypeOK, FaultTypeOK, brokerVars, faultVars, apiVars
<1>0. brokerFaults \in Nat
  OBVIOUS
<1>1. ASSUME NEW k \in Job, Client(k)
      PROVE  /\ UNCHANGED <<sent, gaveUp>>
             /\ brokerFaults = 0 \/ brokerFaults' > 0
             /\ \A j \in Job : cancel[j] # "none" => cancel'[j] # "none"
  BY <1>0, <1>1 DEF Client, SelectPending, CommitJob, CommitJobFails, Dispatch, DispatchFails,
     LoadForCancel, CommitCancel
<1>2. ASSUME NEW w \in Worker, WorkerStep(w)
      PROVE  /\ sent \subseteq sent' /\ gaveUp \subseteq gaveUp'
             /\ UNCHANGED <<brokerFaults, cancel>>
  BY <1>2 DEF WorkerStep, Receive, Ack, MarkRunning, Publish, FanoutDone, Load,
     LoadMissing, ReadVersion, UpdateImage, Commit, CommitRejected, Retry, GiveUp
<1>3. ASSUME NEW w \in Worker, Fault(w)
      PROVE  /\ sent \subseteq sent' /\ gaveUp \subseteq gaveUp'
             /\ brokerFaults = 0 \/ brokerFaults' > 0
             /\ UNCHANGED cancel
  BY <1>0, <1>3 DEF Fault, Crash, VisibilityTimeout, EnqueueFails, TaskRaises,
     CommitUnacknowledged, RetryRejected
<1>4. CASE UNCHANGED vars \/ DeleteDataset
  BY <1>0, <1>4 DEF vars, DeleteDataset
<1> QED
  BY <1>0, <1>1, <1>2, <1>3, <1>4 DEF Next

(* What excuses a job excuses it for ever.                                 *)
LEMMA ExcusedStays ==
    ASSUME TypeOK, [Next]_vars, NEW j \in Job, Excused(j)
    PROVE  Excused(j)'
<1>1. brokerFaults > 0 => brokerFaults # 0
  OBVIOUS
<1> QED
  BY <1>1, HistoryGrows DEF Excused

(* Only create_job dispatches a job, after it has committed it.            *)
LEMMA WhoDispatches ==
    ASSUME TypeOK, [Next]_vars, NEW j \in Job,
           req[j] # "dispatched", req'[j] = "dispatched"
    PROVE  Dispatch(j) /\ req[j] = "committed"
<1> USE DEF TypeOK, ApiTypeOK
<1>1. ASSUME NEW k \in Job, Client(k)
      PROVE  Dispatch(j)
  BY <1>1 DEF Client, SelectPending, CommitJob, CommitJobFails, Dispatch, DispatchFails,
     LoadForCancel, CommitCancel
<1>2. ASSUME NEW w \in Worker, WorkerStep(w) \/ Fault(w)
      PROVE  UNCHANGED apiVars
  BY <1>2 DEF WorkerStep, Receive, Ack, MarkRunning, Publish, FanoutDone, Load,
     LoadMissing, ReadVersion, UpdateImage, Commit, CommitRejected, Retry, GiveUp,
     Fault, Crash, VisibilityTimeout, EnqueueFails, TaskRaises,
     CommitUnacknowledged, RetryRejected
<1>3. Dispatch(j)
  BY <1>1, <1>2 DEF Next, vars, apiVars, DeleteDataset
<1> QED
  BY <1>3 DEF Dispatch

(* An image whose publication is outstanding is published, or stays so, or *)
(* a publish was refused.                                                  *)
LEMMA UnpublishedEnds ==
    ASSUME TypeOK, TypeOK', [Next]_vars, NEW j \in Job, NEW i \in Image, i \in selected[j],
           Unpublished(j, i), brokerFaults' = 0
    PROVE  \/ Unpublished(j, i)'
           \/ Waiting(j, i)' /\ <<j, i>> \in sent'
<1> USE DEF TypeOK, WorkerTypeOK, BrokerTypeOK, FaultTypeOK
<1> DEFINE m == EnqueueMsg(j)
<1>0. m \in Message /\ m.job = j /\ m.name = "enqueue_job"
  BY MessageFacts DEF EnqueueMsg
<1>1. ASSUME queue'[m] > 0
      PROVE  Unpublished(j, i)'
  BY <1>1 DEF Unpublished
<1>2. ASSUME NEW w \in Worker, msg'[w] = m, pc'[w] \in {"update", "fanout"},
             pc'[w] = "fanout" => i \in todo'[w]
      PROVE  Unpublished(j, i)'
  BY <1>2 DEF Unpublished, FanningOut
<1>3. CASE req[j] # "dispatched"
  <2>1. CASE Dispatch(j)
    <3>1. queue'[m] > 0
      BY <1>0, <2>1 DEF Dispatch, Put
    <3> QED
      BY <1>1, <3>1
  <2> QED
    BY <1>3, <2>1, WhoDispatches DEF Unpublished
<1>4. CASE queue[m] > 0
  BY <1>0, <1>1, <1>2, <1>4, QueuedStays
<1>5. ASSUME NEW v \in Worker, FanningOut(v, j), pc[v] = "update" \/ i \in todo[v]
      PROVE  \/ Unpublished(j, i)'
             \/ Waiting(j, i)' /\ <<j, i>> \in sent'
  <2>0. msg[v] = m /\ pc[v] \in {"update", "fanout"}
    BY <1>5 DEF FanningOut
  <2>1. ASSUME UNCHANGED <<pc, msg, todo>>
        PROVE  Unpublished(j, i)'
    BY <1>2, <1>5, <2>0, <2>1
  <2>2. ASSUME NEW w \in Worker, w # v, WorkerStep(w) \/ Fault(w)
        PROVE  Unpublished(j, i)'
    <3>1. pc'[v] = pc[v] /\ msg'[v] = msg[v]
      BY <2>2, OtherWorkers
    <3>2. todo'[v] = todo[v]
      BY <2>2 DEF WorkerStep, Receive, Ack, MarkRunning, Publish, FanoutDone, Load,
         LoadMissing, ReadVersion, UpdateImage, Commit, CommitRejected, Retry, GiveUp,
         Fault, Crash, VisibilityTimeout, EnqueueFails, TaskRaises,
         CommitUnacknowledged, RetryRejected, Release, CloseSession, workerVars
    <3> QED
      BY <1>2, <1>5, <2>0, <3>1, <3>2
  <2>3. CASE MarkRunning(v)
    <3>1. pc'[v] = "fanout" /\ msg'[v] = m /\ todo'[v] = selected[j]
      BY <1>0, <2>0, <2>3 DEF MarkRunning, Goto
    <3> QED
      BY <1>2, <3>1
  <2>4. CASE Publish(v)
    <3>1. PICK k \in todo[v] : /\ Put(ProcessMsg(j, k, 0))
                               /\ sent' = sent \cup {<<j, k>>}
                               /\ todo' = [todo EXCEPT ![v] = @ \ {k}]
      BY <1>0, <2>0, <2>4 DEF Publish
    <3>2. pc[v] = "fanout" /\ UNCHANGED <<pc, msg>>
      BY <2>4 DEF Publish
    <3>3. CASE k = i
      <4>1. 0 \in 0 .. MaxRetries /\ ProcessMsg(j, i, 0) \in Message
        BY MessageFacts, BoundsAssumption
      <4>2. queue'[ProcessMsg(j, i, 0)] > 0
        BY <3>1, <3>3, <4>1 DEF Put
      <4> QED
        BY <3>1, <3>3, <4>1, <4>2 DEF Waiting
    <3>4. CASE k # i
      BY <1>2, <1>5, <2>0, <3>1, <3>2, <3>4
    <3> QED
      BY <3>3, <3>4
  <2>5. CASE Crash(v) \/ VisibilityTimeout(v)
    <3>1. queue'[m] > 0
      BY <1>0, <2>0, <2>5 DEF Crash, VisibilityTimeout, Put
    <3> QED
      BY <1>1, <3>1
  <2>6. ~EnqueueFails(v)
    BY DEF EnqueueFails
  <2>7. ~FanoutDone(v)
    BY <1>5 DEF FanoutDone, Goto
  <2>8. ASSUME WorkerStep(v) \/ Fault(v)
        PROVE  MarkRunning(v) \/ Publish(v) \/ Crash(v) \/ VisibilityTimeout(v)
    BY <2>0, <2>6, <2>7, <2>8 DEF WorkerStep, Receive, Ack, Load, LoadMissing, ReadVersion,
       UpdateImage, Commit, CommitRejected, Retry, GiveUp, Fault, TaskRaises,
       CommitUnacknowledged, RetryRejected, Goto
  <2>9. ASSUME (\E k \in Job : Client(k)) \/ DeleteDataset \/ UNCHANGED vars
        PROVE  UNCHANGED <<pc, msg, todo>>
    BY <2>9 DEF Client, SelectPending, CommitJob, CommitJobFails, Dispatch, DispatchFails,
       LoadForCancel, CommitCancel, DeleteDataset, vars, workerVars
  <2> QED
    BY <2>1, <2>2, <2>3, <2>4, <2>5, <2>8, <2>9 DEF Next
<1> QED
  BY <1>3, <1>4, <1>5 DEF Unpublished

(* The fan-out reaches every image, unless a publish is refused.           *)
LEMMA PublishedInvariant == Spec => []AllPublished
<1>1. Init => AllPublished
  BY DEF Init, AllPublished
<1>2. TypeOK /\ TypeOK' /\ AllPublished /\ [Next]_vars => AllPublished'
  <2> SUFFICES ASSUME TypeOK, TypeOK', AllPublished, [Next]_vars,
                      NEW j \in Job, NEW i \in selected'[j], brokerFaults' = 0
               PROVE  <<j, i>> \in sent' \/ Unpublished(j, i)'
    BY DEF AllPublished
  <2>1. i \in Image /\ brokerFaults = 0
    BY HistoryGrows DEF TypeOK, ApiTypeOK
  <2>2. CASE req[j] = "none"
    <3>1. req'[j] # "dispatched"
      BY <2>2, WhoDispatches
    <3> QED
      BY <3>1 DEF Unpublished
  <2>3. CASE req[j] # "none"
    <3>1. i \in selected[j]
      BY <2>3, RequestsAdvance
    <3>2. CASE <<j, i>> \in sent
      BY <3>2, HistoryGrows
    <3>3. CASE Unpublished(j, i)
      BY <2>1, <3>1, <3>3, UnpublishedEnds
    <3> QED
      BY <2>1, <3>1, <3>2, <3>3 DEF AllPublished
  <2> QED
    BY <2>2, <2>3
<1> QED
  BY <1>1, <1>2, TypeCorrect, PTL DEF Spec

(* A job becomes RUNNING by its fan-out alone.                             *)
LEMMA WhoMarksRunning ==
    ASSUME TypeOK, [Next]_vars, NEW j \in Job,
           jobs[j].status # "running", jobs'[j].status = "running"
    PROVE  \E w \in Worker : MarkRunning(w) /\ msg[w] = EnqueueMsg(j) /\ pc[w] = "update"
<1> USE DEF TypeOK, DbTypeOK
<1>0. jobs[j] \in JobRow
  OBVIOUS
<1>1. CASE UNCHANGED vars \/ DeleteDataset
  BY <1>1 DEF vars, dbVars, DeleteDataset, NoJobRow
<1>2. ASSUME NEW k \in Job, Client(k)
      PROVE  jobs'[j].status \in {jobs[j].status, "queued", "cancelled"}
  <2>1. CASE CommitJob(k)
    BY <2>1 DEF CommitJob, NewJobRow
  <2>2. CASE CommitCancel(k)
    BY <1>0, <2>2 DEF CommitCancel
  <2> QED
    BY <1>2, <2>1, <2>2 DEF Client, SelectPending, CommitJobFails, Dispatch, DispatchFails,
       LoadForCancel, dbVars
<1>3. ASSUME NEW w \in Worker, MarkRunning(w)
      PROVE  msg[w] = EnqueueMsg(j) /\ pc[w] = "update"
  <2>1. pc[w] = "update"
    BY <1>3 DEF MarkRunning, Goto
  <2>2. msg[w].job = j
    BY <1>0, <1>3 DEF MarkRunning
  <2> QED
    BY <2>1, <2>2, FanoutMessage
<1>4. ASSUME NEW w \in Worker, Inserts(w)
      PROVE  FALSE
  <2>1. jobs' = [jobs EXCEPT ![msg[w].job] = BumpJob(@, seen[w], 1, 0)]
    BY <1>4, InsertFacts DEF CommitEffect
  <2> QED
    BY <1>0, <2>1 DEF BumpJob
<1>5. ASSUME NEW w \in Worker, WorkerStep(w), ~MarkRunning(w), ~Inserts(w)
      PROVE  UNCHANGED jobs
  BY <1>5, GiveUpCountsNothing DEF WorkerStep, Receive, Ack, Publish, FanoutDone, Load,
     LoadMissing, ReadVersion, UpdateImage, CommitRejected, Retry, Inserts, dbVars
<1>6. ASSUME NEW w \in Worker, Fault(w), ~Inserts(w)
      PROVE  UNCHANGED jobs
  BY <1>6 DEF Fault, Crash, VisibilityTimeout, EnqueueFails, TaskRaises,
     RetryRejected, Inserts, dbVars
<1> QED
  BY <1>1, <1>2, <1>3, <1>4, <1>5, <1>6 DEF Next

(* While a single worker is about to commit, nobody revives the job it has *)
(* read as COMPLETED.                                                      *)
LEMMA SeenCompletedStep ==
    ASSUME TypeOK, TypeOK', OnlyDispatched, SeenStaysCompleted, [Next]_vars,
           \A v, w \in Worker : v = w
    PROVE  SeenStaysCompleted'
<1> SUFFICES ASSUME NEW v \in Worker, pc'[v] = "commit", seen'[v].status = "completed"
             PROVE  jobs'[msg'[v].job].status \in {"completed", "cancelled", "absent"}
  BY DEF SeenStaysCompleted
<1> DEFINE j == msg[v].job
<1>1. \/ UpdateImage(v)
      \/ /\ pc[v] = "commit"
         /\ msg'[v] = msg[v] /\ seen'[v] = seen[v]
  BY HowToCommit DEF ReadVersion, Goto, TypeOK, WorkerTypeOK
<1>2. pc[v] \in {"bump", "commit"} /\ msg'[v] = msg[v]
  BY <1>1 DEF UpdateImage, Goto
<1>3. j \in Job /\ req[j] = "dispatched"
  BY <1>2, MessageFacts DEF OnlyDispatched, TypeOK, WorkerTypeOK
<1>4. CASE UpdateImage(v)
  BY <1>2, <1>3, <1>4 DEF UpdateImage, dbVars, TypeOK, WorkerTypeOK
<1>5. CASE pc[v] = "commit" /\ seen'[v] = seen[v]
  <2>1. jobs[j].status \in {"completed", "cancelled", "absent"}
    BY <1>5 DEF SeenStaysCompleted
  <2>2. jobs'[j].status # "running"
    <3>1. \A w \in Worker : pc[w] # "update"
      BY <1>5
    <3> QED
      BY <1>3, <2>1, <3>1, WhoMarksRunning
  <2>3. ~CommitJob(j)
    BY <1>3 DEF CommitJob
  <2>4. \A w \in Worker : ~Inserts(w)
    <3> SUFFICES ASSUME NEW w \in Worker, Inserts(w) PROVE FALSE
      OBVIOUS
    <3>1. pc'[w] # "commit"
      BY DEF Inserts, Commit, CommitUnacknowledged, Goto, TypeOK, WorkerTypeOK
    <3> QED
      BY <3>1
  <2>5. DeleteDataset => jobs'[j].status = "absent"
    BY <1>3 DEF DeleteDataset, NoJobRow
  <2> QED
    BY <1>2, <1>3, <2>1, <2>2, <2>3, <2>4, <2>5, WhoWritesJobs
<1> QED
  BY <1>1, <1>4, <1>5

(* A bump that does not complete the job leaves its counter short.         *)
LEMMA BumpCompletes ==
    ASSUME TypeOK, CounterInv, SeenStaysCompleted,
           NEW w \in Worker, Inserts(w), NEW j \in Job, msg[w].job = j,
           jobs'[j].status \in {"queued", "running"}
    PROVE  jobs'[j].processed < jobs'[j].total
<1>1. /\ pc[w] = "commit"
      /\ jobs[j] \in JobRow /\ seen[w] \in JobRow
      /\ jobs'[j] = BumpJob(jobs[j], seen[w], 1, 0)
      /\ seen[w].failed = 0
      /\ seen[w].total = jobs[j].total
  BY BumpFacts, InsertFacts DEF CounterInv
<1>2. seen[w].status # "completed"
  <2> SUFFICES ASSUME seen[w].status = "completed" PROVE FALSE
    OBVIOUS
  <2>1. jobs[j].status \in {"completed", "cancelled", "absent"}
    BY <1>1 DEF SeenStaysCompleted
  <2>2. jobs'[j].status = jobs[j].status
    BY <1>1 DEF BumpJob
  <2> QED
    BY <2>1, <2>2
<1>3. /\ seen[w].processed \in Nat /\ seen[w].total \in Nat
      /\ jobs'[j].total = jobs[j].total
      /\ jobs'[j].processed = seen[w].processed + 1
  BY <1>1 DEF BumpJob, JobRow
<1>4. ~(seen[w].processed + 1 + (0 + 0) >= seen[w].total)
  BY <1>1, <1>2, <1>3 DEF BumpJob
<1> QED
  BY <1>1, <1>3, <1>4

(* Image i of job j is yet to be published, or its task is under way.      *)
Going(j, i) == Unpublished(j, i) \/ Waiting(j, i) \/ \E w \in Worker : HeldBy(w, j, i)

(* A task under way stays so, unless it commits or the job is excused or   *)
(* deleted.                                                                *)
LEMMA GoingStays ==
    ASSUME TypeOK, TypeOK', DatasetStands', [Next]_vars, NEW j \in Job, NEW i \in Image,
           i \in selected[j], Going(j, i), ~Excused(j)', jobs'[j].status # "absent",
           \A w \in Worker : Inserts(w) => msg[w].job # j
    PROVE  Going(j, i)'
<1>1. brokerFaults' = 0
  BY DEF Excused, TypeOK, FaultTypeOK
<1>2. CASE Unpublished(j, i)
  BY <1>1, <1>2, UnpublishedEnds DEF Going
<1>3. CASE Waiting(j, i)
  BY <1>3, WaitingStays DEF Going
<1>4. ASSUME NEW v \in Worker, HeldBy(v, j, i)
      PROVE  Going(j, i)'
  <2>1. ASSUME GiveUp(v) \/ RetryRejected(v), msg[v].job = j, msg[v].image = i
        PROVE  FALSE
    <3>1. \E why \in {"exhausted", "rejected"} : <<j, i, why>> \in gaveUp'
      BY <2>1 DEF GiveUp, RetryRejected
    <3>2. \E t \in gaveUp' : t[1] = j
      BY <3>1
    <3> QED
      BY <3>2 DEF Excused
  <2>2. ASSUME LoadMissing(v), msg[v].image = i
        PROVE  FALSE
    BY <2>2 DEF LoadMissing, dbVars, DatasetStands
  <2> QED
    BY <1>4, <2>1, <2>2, HowTasksEnd DEF Going
<1> QED
  BY <1>2, <1>3, <1>4 DEF Going

(* An unfinished job that has reached its total waits for another task:    *)
(* the fan-out that took COMPLETED back publishes every image once more.   *)
LEMMA ReachedStep ==
    ASSUME TypeOK, TypeOK', CounterInv, SeenStaysCompleted, DatasetStands',
           ReachedIsMoving, [Next]_vars
    PROVE  ReachedIsMoving'
<1> SUFFICES ASSUME NEW j \in Job, req'[j] = "dispatched", selected'[j] # {},
                    jobs'[j].status \in {"queued", "running"},
                    jobs'[j].processed >= jobs'[j].total, ~Excused(j)'
             PROVE  \E i \in selected'[j] : Going(j, i)'
  BY DEF ReachedIsMoving, Going
<1>0. /\ selected'[j] = selected[j] /\ selected[j] \subseteq Image
      /\ ~Excused(j) /\ ~CommitJob(j) /\ ~DeleteDataset
      /\ jobs[j] \in JobRow /\ jobs'[j] \in JobRow
  <2>1. req[j] # "none"
    BY WhoDispatches
  <2>2. ~CommitJob(j) /\ ~DeleteDataset
    BY DEF CommitJob, DeleteDataset, NoJobRow, TypeOK, ApiTypeOK
  <2> QED
    BY <2>1, <2>2, RequestsAdvance, ExcusedStays DEF TypeOK, ApiTypeOK, DbTypeOK
<1>1. PICK i \in selected[j] : TRUE
  BY <1>0
<1>2. ASSUME NEW w \in Worker, Inserts(w)
      PROVE  msg[w].job # j
  <2> SUFFICES ASSUME msg[w].job = j PROVE FALSE
    OBVIOUS
  <2>1. jobs'[j].processed < jobs'[j].total
    BY <1>2, BumpCompletes
  <2> QED
    BY <1>0, <2>1 DEF JobRow
<1>3. \/ jobs'[j] = jobs[j]
      \/ /\ jobs'[j].status \in {"running", "cancelled"}
         /\ jobs'[j].processed = jobs[j].processed
         /\ jobs'[j].total = jobs[j].total
  BY <1>0, <1>2, WhoWritesJobs
<1>4. CASE req[j] # "dispatched"
  <2>1. Dispatch(j)
    BY <1>4, WhoDispatches
  <2>2. queue'[EnqueueMsg(j)] > 0
    BY <2>1, MessageFacts DEF Dispatch, Put, TypeOK, BrokerTypeOK
  <2> QED
    BY <1>0, <1>1, <2>2 DEF Going, Unpublished
<1>5. CASE jobs[j].status \notin {"queued", "running"}
  <2>1. jobs[j].status # "running" /\ jobs'[j].status = "running"
    BY <1>3, <1>5
  <2>2. PICK w \in Worker : MarkRunning(w) /\ msg[w] = EnqueueMsg(j) /\ pc[w] = "update"
    BY <2>1, WhoMarksRunning
  <2>3. pc'[w] = "fanout" /\ msg'[w] = EnqueueMsg(j) /\ todo'[w] = selected[j]
    BY <2>2, MessageFacts DEF MarkRunning, Goto, TypeOK, WorkerTypeOK
  <2> QED
    BY <1>0, <1>1, <2>3 DEF Going, Unpublished, FanningOut
<1>6. CASE req[j] = "dispatched" /\ jobs[j].status \in {"queued", "running"}
  <2>1. jobs[j].processed >= jobs[j].total
    BY <1>3
  <2>2. PICK k \in selected[j] : Going(j, k)
    BY <1>0, <1>6, <2>1 DEF ReachedIsMoving, Going
  <2>3. Going(j, k)'
    BY <1>0, <1>2, <2>2, GoingStays
  <2> QED
    BY <1>0, <2>3
<1> QED
  BY <1>4, <1>5, <1>6

(* A job that has a row of each of some images has at least as many rows.  *)
LEMMA RowsCoverImages ==
    ASSUME NEW rows, IsFiniteSet(rows), NEW S, IsFiniteSet(S), NEW j,
           \A i \in S : \E r \in rows : r.image = i /\ r.job = j
    PROVE  Cardinality(S) <= Cardinality(JobRows(rows, j))
<1> DEFINE R == JobRows(rows, j)
           T == {r.image : r \in R}
           f == [r \in R |-> r.image]
<1>1. IsFiniteSet(R)
  BY FS_Subset DEF JobRows
<1>2. f \in Surjection(R, T)
  BY DEF Surjection
<1>3. IsFiniteSet(T) /\ Cardinality(T) <= Cardinality(R)
  BY <1>1, <1>2, FS_Surjection
<1>4. S \subseteq T
  BY DEF JobRows
<1>5. Cardinality(S) <= Cardinality(T)
  BY <1>3, <1>4, FS_Subset
<1>6. Cardinality(R) \in Nat /\ Cardinality(T) \in Nat /\ Cardinality(S) \in Nat
  BY <1>1, <1>3, FS_CardinalityType
<1> HIDE DEF R, T
<1>7. Cardinality(S) <= Cardinality(R)
  BY <1>3, <1>5, <1>6
<1> QED
  BY <1>7 DEF R

(* A single worker leaves no job behind, over any number of failures,      *)
(* redeliveries and jobs: what is QUEUED or RUNNING with nothing under way *)
(* was cancelled, lost a task to exhausted retries, or met a refused       *)
(* publish (tasks.py:44-52, 143-150).                                      *)
THEOREM NoJobIsLeftBehind ==
    ASSUME \A v, w \in Worker : v = w
    PROVE  Spec => []NoJobIsStranded
<1> DEFINE StrandedInv == SeenStaysCompleted /\ ReachedIsMoving
<1>1. Init => StrandedInv
  BY DEF Init, SeenStaysCompleted, ReachedIsMoving, NoJobRow
<1>2. TypeOK /\ TypeOK' /\ CounterInv /\ DatasetStands' /\ StrandedInv /\ [Next]_vars =>
        StrandedInv'
  <2> SUFFICES ASSUME TypeOK, TypeOK', CounterInv, DatasetStands', SeenStaysCompleted,
                      ReachedIsMoving, [Next]_vars
               PROVE  SeenStaysCompleted' /\ ReachedIsMoving'
    OBVIOUS
  <2>1. SeenStaysCompleted'
    BY SeenCompletedStep DEF CounterInv
  <2>2. ReachedIsMoving'
    BY ReachedStep
  <2> QED
    BY <2>1, <2>2
<1>3. TypeOK /\ SelectedOnly /\ DatasetStands /\ SentIsAlive /\ AllPublished
        /\ CountersExact /\ StrandedInv => NoJobIsStranded
  <2> SUFFICES ASSUME TypeOK, SelectedOnly, DatasetStands, SentIsAlive, AllPublished,
                      CountersExact, ReachedIsMoving,
                      NEW j \in Job, req[j] = "dispatched", selected[j] # {},
                      jobs[j].status \in {"queued", "running"}, ~Excused(j)
               PROVE  Moving(j)
    BY DEF NoJobIsStranded
  <2>1. ASSUME NEW i \in Image, Going(j, i)
        PROVE  Moving(j)
    BY <2>1, MessageFacts DEF Going, Unpublished, Waiting, HeldBy, FanningOut, Moving
  <2>2. /\ IsFiniteSet(annotations) /\ IsFiniteSet(selected[j])
        /\ selected[j] \subseteq Image
        /\ jobs[j].processed \in Nat /\ jobs[j].total = Cardinality(selected[j])
    BY FiniteAssumption, FS_Subset DEF TypeOK, DbTypeOK, ApiTypeOK, JobRow, SelectedOnly
  <2>3. CASE jobs[j].processed >= jobs[j].total
    BY <2>1, <2>2, <2>3 DEF ReachedIsMoving, Going
  <2>4. CASE ~(jobs[j].processed >= jobs[j].total)
    <3>1. ~(Cardinality(selected[j]) <= Cardinality(JobRows(annotations, j)))
      BY <2>2, <2>4, FS_CardinalityType DEF CountersExact
    <3>2. PICK i \in selected[j] : ~Annotated(j, i)
      BY <2>2, <3>1, RowsCoverImages DEF Annotated
    <3>3. ~Settled(j, i)
      <4>1. images[i] # "absent"
        BY <2>2 DEF DatasetStands
      <4>2. \A why \in {"exhausted", "rejected"} : <<j, i, why>> \notin gaveUp
        BY DEF Excused
      <4> QED
        BY <3>2, <4>1, <4>2 DEF Settled
    <3>4. brokerFaults = 0
      BY DEF Excused, TypeOK, FaultTypeOK
    <3>5. Going(j, i)
      BY <2>2, <3>2, <3>3, <3>4 DEF AllPublished, SentIsAlive, Alive, Going
    <3> QED
      BY <2>1, <2>2, <3>5
  <2> QED
    BY <2>3, <2>4
<1> HIDE DEF StrandedInv
<1>4. Spec => []CountersExact
  BY CountersAreExact
<1> QED
  BY <1>1, <1>2, <1>3, <1>4, TypeCorrect, CounterInvariant, SelectedInvariant, StandsInvariant,
     SentInvariant, PublishedInvariant, PTL DEF Spec

=============================================================================
