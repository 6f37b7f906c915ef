--------------------------- MODULE InferenceJobs ---------------------------
(***************************************************************************)
(* The inference path of the annotation pipeline: the API handlers that    *)
(* create, dispatch and cancel a job and delete its dataset, the Celery    *)
(* broker, and the workers that run enqueue_job and process_image against  *)
(* the jobs, images and annotations tables.                                *)
(*                                                                         *)
(* One step of the model is one statement whose effect others can see: a   *)
(* commit, a read that a later write depends on, a publish, an ack.  All   *)
(* images and jobs belong to one dataset.  PostgreSQL runs at its default  *)
(* isolation level, READ COMMITTED.                                        *)
(***************************************************************************)
EXTENDS AnnotationTable

CONSTANTS
    Job,                \* jobs that clients may ask for
    Image,              \* images registered in the dataset
    Worker,             \* Celery worker processes on the inference queue
    MaxRetries,         \* max_retries of process_image: 3 in the code
    Cancellable,        \* jobs that clients may try to cancel
    MayDelete,          \* whether the dataset may be deleted
    MaxFailures,        \* bound: exceptions raised inside process_image
    MaxBrokerFaults,    \* bound: publishes the broker refuses
    MaxRedeliveries,    \* bound: messages redelivered to another worker
    NoImage,            \* the image field of an enqueue_job message
    NoMsg               \* what an idle worker holds

ASSUME FiniteAssumption ==
    /\ IsFiniteSet(Job)
    /\ IsFiniteSet(Image)

ASSUME BoundsAssumption ==
    /\ MaxRetries \in Nat
    /\ MaxFailures \in Nat
    /\ MaxBrokerFaults \in Nat
    /\ MaxRedeliveries \in Nat
    /\ Cancellable \subseteq Job
    /\ MayDelete \in BOOLEAN

VARIABLES
    \* the database
    dataset,        \* whether the dataset row exists
    jobs,           \* jobs table, NoJobRow where there is no row
    images,         \* status column of images, "absent" where deleted
    annotations,    \* set of rows of the annotations table
    \* the API handlers
    req,            \* progress of create_job for each job
    selected,       \* the image ids create_job selected
    cancel,         \* progress of cancel_job for each job
    \* the broker
    queue,          \* how many copies of each message wait for a worker
    sent,           \* history: <<job, image>> pairs ever published
    gaveUp,         \* history: <<job, image, why>> dropped without a row
    \* the workers
    pc,             \* the statement each worker executes next
    msg,            \* the message it holds, not yet acknowledged
    todo,           \* images whose process_image it has still to publish
    ver,            \* the version process_image computed
    seen,           \* the job row _bump_job read
    \* how much of each fault bound is used
    failures, brokerFaults, redeliveries

dbVars     == <<dataset, jobs, images, annotations>>
apiVars    == <<req, selected, cancel>>
brokerVars == <<queue, sent, gaveUp>>
workerVars == <<pc, msg, todo, ver, seen>>
faultVars  == <<failures, brokerFaults, redeliveries>>
vars       == <<dbVars, apiVars, brokerVars, workerVars, faultVars>>

-----------------------------------------------------------------------------
(* Rows and messages.                                                      *)

JobRow == [status : {"absent", "queued", "running", "completed", "cancelled"},
           total : Nat, processed : Nat, failed : Nat]

NoJobRow == [status |-> "absent", total |-> 0, processed |-> 0, failed |-> 0]

NewJobRow(n) ==
    [status |-> "queued", total |-> n, processed |-> 0, failed |-> 0]

ImageStatus == {"pending", "processing", "annotated", "failed", "absent"}

Annotation == [image : Image, version : Nat \ {0}, job : Job]

EnqueueMsg(j) ==
    [name |-> "enqueue_job", job |-> j, image |-> NoImage, retries |-> 0]

ProcessMsg(j, i, r) ==
    [name |-> "process_image", job |-> j, image |-> i, retries |-> r]

ProcessMessage == {ProcessMsg(j, i, r) : j \in Job, i \in Image, r \in 0 .. MaxRetries}

Message == {EnqueueMsg(j) : j \in Job} \cup ProcessMessage

Put(m) == queue' = [queue EXCEPT ![m] = @ + 1]

-----------------------------------------------------------------------------
(* Initially every image is registered and pending, and nothing runs.      *)

Init ==
    /\ dataset = TRUE
    /\ jobs = [j \in Job |-> NoJobRow]
    /\ images = [i \in Image |-> "pending"]
    /\ annotations = {}
    /\ req = [j \in Job |-> "none"]
    /\ selected = [j \in Job |-> {}]
    /\ cancel = [j \in Job |-> "none"]
    /\ queue = [m \in Message |-> 0]
    /\ sent = {}
    /\ gaveUp = {}
    /\ pc = [w \in Worker |-> "idle"]
    /\ msg = [w \in Worker |-> NoMsg]
    /\ todo = [w \in Worker |-> {}]
    /\ ver = [w \in Worker |-> 0]
    /\ seen = [w \in Worker |-> NoJobRow]
    /\ failures = 0
    /\ brokerFaults = 0
    /\ redeliveries = 0

-----------------------------------------------------------------------------
(* API: create_job.  The select of the pending images and the commit of    *)
(* the job row are separate statements; the fan-out is dispatched after    *)
(* the commit.                                                             *)

SelectPending(j) ==
    /\ req[j] = "none"
    /\ dataset
    /\ selected' = [selected EXCEPT ![j] = {i \in Image : images[i] = "pending"}]
    /\ req' = [req EXCEPT ![j] = "selected"]
    /\ UNCHANGED <<dbVars, cancel, brokerVars, workerVars, faultVars>>

CommitJob(j) ==
    /\ req[j] = "selected"
    /\ dataset
    /\ jobs' = [jobs EXCEPT ![j] = NewJobRow(Cardinality(selected[j]))]
    /\ req' = [req EXCEPT ![j] = "committed"]
    /\ UNCHANGED <<dataset, images, annotations, selected, cancel,
                   brokerVars, workerVars, faultVars>>

(* The foreign key to the dataset refuses the insert.                      *)
CommitJobFails(j) ==
    /\ req[j] = "selected"
    /\ ~dataset
    /\ req' = [req EXCEPT ![j] = "error"]
    /\ UNCHANGED <<dbVars, selected, cancel, brokerVars, workerVars, faultVars>>

(* Mutant: the client's retry dispatches the fan-out a second time.        *)
Dispatch_Twice(j) ==
    /\ req[j] = "committed"
    /\ queue' = [queue EXCEPT ![EnqueueMsg(j)] = @ + 2]
    /\ req' = [req EXCEPT ![j] = "dispatched"]
    /\ UNCHANGED <<dbVars, selected, cancel, sent, gaveUp, workerVars, faultVars>>

Dispatch(j) ==
    /\ req[j] = "committed"
    /\ Put(EnqueueMsg(j))
    /\ req' = [req EXCEPT ![j] = "dispatched"]
    /\ UNCHANGED <<dbVars, selected, cancel, sent, gaveUp, workerVars, faultVars>>

(* The broker refuses the message, or the API process dies, after the      *)
(* commit: the job row stays.                                              *)
DispatchFails(j) ==
    /\ req[j] = "committed"
    /\ brokerFaults < MaxBrokerFaults
    /\ brokerFaults' = brokerFaults + 1
    /\ req' = [req EXCEPT ![j] = "error"]
    /\ UNCHANGED <<dbVars, selected, cancel, brokerVars, workerVars,
                   failures, redeliveries>>

(* API: cancel_job loads the row, answers 409 for a completed one, and     *)
(* writes CANCELLED when the request's session commits.  No message is     *)
(* revoked.                                                                *)
LoadForCancel(j) ==
    /\ j \in Cancellable
    /\ cancel[j] = "none"
    /\ jobs[j].status \in {"queued", "running"}
    /\ cancel' = [cancel EXCEPT ![j] = "loaded"]
    /\ UNCHANGED <<dbVars, req, selected, brokerVars, workerVars, faultVars>>

CommitCancel(j) ==
    /\ cancel[j] = "loaded"
    /\ jobs' = IF jobs[j].status = "absent"
               THEN jobs
               ELSE [jobs EXCEPT ![j].status = "cancelled"]
    /\ cancel' = [cancel EXCEPT ![j] = "done"]
    /\ UNCHANGED <<dataset, images, annotations, req, selected,
                   brokerVars, workerVars, faultVars>>

(* API: deleting the dataset cascades to its images, jobs and annotations. *)
(* It waits for the row locks of transactions about to commit.             *)
DeleteDataset ==
    /\ MayDelete
    /\ dataset
    /\ \A w \in Worker : pc[w] # "commit"
    /\ dataset' = FALSE
    /\ jobs' = [j \in Job |-> NoJobRow]
    /\ images' = [i \in Image |-> "absent"]
    /\ annotations' = {}
    /\ UNCHANGED <<apiVars, brokerVars, workerVars, faultVars>>

-----------------------------------------------------------------------------
(* A worker's control.                                                     *)

Goto(w, from, to) ==
    /\ pc[w] = from
    /\ pc' = [pc EXCEPT ![w] = to]

(* The worker lets its message go and forgets what the task had read.      *)
Release(w) ==
    /\ pc' = [pc EXCEPT ![w] = "idle"]
    /\ msg' = [msg EXCEPT ![w] = NoMsg]
    /\ todo' = [todo EXCEPT ![w] = {}]
    /\ ver' = [ver EXCEPT ![w] = 0]
    /\ seen' = [seen EXCEPT ![w] = NoJobRow]

(* The session of the task is closed: what it had read is out of scope.    *)
CloseSession(w) ==
    /\ ver' = [ver EXCEPT ![w] = 0]
    /\ seen' = [seen EXCEPT ![w] = NoJobRow]
    /\ UNCHANGED <<msg, todo>>

(* Broker: any waiting message may be next, retries carry a countdown and  *)
(* redelivered messages come back late.                                    *)
Receive(w) ==
    /\ pc[w] = "idle"
    /\ \E m \in Message :
        /\ queue[m] > 0
        /\ queue' = [queue EXCEPT ![m] = @ - 1]
        /\ msg' = [msg EXCEPT ![w] = m]
        /\ pc' = [pc EXCEPT ![w] =
                    IF m.name = "enqueue_job" THEN "update" ELSE "load"]
    /\ UNCHANGED <<dbVars, apiVars, sent, gaveUp, todo, ver, seen, faultVars>>

(* acks_late: the message leaves the broker when the task has returned.    *)
Ack(w) ==
    /\ pc[w] = "ack"
    /\ Release(w)
    /\ UNCHANGED <<dbVars, apiVars, brokerVars, faultVars>>

(* Mutant: without task_reject_on_worker_lost the message is gone.         *)
Crash_Drops(w) ==
    /\ pc[w] # "idle"
    /\ redeliveries < MaxRedeliveries
    /\ redeliveries' = redeliveries + 1
    /\ Release(w)
    /\ UNCHANGED <<dbVars, apiVars, brokerVars, failures, brokerFaults>>

(* The worker process dies; task_reject_on_worker_lost puts the message    *)
(* back and the open transaction rolls back.                               *)
Crash(w) ==
    /\ pc[w] # "idle"
    /\ redeliveries < MaxRedeliveries
    /\ redeliveries' = redeliveries + 1
    /\ Put(msg[w])
    /\ Release(w)
    /\ UNCHANGED <<dbVars, apiVars, sent, gaveUp, failures, brokerFaults>>

(* The task outlives the broker's visibility timeout: the message is       *)
(* offered again while its worker is still at it.                          *)
VisibilityTimeout(w) ==
    /\ pc[w] # "idle"
    /\ redeliveries < MaxRedeliveries
    /\ redeliveries' = redeliveries + 1
    /\ Put(msg[w])
    /\ UNCHANGED <<dbVars, apiVars, sent, gaveUp, workerVars, failures, brokerFaults>>

-----------------------------------------------------------------------------
(* The task enqueue_job: mark the job RUNNING, whatever it was, then       *)
(* publish one process_image per image id of the message.                  *)

MarkRunning(w) ==
    /\ Goto(w, "update", "fanout")
    /\ LET j == msg[w].job
       IN  /\ jobs' = IF jobs[j].status = "absent"
                      THEN jobs
                      ELSE [jobs EXCEPT ![j].status = "running"]
           /\ todo' = [todo EXCEPT ![w] = selected[j]]
    /\ UNCHANGED <<dataset, images, annotations, apiVars, brokerVars,
                   msg, ver, seen, faultVars>>

Publish(w) ==
    /\ pc[w] = "fanout"
    /\ \E i \in todo[w] :
        /\ Put(ProcessMsg(msg[w].job, i, 0))
        /\ sent' = sent \cup {<<msg[w].job, i>>}
        /\ todo' = [todo EXCEPT ![w] = @ \ {i}]
    /\ UNCHANGED <<dbVars, apiVars, gaveUp, pc, msg, ver, seen, faultVars>>

(* Mutant: the job is marked RUNNING after the fan-out instead of before.  *)
FanoutDone_MarksRunning(w) ==
    /\ Goto(w, "fanout", "ack")
    /\ todo[w] = {}
    /\ jobs' = [jobs EXCEPT ![msg[w].job].status = "running"]
    /\ UNCHANGED <<dataset, images, annotations, apiVars, brokerVars,
                   msg, todo, ver, seen, faultVars>>

FanoutDone(w) ==
    /\ Goto(w, "fanout", "ack")
    /\ todo[w] = {}
    /\ UNCHANGED <<dbVars, apiVars, brokerVars, msg, todo, ver, seen, faultVars>>

(* enqueue_job declares no retry: an exception, in the middle of the       *)
(* fan-out too, fails the task, and a failed task is acknowledged.         *)
EnqueueFails(w) ==
    /\ pc[w] \in {"update", "fanout"}
    /\ brokerFaults < MaxBrokerFaults
    /\ brokerFaults' = brokerFaults + 1
    /\ pc' = [pc EXCEPT ![w] = "ack"]
    /\ todo' = [todo EXCEPT ![w] = {}]
    /\ UNCHANGED <<dbVars, apiVars, brokerVars, msg, ver, seen, failures, redeliveries>>

-----------------------------------------------------------------------------
(* The task process_image.                                                 *)

(* Another transaction has updated the image row and not committed yet.    *)
RowLocked(i) ==
    \E w \in Worker : pc[w] = "commit" /\ msg[w].image = i /\ images[i] # "absent"

(* Mutant: the first transaction does not mark the image PROCESSING.       *)
Load_KeepsStatus(w) ==
    /\ Goto(w, "load", "version")
    /\ images[msg[w].image] # "absent"
    /\ UNCHANGED <<dbVars, apiVars, brokerVars, msg, todo, ver, seen, faultVars>>

(* First transaction.  SQLAlchemy writes nothing when the image already is *)
(* PROCESSING, so only a real change waits for the row lock.               *)
Load(w) ==
    LET i == msg[w].image
    IN  /\ Goto(w, "load", "version")
        /\ images[i] # "absent"
        /\ images[i] = "processing" \/ ~RowLocked(i)
        /\ images' = [images EXCEPT ![i] = "processing"]
        /\ UNCHANGED <<dataset, jobs, annotations, apiVars, brokerVars,
                       msg, todo, ver, seen, faultVars>>

LoadMissing(w) ==
    /\ Goto(w, "load", "ack")
    /\ images[msg[w].image] = "absent"
    /\ UNCHANGED <<dbVars, apiVars, brokerVars, msg, todo, ver, seen, faultVars>>

(* The pipeline runs; a second transaction reads the highest version.      *)
ReadVersion(w) ==
    /\ Goto(w, "version", "bump")
    /\ ver' = [ver EXCEPT ![w] = NextVersion(annotations, msg[w].image)]
    /\ UNCHANGED <<dbVars, apiVars, brokerVars, msg, todo, seen, faultVars>>

(* It updates the image row, which locks it until the commit, and          *)
(* _bump_job reads the job row, which does not lock it.                    *)
UpdateImage(w) ==
    /\ Goto(w, "bump", "commit")
    /\ ~RowLocked(msg[w].image)
    /\ seen' = [seen EXCEPT ![w] = jobs[msg[w].job]]
    /\ UNCHANGED <<dbVars, apiVars, brokerVars, msg, todo, ver, faultVars>>

(* Mutant: the job completes one image early.                              *)
BumpJob_OffByOne(current, read, processed, failed) ==
    [current EXCEPT
        !.processed = read.processed + processed,
        !.status = IF read.processed + processed + failed + 1 >= read.total
                   THEN "completed" ELSE @]

(* Mutant: the job completes only past its total.                          *)
BumpJob_Strict(current, read, processed, failed) ==
    [current EXCEPT
        !.processed = read.processed + processed,
        !.status = IF read.processed + processed + failed > read.total
                   THEN "completed" ELSE @]

(* Mutant: a finished job is not counted any more.                         *)
BumpJob_SkipsFinished(current, read, processed, failed) ==
    IF read.status = "completed"
    THEN current
    ELSE [current EXCEPT
            !.processed = read.processed + processed,
            !.status = IF read.processed + processed + failed >= read.total
                       THEN "completed" ELSE @]

(* What _bump_job makes of the current row, having read it as "read": the  *)
(* counters are written as absolute values and only when they changed, the *)
(* status only when it was not COMPLETED already.                          *)
BumpJob(current, read, processed, failed) ==
    LET newProcessed == read.processed + processed
        newFailed == read.failed + failed
        finished == newProcessed + newFailed >= read.total
    IN  [status |-> IF finished /\ read.status # "completed"
                    THEN "completed" ELSE current.status,
         total |-> current.total,
         processed |-> IF processed = 0 THEN current.processed ELSE newProcessed,
         failed |-> IF failed = 0 THEN current.failed ELSE newFailed]

(* Mutant: the table has no unique key.                                    *)
InsertAllowed_NoUniqueKey(w) ==
    /\ images[msg[w].image] # "absent"
    /\ jobs[msg[w].job].status # "absent"

(* The insert meets the unique key and both foreign keys.                  *)
InsertAllowed(w) ==
    /\ images[msg[w].image] # "absent"
    /\ jobs[msg[w].job].status # "absent"
    /\ ~KeyTaken(annotations, msg[w].image, ver[w])

(* Mutant: an upsert in the literal sense, the latest row is overwritten.  *)
CommitEffect_Upserts(w) ==
    LET i == msg[w].image
        j == msg[w].job
        v == IF ver[w] = 1 THEN 1 ELSE ver[w] - 1
        others == {r \in annotations : r.image # i \/ r.version # v}
    IN  /\ annotations' = Insert(others, i, v, j)
        /\ images' = [images EXCEPT ![i] = "annotated"]
        /\ jobs' = [jobs EXCEPT ![j] = BumpJob(@, seen[w], 1, 0)]
        /\ UNCHANGED dataset

CommitEffect(w) ==
    LET i == msg[w].image
        j == msg[w].job
    IN  /\ annotations' = Insert(annotations, i, ver[w], j)
        /\ images' = [images EXCEPT ![i] = "annotated"]
        /\ jobs' = [jobs EXCEPT ![j] = BumpJob(@, seen[w], 1, 0)]
        /\ UNCHANGED dataset

Commit(w) ==
    /\ Goto(w, "commit", "ack")
    /\ InsertAllowed(w)
    /\ CommitEffect(w)
    /\ CloseSession(w)
    /\ UNCHANGED <<apiVars, brokerVars, faultVars>>

(* Mutant: the counter is committed in a transaction of its own.           *)
CommitRejected_KeepsBump(w) ==
    LET j == msg[w].job
    IN  /\ Goto(w, "commit", "except")
        /\ ~InsertAllowed(w)
        /\ jobs' = IF jobs[j].status = "absent"
                   THEN jobs
                   ELSE [jobs EXCEPT ![j] = BumpJob(@, seen[w], 1, 0)]
        /\ CloseSession(w)
        /\ UNCHANGED <<dataset, images, annotations, apiVars, brokerVars, faultVars>>

(* IntegrityError: the transaction rolls back into the except clause.      *)
CommitRejected(w) ==
    /\ Goto(w, "commit", "except")
    /\ ~InsertAllowed(w)
    /\ CloseSession(w)
    /\ UNCHANGED <<dbVars, apiVars, brokerVars, faultVars>>

(* The server commits and the connection breaks before the worker knows.   *)
CommitUnacknowledged(w) ==
    /\ Goto(w, "commit", "except")
    /\ InsertAllowed(w)
    /\ failures < MaxFailures
    /\ failures' = failures + 1
    /\ CommitEffect(w)
    /\ CloseSession(w)
    /\ UNCHANGED <<apiVars, brokerVars, brokerFaults, redeliveries>>

(* Any statement of the try block raises: storage, a model, the database.  *)
TaskRaises(w) ==
    /\ pc[w] \in {"load", "version", "bump", "commit"}
    /\ failures < MaxFailures
    /\ failures' = failures + 1
    /\ pc' = [pc EXCEPT ![w] = "except"]
    /\ CloseSession(w)
    /\ UNCHANGED <<dbVars, apiVars, brokerVars, brokerFaults, redeliveries>>

-----------------------------------------------------------------------------
(* Mutant: one retry fewer than max_retries.                               *)
RetryRaises_OffByOne(r, exc) ==
    IF r + 1 < MaxRetries THEN "Retry"
    ELSE IF exc # "None" THEN exc ELSE "MaxRetriesExceededError"

(* Mutant: retry raises MaxRetriesExceededError whatever it is given, as   *)
(* the handler expects.                                                    *)
RetryRaises_AsDocumented(r, exc) ==
    IF r + 1 <= MaxRetries THEN "Retry" ELSE "MaxRetriesExceededError"

(* The except clause.  Celery's retry(exc = exc), called by a task that    *)
(* was retried r times already: past max_retries it raises the exception   *)
(* it was given, and MaxRetriesExceededError only when given none.         *)
RetryRaises(r, exc) ==
    IF r + 1 <= MaxRetries THEN "Retry"
    ELSE IF exc # "None" THEN exc ELSE "MaxRetriesExceededError"

(* Mutant: the exception is swallowed, the task is not published again.    *)
Retry_Swallowed(w) ==
    /\ Goto(w, "except", "ack")
    /\ RetryRaises(msg[w].retries, "exc") = "Retry"
    /\ UNCHANGED <<dbVars, apiVars, brokerVars, msg, todo, ver, seen, faultVars>>

Retry(w) ==
    /\ Goto(w, "except", "ack")
    /\ RetryRaises(msg[w].retries, "exc") = "Retry"
    /\ Put(ProcessMsg(msg[w].job, msg[w].image, msg[w].retries + 1))
    /\ UNCHANGED <<dbVars, apiVars, sent, gaveUp, msg, todo, ver, seen, faultVars>>

(* Publishing the retry fails: Celery raises Reject without requeue.       *)
RetryRejected(w) ==
    /\ Goto(w, "except", "ack")
    /\ RetryRaises(msg[w].retries, "exc") = "Retry"
    /\ brokerFaults < MaxBrokerFaults
    /\ brokerFaults' = brokerFaults + 1
    /\ gaveUp' = gaveUp \cup {<<msg[w].job, msg[w].image, "rejected">>}
    /\ UNCHANGED <<dbVars, apiVars, queue, sent, msg, todo, ver, seen,
                   failures, redeliveries>>

(* The handler of MaxRetriesExceededError.                                 *)
MarkFailed(w) ==
    LET i == msg[w].image
        j == msg[w].job
    IN  /\ images' = IF images[i] = "absent" THEN images
                     ELSE [images EXCEPT ![i] = "failed"]
        /\ jobs' = IF jobs[j].status = "absent" THEN jobs
                   ELSE [jobs EXCEPT ![j] = BumpJob(@, @, 0, 1)]

(* The retries are used up: the task ends, handled or failed, and is       *)
(* acknowledged.                                                           *)
GiveUp(w) ==
    LET raised == RetryRaises(msg[w].retries, "exc")
    IN  /\ Goto(w, "except", "ack")
        /\ raised # "Retry"
        /\ IF raised = "MaxRetriesExceededError"
           THEN MarkFailed(w)
           ELSE UNCHANGED <<images, jobs>>
        /\ gaveUp' = gaveUp \cup {<<msg[w].job, msg[w].image, "exhausted">>}
        /\ UNCHANGED <<dataset, annotations, apiVars, queue, sent,
                       msg, todo, ver, seen, faultVars>>

-----------------------------------------------------------------------------

(* What a worker does on its own, without a fault.                         *)
WorkerStep(w) ==
    \/ Receive(w) \/ Ack(w)
    \/ MarkRunning(w) \/ Publish(w) \/ FanoutDone(w)
    \/ Load(w) \/ LoadMissing(w) \/ ReadVersion(w) \/ UpdateImage(w)
    \/ Commit(w) \/ CommitRejected(w)
    \/ Retry(w) \/ GiveUp(w)

Fault(w) ==
    \/ Crash(w) \/ VisibilityTimeout(w)
    \/ EnqueueFails(w) \/ TaskRaises(w)
    \/ CommitUnacknowledged(w) \/ RetryRejected(w)

Client(j) ==
    \/ SelectPending(j) \/ CommitJob(j) \/ CommitJobFails(j)
    \/ Dispatch(j) \/ DispatchFails(j)
    \/ LoadForCancel(j) \/ CommitCancel(j)

Next ==
    \/ \E j \in Job : Client(j)
    \/ DeleteDataset
    \/ \E w \in Worker : WorkerStep(w) \/ Fault(w)

Spec == Init /\ [][Next]_vars

(* Celery polls its queue and the database releases its locks: a worker    *)
(* that can take a step of its own eventually does.  Clients owe nothing.  *)
FairSpec == Spec /\ \A w \in Worker : WF_vars(WorkerStep(w))

-----------------------------------------------------------------------------
(* The states of the system.  A job of the code is never "failed": nothing *)
(* in the repository writes JobStatus.FAILED.                              *)
DbTypeOK ==
    /\ dataset \in BOOLEAN
    /\ jobs \in [Job -> JobRow]
    /\ images \in [Image -> ImageStatus]
    /\ annotations \subseteq Annotation
    /\ IsFiniteSet(annotations)

ApiTypeOK ==
    /\ req \in [Job -> {"none", "selected", "committed", "dispatched", "error"}]
    /\ selected \in [Job -> SUBSET Image]
    /\ cancel \in [Job -> {"none", "loaded", "done"}]

BrokerTypeOK ==
    /\ queue \in [Message -> Nat]
    /\ sent \subseteq Job \X Image
    /\ gaveUp \subseteq Job \X Image \X {"exhausted", "rejected"}

(* What a worker holds is a message of the task its pc is in.              *)
WorkerTypeOK ==
    /\ pc \in [Worker -> {"idle", "update", "fanout", "load", "version",
                          "bump", "commit", "except", "ack"}]
    /\ msg \in [Worker -> Message \cup {NoMsg}]
    /\ todo \in [Worker -> SUBSET Image]
    /\ ver \in [Worker -> Nat]
    /\ seen \in [Worker -> JobRow]
    /\ \A w \in Worker :
        /\ pc[w] # "idle" => msg[w] \in Message
        /\ pc[w] \in {"update", "fanout"} => msg[w].name = "enqueue_job"
        /\ pc[w] \in {"load", "version", "bump", "commit", "except"} =>
               msg[w] \in ProcessMessage

FaultTypeOK ==
    /\ failures \in 0 .. MaxFailures
    /\ brokerFaults \in 0 .. MaxBrokerFaults
    /\ redeliveries \in 0 .. MaxRedeliveries

(* Type invariant: every table, request, message and worker keeps its      *)
(* shape, and a worker inside process_image holds a process_image message. *)
TypeOK == DbTypeOK /\ ApiTypeOK /\ BrokerTypeOK /\ WorkerTypeOK /\ FaultTypeOK

-----------------------------------------------------------------------------
(* Safety, under every interleaving, redelivery and fault.                 *)

(* "The full lineage is preserved": whatever tasks race to compute the     *)
(* next version of an image from a stale read, its versions are 1, 2, ...  *)
(* with no gap and no repetition (tasks.py:93-113, annotation.py:17-24).   *)
VersionLineage == \A i \in Image : LineageComplete(annotations, i)

(* The counter of a job lags behind its annotation rows at worst: lost     *)
(* updates and roll-backs never make it count an annotation that was not   *)
(* committed (_bump_job in the transaction of the insert).                 *)
CounterNeverAhead ==
    \A j \in Job : jobs[j].processed <= Cardinality(JobRows(annotations, j))

(* A job is declared COMPLETED only when it has committed as many rows as  *)
(* it has images, although the worker decides it on a stale read and other *)
(* handlers overwrite the status (tasks.py:149-150).                       *)
CompletedIsBacked ==
    \A j \in Job :
        jobs[j].status = "completed" =>
            Cardinality(JobRows(annotations, j)) + jobs[j].failed >= jobs[j].total

(* acks_late with reject_on_worker_lost: a published task is waiting, or   *)
(* held by a worker, or has left its row, or was given up after its last   *)
(* retry or a refused one, or its dataset is deleted.                      *)
NothingSentIsLost ==
    \A j \in Job, i \in Image :
        <<j, i>> \in sent =>
            \/ \E r \in 0 .. MaxRetries : queue[ProcessMsg(j, i, r)] > 0
            \/ \E w \in Worker, r \in 0 .. MaxRetries : msg[w] = ProcessMsg(j, i, r)
            \/ \E row \in annotations : row.image = i /\ row.job = j
            \/ \E why \in {"exhausted", "rejected"} : <<j, i, why>> \in gaveUp
            \/ images[i] = "absent"

(* A PENDING image has no annotation and no worker is at it: create_job    *)
(* and a resume that select PENDING images never take one twice that a     *)
(* task has begun (tasks.py:69, job_service.py:24-30).                     *)
PendingIsUntouched ==
    \A i \in Image :
        images[i] = "pending" =>
            /\ RowsOf(annotations, i) = {}
            /\ \A w \in Worker :
                ~(pc[w] \in {"version", "bump", "commit"} /\ msg[w].image = i)

-----------------------------------------------------------------------------
(* Safety while no fault occurs, with any number of workers and jobs.      *)

(* One annotation per task key (job_id, image_id) (ARCHITECTURE.md:140,    *)
(* tasks.py:3-4).                                                          *)
NoDuplicateAnnotations ==
    \A a, b \in annotations :
        a.image = b.image /\ a.job = b.job => a = b

(* COMPLETED means that every image the job selected has its annotation.   *)
CompletedMeansAllAnnotated ==
    \A j \in Job :
        jobs[j].status = "completed" =>
            \A i \in selected[j] :
                \E row \in annotations : row.image = i /\ row.job = j

(* Jobs that annotate the same image collide on its next version; as long  *)
(* as there are at most MaxRetries + 1 jobs, retrying resolves every       *)
(* collision and no task is given up.                                      *)
ConflictsAreRetried == gaveUp = {}

(* The fan-out writes RUNNING before it publishes the first task, and a    *)
(* bump that read the job before its completion writes no status but       *)
(* COMPLETED: while nothing is redelivered, no worker takes COMPLETED back *)
(* (tasks.py:44-52, 149-151).                                              *)
CompletedIsNotRevived ==
    [][\A j \in Job :
        jobs[j].status = "completed" => jobs'[j].status \notin {"queued", "running"}]_vars

(* The job counters are exact (tasks.py:4: "updated atomically").          *)
CountersExact ==
    \A j \in Job :
        jobs[j].status # "absent" =>
            jobs[j].processed = Cardinality(JobRows(annotations, j))

(* A message of job j waits, or a worker has not acknowledged one.         *)
Moving(j) ==
    \/ \E m \in Message : m.job = j /\ queue[m] > 0
    \/ \E w \in Worker : pc[w] # "idle" /\ msg[w].job = j

(* Job j was cancelled, one of its tasks given up, or a publish refused.   *)
Excused(j) ==
    \/ cancel[j] # "none"
    \/ \E t \in gaveUp : t[1] = j
    \/ brokerFaults > 0

(* No job is left behind: with a single worker, a dispatched job of some   *)
(* images that is QUEUED or RUNNING while nothing of it is under way was   *)
(* cancelled, or a task of it was given up, or a publish was refused;      *)
(* whatever is raised or delivered again, the fan-out that marks it        *)
(* RUNNING after its completion included (tasks.py:44-52, 144-150).        *)
NoJobIsStranded ==
    \A j \in Job :
        /\ req[j] = "dispatched" /\ selected[j] # {}
        /\ jobs[j].status \in {"queued", "running"}
        /\ ~Moving(j)
        => Excused(j)

-----------------------------------------------------------------------------
(* The inductive invariant behind the safety properties.                   *)

(* A version that a worker computed is at most one above what is committed *)
(* when it inserts: stale, it is taken; else it is the next.               *)
VersionFresh ==
    \A w \in Worker :
        pc[w] \in {"bump", "commit"} /\ images[msg[w].image] # "absent" =>
            ver[w] \in 1 .. Cardinality(RowsOf(annotations, msg[w].image)) + 1

(* Messages exist only for jobs whose row was committed before.            *)
OnlyDispatched ==
    /\ \A m \in Message : queue[m] > 0 => req[m.job] = "dispatched"
    /\ \A w \in Worker : pc[w] # "idle" => req[msg[w].job] = "dispatched"

(* retry is given the exception, so no task is ever counted as failed.     *)
FailedIsZero == \A j \in Job : jobs[j].failed = 0

(* "poison messages -> dead-letter + Job.failed++" (ARCHITECTURE.md:141)   *)
(* never happens: once the retries are used up, retry raises the exception *)
(* it was given, so that the handler of MaxRetriesExceededError is dead    *)
(* (tasks.py:130-140); no image is marked and none counted, whatever       *)
(* fails, collides or is delivered again.                                  *)
NothingIsMarkedFailed == FailedIsZero /\ \A i \in Image : images[i] # "failed"

(* The job row a worker read is behind the rows that are committed now.    *)
SeenIsBehind ==
    \A w \in Worker :
        pc[w] = "commit" /\ jobs[msg[w].job].status # "absent" =>
            /\ seen[w].processed <= Cardinality(JobRows(annotations, msg[w].job))
            /\ seen[w].failed = 0
            /\ seen[w].total = jobs[msg[w].job].total

(* A process_image message of image i of job j waits for a worker.         *)
Waiting(j, i) == \E r \in 0 .. MaxRetries : queue[ProcessMsg(j, i, r)] > 0

(* A worker is at it, and has not finished.                                *)
HeldBy(w, j, i) ==
    /\ pc[w] \notin {"idle", "ack"}
    /\ \E r \in 0 .. MaxRetries : msg[w] = ProcessMsg(j, i, r)

Annotated(j, i) == \E row \in annotations : row.image = i /\ row.job = j

Settled(j, i) ==
    \/ Annotated(j, i)
    \/ \E why \in {"exhausted", "rejected"} : <<j, i, why>> \in gaveUp
    \/ images[i] = "absent"

(* A published task that has not been dropped by a worker: it waits, is    *)
(* worked at, or is resolved.                                              *)
Alive(j, i) == Waiting(j, i) \/ (\E w \in Worker : HeldBy(w, j, i)) \/ Settled(j, i)

SentIsAlive == \A j \in Job, i \in Image : <<j, i>> \in sent => Alive(j, i)

(* What the proofs of the properties above show to be preserved by every   *)
(* step.                                                                   *)
IInv ==
    /\ TypeOK /\ VersionLineage /\ VersionFresh
    /\ OnlyDispatched /\ FailedIsZero /\ SeenIsBehind
    /\ CounterNeverAhead /\ CompletedIsBacked
    /\ SentIsAlive /\ PendingIsUntouched

-----------------------------------------------------------------------------
(* The inductive invariants behind exactness.  Each holds under the        *)
(* hypothesis its theorem names.                                           *)

(* Rows belong to dispatched jobs, images and messages of a job are among  *)
(* those it selected, and its total counts these.  Under any fault.        *)
SelectedOnly ==
    /\ \A j \in Job :
        jobs[j].status # "absent" =>
            req[j] \notin {"none", "selected"} /\ jobs[j].total = Cardinality(selected[j])
    /\ \A row \in annotations :
        req[row.job] = "dispatched" /\ row.image \in selected[row.job]
    /\ \A m \in ProcessMessage :
        queue[m] > 0 \/ (\E w \in Worker : pc[w] # "idle" /\ msg[w] = m) =>
            m.image \in selected[m.job]
    /\ \A w \in Worker : pc[w] = "fanout" => todo[w] \subseteq selected[msg[w].job]

(* With a single worker the job row it read is still the current one.      *)
SeenIsCurrent ==
    \A w \in Worker :
        pc[w] = "commit" /\ jobs[msg[w].job].status # "absent" =>
            seen[w].processed = jobs[msg[w].job].processed

(* A worker is at the fan-out of job j.                                    *)
FanningOut(w, j) == pc[w] \in {"update", "fanout"} /\ msg[w] = EnqueueMsg(j)

(* The fan-out has still to publish image i of job j, if it selected it.   *)
Unpublished(j, i) ==
    \/ req[j] # "dispatched"
    \/ queue[EnqueueMsg(j)] > 0
    \/ \E w \in Worker : FanningOut(w, j) /\ (pc[w] = "update" \/ i \in todo[w])

(* Unless a publish was refused, an image that a dispatched job selected   *)
(* was published or is in the fan-out.  With any number of workers.        *)
AllPublished ==
    \A j \in Job : \A i \in selected[j] :
        brokerFaults = 0 => <<j, i>> \in sent \/ Unpublished(j, i)

(* With a single worker nobody revives the job while a task that has read  *)
(* it as COMPLETED is about to commit.                                     *)
SeenStaysCompleted ==
    \A w \in Worker :
        pc[w] = "commit" /\ seen[w].status = "completed" =>
            jobs[msg[w].job].status \in {"completed", "cancelled", "absent"}

(* With a single worker, an unfinished job that has reached its total      *)
(* waits for another of its tasks, which completes it again.               *)
ReachedIsMoving ==
    \A j \in Job :
        /\ req[j] = "dispatched" /\ selected[j] # {}
        /\ jobs[j].status \in {"queued", "running"}
        /\ jobs[j].processed >= jobs[j].total
        => \/ Excused(j)
           \/ \E i \in selected[j] :
                Unpublished(j, i) \/ Waiting(j, i) \/ \E w \in Worker : HeldBy(w, j, i)

(* Without redelivery, the fan-out of a job is in one place.               *)
FanoutOnce ==
    \A j \in Job :
        /\ queue[EnqueueMsg(j)] <= 1
        /\ \A w \in Worker :
            FanningOut(w, j) =>
                /\ queue[EnqueueMsg(j)] = 0
                /\ \A v \in Worker : FanningOut(v, j) => v = w

(* A task is in one place at most: to be published, waiting once under one *)
(* number of retries, or held by one worker.                               *)
OnePlace(j, i) ==
    /\ Unpublished(j, i) => ~Waiting(j, i)
    /\ \A r, s \in 0 .. MaxRetries :
        queue[ProcessMsg(j, i, r)] > 0 /\ queue[ProcessMsg(j, i, s)] > 0 =>
            r = s /\ queue[ProcessMsg(j, i, r)] = 1
    /\ \A w \in Worker :
        HeldBy(w, j, i) =>
            /\ ~Unpublished(j, i) /\ ~Waiting(j, i)
            /\ \A v \in Worker : HeldBy(v, j, i) => v = w

(* Without redelivery, every task is in one place.                         *)
TaskOnce == \A j \in Job, i \in Image : OnePlace(j, i)

(* Without redelivery, a COMPLETED job has begun to publish.               *)
CompletedIsStarted ==
    \A j \in Job :
        jobs[j].status = "completed" => \E i \in Image : ~Unpublished(j, i)

(* Without redelivery or failure, an annotated task is nowhere else.       *)
AnnotatedIsDone ==
    \A j \in Job, i \in Image :
        Annotated(j, i) =>
            /\ ~Unpublished(j, i) /\ ~Waiting(j, i)
            /\ \A w \in Worker : ~HeldBy(w, j, i)

(* Without any fault or deletion, a task was retried only because others   *)
(* took its version: as often as its image has rows at most.               *)
RetriesAreBacked ==
    /\ \A j \in Job, i \in Image, r \in 0 .. MaxRetries :
        queue[ProcessMsg(j, i, r)] > 0 => r <= Cardinality(RowsOf(annotations, i))
    /\ \A w \in Worker :
        LET rows == Cardinality(RowsOf(annotations, msg[w].image))
        IN  /\ pc[w] \in {"load", "version"} => msg[w].retries <= rows
            /\ pc[w] \in {"bump", "commit"} => msg[w].retries < ver[w]
            /\ pc[w] = "except" => msg[w].retries < rows

(* Without deletion, the images and the committed jobs stay.               *)
NothingDeleted ==
    /\ \A i \in Image : images[i] # "absent"
    /\ \A j \in Job : req[j] \in {"committed", "dispatched"} => jobs[j].status # "absent"

-----------------------------------------------------------------------------
(* What the documents say and the code does not do.                        *)

(* "job already finished" (jobs.py:86-87): a COMPLETED job keeps its       *)
(* status until its dataset is deleted; no client cancels it.              *)
CompletedIsFinal ==
    [][\A j \in Job :
        jobs[j].status = "completed" => jobs'[j].status \in {"completed", "absent"}]_vars

-----------------------------------------------------------------------------
(* Liveness.                                                               *)

(* Every published task is resolved: it leaves a row, or is given up, or   *)
(* its dataset is gone, through redeliveries, collisions and retries.      *)
EverySentTaskResolves ==
    \A j \in Job, i \in Image :
        <<j, i>> \in sent ~>
            \/ \E row \in annotations : row.image = i /\ row.job = j
            \/ \E why \in {"exhausted", "rejected"} : <<j, i, why>> \in gaveUp
            \/ images[i] = "absent"

(* A dispatched job with images that nobody cancels becomes COMPLETED for  *)
(* good.  True for a single worker as long as failures are fewer than the  *)
(* retries.                                                                *)
JobCompletes ==
    \A j \in Job :
        req[j] = "dispatched" /\ selected[j] # {} ~>
            \/ [](jobs[j].status = "completed")
            \/ cancel[j] # "none"

-----------------------------------------------------------------------------
(* The annotations table implements the append-only log of AnnotationLog.  *)

Log == INSTANCE AnnotationLog WITH
    Author <- Job,
    open <- dataset,
    log <- [i \in Image |-> Lineage(annotations, i)]

(* Every step of the system appends one annotation to one image's log,     *)
(* deletes the whole dataset, or leaves the logs alone: no version is ever *)
(* changed, removed or inserted below another (annotation.py:17-18).       *)
ImplementsAnnotationLog == Log!Spec

=============================================================================
