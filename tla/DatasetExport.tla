--------------------------- MODULE DatasetExport ----------------------------
(***************************************************************************)
(* A dataset from its registration to its exports: the handlers that       *)
(* register images, ask for an export, cancel it and delete the dataset,   *)
(* and the workers that run export_dataset, statement by statement, while  *)
(* the pipeline annotates and reviewers decide.                            *)
(*                                                                         *)
(* The pipeline and the reviewers are here by what AnnotationLog promises  *)
(* of them: each image has a log of annotations, of which a decision may   *)
(* change the status, REJECTED or not, and never the detections.           *)
(***************************************************************************)
EXTENDS Exporters

CONSTANTS
    Image,              \* images that clients may register
    Request,            \* requests that register images
    Job,                \* export jobs that clients may ask for
    Worker,             \* Celery worker processes on the export queue
    Batch,              \* the images each request registers
    FileOf, SizeOf,     \* file name of an image, its size, 0 where NULL
    Detections,         \* the detections of each version of each image
    Format,             \* the formats that clients ask for
    MayCancel,          \* whether clients may cancel exports
    MayDelete,          \* whether the dataset may be deleted
    MaxRedeliveries,    \* bound: messages redelivered to another worker
    MaxDecisions,       \* bound: decisions of reviewers
    MaxFailures,        \* bound: exports the object storage refuses
    NoJob

ASSUME DataAssumption ==
    /\ IsFiniteSet(Image)
    /\ Batch \in [Request -> (SUBSET Image) \ {{}}]
    /\ \A q, r \in Request : q # r => Batch[q] \cap Batch[r] = {}
    /\ DOMAIN FileOf = Image
    /\ SizeOf \in [Image -> Nat \X Nat]
    /\ Detections \in [Image -> Seq(Seq(LabelledBox))]
    /\ Format \subseteq Formats

ASSUME BoundsAssumption ==
    /\ {MayCancel, MayDelete} \subseteq BOOLEAN
    /\ MaxRedeliveries \in Nat
    /\ MaxDecisions \in Nat
    /\ MaxFailures \in Nat

VARIABLES
    \* the database
    dataset,        \* its row: whether it exists, image_count and status
    images,         \* the images that have a row
    log,            \* for each image, the status of each of its annotations
    jobs,           \* status and total of each export job
    \* the API handlers
    reg,            \* progress of each registration and the count it loaded
    req, format,    \* progress of each export request and its format
    cancel,         \* progress of each cancellation
    asked,          \* history: the images that were there when an export was
                    \* asked for, each with its version
    touched,        \* history: the images annotated or decided on since then
    \* the broker and the object storage
    queue,          \* how many copies of each export message wait
    files,          \* the objects of the storage: the file of each export job
    failed,         \* history: the exports of which a task raised
    \* the workers
    pc, held,       \* next statement; the job of the message it holds
    todo, read,     \* images still to read; the images read, in order
    seen,           \* the job row the task loaded
    decisions, redeliveries, failures

apiVars    == <<reg, req, format, cancel, asked>>
brokerVars == <<queue, files, failed>>
workerVars == <<pc, held, todo, read, seen>>
faultVars  == <<decisions, redeliveries, failures>>
vars       == <<dataset, images, log, jobs, touched,
                apiVars, brokerVars, workerVars, faultVars>>

NoRow == [status |-> "absent", total |-> 0]

Init ==
    /\ dataset = [exists |-> TRUE, count |-> 0, status |-> "created"]
    /\ images = {}
    /\ log = [i \in Image |-> <<>>]
    /\ jobs = [j \in Job |-> NoRow]
    /\ reg = [q \in Request |-> [at |-> "none", count |-> 0]]
    /\ req = [j \in Job |-> "none"]
    /\ format = [j \in Job |-> "none"]
    /\ cancel = [j \in Job |-> "none"]
    /\ asked = [j \in Job |-> <<>>]
    /\ touched = [j \in Job |-> {}]
    /\ queue = [j \in Job |-> 0]
    /\ files = <<>>
    /\ failed = {}
    /\ pc = [w \in Worker |-> "idle"]
    /\ held = [w \in Worker |-> NoJob]
    /\ todo = [w \in Worker |-> {}]
    /\ read = [w \in Worker |-> <<>>]
    /\ seen = [w \in Worker |-> NoRow]
    /\ decisions = 0
    /\ redeliveries = 0
    /\ failures = 0

-----------------------------------------------------------------------------
(* Mutant: rejected annotations are exported too.                          *)
Annotations_KeepsRejected(i, statuses) ==
    IF statuses = <<>> THEN <<>> ELSE Detections[i][Len(statuses)]

(* What an export takes from an image: the detections of its latest        *)
(* annotation, none where it has none or that one is REJECTED.             *)
Annotations(i, statuses) ==
    IF statuses = <<>> \/ Last(statuses) = "rejected"
    THEN <<>>
    ELSE Detections[i][Len(statuses)]

(* What an image shows to a reader of its annotations: nothing, or the     *)
(* detections of its last annotation where that one stands.                *)
Shown(i, statuses) ==
    IF statuses # <<>> /\ statuses[Len(statuses)] = "kept"
    THEN Detections[i][Len(statuses)]
    ELSE <<>>

(* History: image i has changed since the exports that were asked for.     *)
Touch(i) ==
    touched' = [j \in Job |-> IF req[j] = "none" THEN {} ELSE touched[j] \cup {i}]

-----------------------------------------------------------------------------
(* API: register_images.  The handler loads the dataset row, adds the      *)
(* images and writes image_count as the number it loaded plus theirs; its  *)
(* session commits at the end.                                             *)

LoadForRegister(q) ==
    /\ reg[q].at = "none"
    /\ dataset.exists
    /\ reg' = [reg EXCEPT ![q] = [at |-> "loaded", count |-> dataset.count]]
    /\ UNCHANGED <<dataset, images, log, jobs, touched, req, format, cancel, asked,
                   brokerVars, workerVars, faultVars>>

(* Mutant: the count is written, the images are left to a later request.   *)
CommitRegister_CountOnly(q) ==
    /\ reg[q].at = "loaded"
    /\ dataset.exists
    /\ dataset' = [dataset EXCEPT !.count = reg[q].count + Cardinality(Batch[q]),
                                  !.status = "ready"]
    /\ reg' = [reg EXCEPT ![q].at = "done"]
    /\ UNCHANGED <<images, log, jobs, touched, req, format, cancel, asked,
                   brokerVars, workerVars, faultVars>>

CommitRegister(q) ==
    /\ reg[q].at = "loaded"
    /\ dataset.exists
    /\ images' = images \cup Batch[q]
    /\ dataset' = [dataset EXCEPT !.count = reg[q].count + Cardinality(Batch[q]),
                                  !.status = "ready"]
    /\ reg' = [reg EXCEPT ![q].at = "done"]
    /\ UNCHANGED <<log, jobs, touched, req, format, cancel, asked,
                   brokerVars, workerVars, faultVars>>

(* The foreign key to the dataset refuses the images.                      *)
RegisterFails(q) ==
    /\ reg[q].at = "loaded"
    /\ ~dataset.exists
    /\ reg' = [reg EXCEPT ![q].at = "error"]
    /\ UNCHANGED <<dataset, images, log, jobs, touched, req, format, cancel, asked,
                   brokerVars, workerVars, faultVars>>

(* The pipeline writes the next version of an image; AnnotationLog!Write.  *)
Annotate(i) ==
    /\ i \in images
    /\ Len(log[i]) < Len(Detections[i])
    /\ \E status \in {"kept", "rejected"} : log' = [log EXCEPT ![i] = Append(@, status)]
    /\ Touch(i)
    /\ UNCHANGED <<dataset, images, jobs, apiVars, brokerVars, workerVars, faultVars>>

(* A reviewer decides on an annotation.                                    *)
Decide(i) ==
    /\ decisions < MaxDecisions
    /\ decisions' = decisions + 1
    /\ \E v \in DOMAIN log[i], status \in {"kept", "rejected"} :
        log' = [log EXCEPT ![i][v] = status]
    /\ Touch(i)
    /\ UNCHANGED <<dataset, images, jobs, apiVars, brokerVars, workerVars,
                   redeliveries, failures>>

(* Deleting the dataset cascades to its images, annotations and jobs.      *)
DeleteDataset ==
    /\ MayDelete
    /\ dataset.exists
    /\ dataset' = [dataset EXCEPT !.exists = FALSE]
    /\ images' = {}
    /\ log' = [i \in Image |-> <<>>]
    /\ jobs' = [j \in Job |-> NoRow]
    /\ UNCHANGED <<touched, apiVars, brokerVars, workerVars, faultVars>>

-----------------------------------------------------------------------------
(* API: create_export commits its job, then publishes the task.  As for    *)
(* any job, the total is the number of PENDING images, of which the model  *)
(* knows only that they have no annotation.                                *)

CommitExportJob(j) ==
    /\ req[j] = "none"
    /\ dataset.exists
    /\ \E pending \in 0 .. Cardinality({i \in images : log[i] = <<>>}) :
        jobs' = [jobs EXCEPT ![j] = [status |-> "queued", total |-> pending]]
    /\ req' = [req EXCEPT ![j] = "committed"]
    /\ \E f \in Format : format' = [format EXCEPT ![j] = f]
    /\ asked' = [asked EXCEPT ![j] = [i \in images |-> Len(log[i])]]
    /\ UNCHANGED <<dataset, images, log, touched, reg, cancel,
                   brokerVars, workerVars, faultVars>>

(* A publish that the broker refuses, or an API process that dies, is a    *)
(* Dispatch that never comes.                                              *)
Dispatch(j) ==
    /\ req[j] = "committed"
    /\ queue' = [queue EXCEPT ![j] = @ + 1]
    /\ req' = [req EXCEPT ![j] = "dispatched"]
    /\ UNCHANGED <<dataset, images, log, jobs, touched, reg, format, cancel, asked,
                   files, failed, workerVars, faultVars>>

(* API: cancel_job, as for any job: a load, and a write at the commit.     *)
LoadForCancel(j) ==
    /\ MayCancel
    /\ cancel[j] = "none"
    /\ jobs[j].status = "queued"
    /\ cancel' = [cancel EXCEPT ![j] = "loaded"]
    /\ UNCHANGED <<dataset, images, log, jobs, touched, reg, req, format, asked,
                   brokerVars, workerVars, faultVars>>

CommitCancel(j) ==
    /\ cancel[j] = "loaded"
    /\ cancel' = [cancel EXCEPT ![j] = "done"]
    /\ jobs' = IF jobs[j].status = "absent" THEN jobs
               ELSE [jobs EXCEPT ![j].status = "cancelled"]
    /\ UNCHANGED <<dataset, images, log, touched, reg, req, format, asked,
                   brokerVars, workerVars, faultVars>>

-----------------------------------------------------------------------------
(* The worker and the broker.                                              *)

Release(w) ==
    /\ pc' = [pc EXCEPT ![w] = "idle"]
    /\ held' = [held EXCEPT ![w] = NoJob]
    /\ todo' = [todo EXCEPT ![w] = {}]
    /\ read' = [read EXCEPT ![w] = <<>>]
    /\ seen' = [seen EXCEPT ![w] = NoRow]

Receive(w) ==
    /\ pc[w] = "idle"
    /\ \E j \in Job :
        /\ queue[j] > 0
        /\ queue' = [queue EXCEPT ![j] = @ - 1]
        /\ held' = [held EXCEPT ![w] = j]
    /\ pc' = [pc EXCEPT ![w] = "select"]
    /\ UNCHANGED <<dataset, images, log, jobs, touched, apiVars, files, failed,
                   todo, read, seen, faultVars>>

Ack(w) ==
    /\ pc[w] = "ack"
    /\ Release(w)
    /\ UNCHANGED <<dataset, images, log, jobs, touched, apiVars, brokerVars, faultVars>>

(* Mutant: without task_reject_on_worker_lost the message is gone.         *)
Crash_Drops(w) ==
    /\ pc[w] # "idle"
    /\ redeliveries < MaxRedeliveries
    /\ redeliveries' = redeliveries + 1
    /\ Release(w)
    /\ UNCHANGED <<dataset, images, log, jobs, touched, apiVars, brokerVars,
                   decisions, failures>>

(* The worker process dies: its message comes back, its transaction rolls  *)
(* back, and a file it stored stays.                                       *)
Crash(w) ==
    /\ pc[w] # "idle"
    /\ redeliveries < MaxRedeliveries
    /\ redeliveries' = redeliveries + 1
    /\ queue' = [queue EXCEPT ![held[w]] = @ + 1]
    /\ Release(w)
    /\ UNCHANGED <<dataset, images, log, jobs, touched, apiVars, files, failed,
                   decisions, failures>>

(* The export outlives the visibility timeout: two workers are at it.      *)
VisibilityTimeout(w) ==
    /\ pc[w] # "idle"
    /\ redeliveries < MaxRedeliveries
    /\ redeliveries' = redeliveries + 1
    /\ queue' = [queue EXCEPT ![held[w]] = @ + 1]
    /\ UNCHANGED <<dataset, images, log, jobs, touched, apiVars, files, failed,
                   workerVars, decisions, failures>>

-----------------------------------------------------------------------------
(* The task export_dataset.                                                *)

(* Mutant: only the images that have an annotation are selected.           *)
SelectImages_Annotated(w) ==
    /\ pc[w] = "select"
    /\ todo' = [todo EXCEPT ![w] = {i \in images : log[i] # <<>>}]
    /\ pc' = [pc EXCEPT ![w] = "read"]
    /\ UNCHANGED <<dataset, images, log, jobs, touched, apiVars, brokerVars,
                   held, read, seen, faultVars>>

(* Mutant: an export of a dataset without images returns at once.          *)
SelectImages_ReturnsEmpty(w) ==
    /\ pc[w] = "select"
    /\ todo' = [todo EXCEPT ![w] = images]
    /\ pc' = [pc EXCEPT ![w] = IF images = {} THEN "ack" ELSE "read"]
    /\ UNCHANGED <<dataset, images, log, jobs, touched, apiVars, brokerVars,
                   held, read, seen, faultVars>>

SelectImages(w) ==
    /\ pc[w] = "select"
    /\ todo' = [todo EXCEPT ![w] = images]
    /\ pc' = [pc EXCEPT ![w] = "read"]
    /\ UNCHANGED <<dataset, images, log, jobs, touched, apiVars, brokerVars,
                   held, read, seen, faultVars>>

(* One statement per image; the order of the select is the database's.     *)
ReadLatest(w) ==
    /\ pc[w] = "read"
    /\ \E i \in todo[w] :
        /\ todo' = [todo EXCEPT ![w] = @ \ {i}]
        /\ read' = [read EXCEPT ![w] =
                Append(@, [image |-> i, file |-> FileOf[i], size |-> SizeOf[i],
                           anns |-> Annotations(i, log[i])])]
    /\ UNCHANGED <<dataset, images, log, jobs, touched, apiVars, brokerVars,
                   pc, held, seen, faultVars>>

ClassNames(exported) ==
    UNION {{a.label : a \in ToSet(exported[k].anns)} : k \in DOMAIN exported}

(* The exporter serializes what was read and the file is put in the object *)
(* storage, over the file of an earlier delivery.                          *)
StoreFile(w) ==
    /\ pc[w] = "read"
    /\ todo[w] = {}
    /\ ~Raises(format[held[w]], read[w])
    /\ files' = [j \in DOMAIN files \cup {held[w]} |->
            IF j = held[w]
            THEN [exported |-> [k \in DOMAIN read[w] |-> read[w][k].image],
                  body |-> Export(format[j], read[w], ClassNames(read[w]))]
            ELSE files[j]]
    /\ pc' = [pc EXCEPT ![w] = "load"]
    /\ UNCHANGED <<dataset, images, log, jobs, touched, apiVars, queue, failed,
                   held, todo, read, seen, faultVars>>

(* The exporter raises, or the storage refuses the file.  The task has no  *)
(* handler and no retry: it fails, and a failed task is acknowledged.      *)
ExportRaises(w) ==
    /\ pc[w] = "read"
    /\ todo[w] = {}
    /\ \/ /\ Raises(format[held[w]], read[w])
          /\ UNCHANGED failures
       \/ /\ failures < MaxFailures
          /\ failures' = failures + 1
    /\ failed' = failed \cup {held[w]}
    /\ pc' = [pc EXCEPT ![w] = "ack"]
    /\ UNCHANGED <<dataset, images, log, jobs, touched, apiVars, queue, files,
                   held, todo, read, seen, decisions, redeliveries>>

(* Mutant: the task does not ask whether the job still exists.             *)
LoadJob_Unchecked(w) ==
    /\ pc[w] = "load"
    /\ seen' = [seen EXCEPT ![w] = jobs[held[w]]]
    /\ pc' = [pc EXCEPT ![w] = "commit"]
    /\ UNCHANGED <<dataset, images, log, jobs, touched, apiVars, brokerVars,
                   held, todo, read, faultVars>>

LoadJob(w) ==
    /\ pc[w] = "load"
    /\ seen' = [seen EXCEPT ![w] = jobs[held[w]]]
    /\ pc' = [pc EXCEPT ![w] = IF jobs[held[w]].status = "absent" THEN "ack" ELSE "commit"]
    /\ UNCHANGED <<dataset, images, log, jobs, touched, apiVars, brokerVars,
                   held, todo, read, faultVars>>

(* The session writes a column only where the value differs from the one   *)
(* it loaded.                                                              *)
Written(current, loaded, value) == IF value = loaded THEN current ELSE value

(* Mutant: the task counts the images it finds when it completes.          *)
CommitExport_CountsAnew(w) ==
    LET j == held[w]
    IN  /\ pc[w] = "commit"
        /\ jobs' = IF jobs[j].status = "absent" THEN jobs
                   ELSE [jobs EXCEPT ![j] = [status |-> "completed",
                                             total |-> Cardinality(images)]]
        /\ pc' = [pc EXCEPT ![w] = "ack"]
        /\ UNCHANGED <<dataset, images, log, touched, apiVars, brokerVars,
                       held, todo, read, seen, faultVars>>

CommitExport(w) ==
    LET j == held[w]
    IN  /\ pc[w] = "commit"
        /\ jobs' =
            IF jobs[j].status = "absent" THEN jobs
            ELSE [jobs EXCEPT ![j] =
                    [status |-> Written(@.status, seen[w].status, "completed"),
                     total |-> Written(@.total, seen[w].total, Len(read[w]))]]
        /\ pc' = [pc EXCEPT ![w] = "ack"]
        /\ UNCHANGED <<dataset, images, log, touched, apiVars, brokerVars,
                       held, todo, read, seen, faultVars>>

-----------------------------------------------------------------------------

WorkerStep(w) ==
    \/ Receive(w) \/ Ack(w)
    \/ SelectImages(w) \/ ReadLatest(w) \/ StoreFile(w) \/ ExportRaises(w)
    \/ LoadJob(w) \/ CommitExport(w)

Client ==
    \/ \E q \in Request : LoadForRegister(q) \/ CommitRegister(q) \/ RegisterFails(q)
    \/ \E j \in Job : CommitExportJob(j) \/ Dispatch(j)
    \/ \E j \in Job : LoadForCancel(j) \/ CommitCancel(j)
    \/ DeleteDataset

Next ==
    \/ Client
    \/ \E i \in Image : Annotate(i) \/ Decide(i)
    \/ \E w \in Worker : WorkerStep(w) \/ Crash(w) \/ VisibilityTimeout(w)

Spec == Init /\ [][Next]_vars

(* Celery polls its queue: a worker that can take a step does.  Nobody     *)
(* else owes anything.                                                     *)
FairSpec == Spec /\ \A w \in Worker : WF_vars(WorkerStep(w))

-----------------------------------------------------------------------------
RowTypeOK ==
    /\ dataset \in [exists : BOOLEAN, count : Nat, status : {"created", "ready"}]
    /\ images \subseteq Image
    /\ log \in [Image -> Seq({"kept", "rejected"})]
    /\ jobs \in [Job -> [status : {"absent", "queued", "completed", "cancelled"},
                        total : Nat]]

ApiTypeOK ==
    /\ reg \in [Request -> [at : {"none", "loaded", "done", "error"}, count : Nat]]
    /\ req \in [Job -> {"none", "committed", "dispatched"}]
    /\ format \in [Job -> Format \cup {"none"}]
    /\ cancel \in [Job -> {"none", "loaded", "done"}]

WorkerTypeOK ==
    /\ queue \in [Job -> Nat]
    /\ failed \subseteq Job
    /\ pc \in [Worker -> {"idle", "select", "read", "load", "commit", "ack"}]
    /\ held \in [Worker -> Job \cup {NoJob}]
    /\ todo \in [Worker -> SUBSET Image]
    /\ \A w \in Worker :
        /\ pc[w] # "idle" => held[w] \in Job
        /\ pc[w] = "commit" => seen[w].status # "absent"
        /\ \A k \in DOMAIN read[w] : read[w][k].image \notin todo[w]

(* Type invariant: rows, requests and workers keep their shape, no image   *)
(* is annotated beyond its detections or read twice, and a task completes  *)
(* only a job it has loaded (the tables written by register_images,        *)
(* create_export, cancel_job and export_dataset).                          *)
TypeOK ==
    /\ RowTypeOK /\ ApiTypeOK /\ WorkerTypeOK
    /\ \A i \in Image : Len(log[i]) <= Len(Detections[i])

(* Whether a reader of the stored file takes the k-th image of it to have  *)
(* these annotations.                                                      *)
FileShows(j, k, anns) ==
    LET i == files[j].exported[k]
    IN  ReadsAs(format[j], SizeOf[i],
                Decoded(format[j], files[j].body, [file |-> FileOf[i], size |-> SizeOf[i]], k),
                anns)

(* A COMPLETED export has its file.  The file has every image that was     *)
(* there when the export was asked for, none twice.  Read in its format,   *)
(* an archive by the names of its entries, it shows of each image what the *)
(* image shows if nobody has changed it since, and nothing or a version no *)
(* older than that moment's if somebody has: the labels in their order and *)
(* the boxes as precisely as the format writes them.  Excepted is an image *)
(* of an archive whose stem a later image has.  All this although each     *)
(* image is read on its own, between registrations, annotations and        *)
(* decisions, and deliveries overwrite each other's files                  *)
(* (tasks.py:154-206).                                                     *)
ExportShowsRequest ==
    \A j \in Job :
        jobs[j].status = "completed" =>
            /\ j \in DOMAIN files
            /\ DOMAIN asked[j] \subseteq ToSet(files[j].exported)
            /\ IsInjective(files[j].exported)
            /\ \A k \in DOMAIN files[j].exported :
                LET exported == files[j].exported
                    i == exported[k]
                    known == IF i \in DOMAIN asked[j] THEN asked[j][i] ELSE 0
                    possible == IF i \in touched[j]
                                THEN {<<>>} \cup {Detections[i][v] :
                                                    v \in Max({1, known}) .. Len(log[i])}
                                ELSE {Shown(i, log[i])}
                IN  \/ Hidden(format[j], [m \in DOMAIN exported |-> FileOf[exported[m]]], k)
                    \/ \E anns \in possible : FileShows(j, k, anns)

(* In a stored COCO file, ids number the annotations of all images 1, 2,   *)
(* ..., and each image_id and category_id names exactly one image and one  *)
(* category (coco.py:14-47).                                               *)
CocoIsKeyed ==
    \A j \in DOMAIN files :
        format[j] = "coco" =>
            LET body == files[j].body
                anns == body.annotations
            IN  \A p \in DOMAIN anns :
                    /\ anns[p].id = p
                    /\ \E k \in DOMAIN body.images : anns[p].image_id = body.images[k].id
                    /\ Cardinality({c \in body.categories : c.id = anns[p].category_id}) = 1

(* As long as no message is delivered twice, the total of a COMPLETED      *)
(* export is the number of images of its file (tasks.py:203).              *)
TotalMatchesFile ==
    \A j \in Job :
        jobs[j].status = "completed" /\ redeliveries = 0 =>
            jobs[j].total = Len(files[j].exported)

(* Concurrent registrations lose counts, and still: image_count is never   *)
(* above the number of images, and it is 0, the dataset CREATED, only      *)
(* while there is none (dataset_service.py:60-61).                         *)
CountIsPlausible ==
    dataset.exists =>
        /\ dataset.count <= Cardinality(images)
        /\ images = {} <=> dataset.count = 0
        /\ images = {} <=> dataset.status = "created"

(* A worker is at the export of job j and has not finished.                *)
AtWork(w, j) == pc[w] \notin {"idle", "ack"} /\ held[w] = j

(* An export that was dispatched is not left behind: while it is QUEUED    *)
(* its message waits, or a worker is at it, or a task of it raised; over   *)
(* crashes, overlapping deliveries and a commit that writes only what      *)
(* differs from the row the task loaded (celery_app.py:25-27,              *)
(* tasks.py:195-206).                                                      *)
NoExportIsStranded ==
    \A j \in Job :
        req[j] = "dispatched" /\ jobs[j].status = "queued" =>
            queue[j] > 0 \/ j \in failed \/ \E w \in Worker : AtWork(w, j)

(* A task about to complete an export that is still QUEUED loaded it so:   *)
(* its commit writes the status.                                           *)
SeenIsQueued ==
    \A w \in Worker :
        pc[w] = "commit" /\ jobs[held[w]].status = "queued" => seen[w].status = "queued"

(* An export whose message waits ends: COMPLETED at some moment, whatever  *)
(* clients cancel, whichever worker dies and however often its message is  *)
(* delivered, unless its task raised or the dataset is gone                *)
(* (celery_app.py:25-27, tasks.py:195-206).                                *)
ExportsEnd ==
    \A j \in Job :
        queue[j] > 0 ~>
            jobs[j].status \in {"completed", "absent"} \/ j \in failed

=============================================================================
