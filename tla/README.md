# Formal verification of the Foundation-Model Auto-Annotation Pipeline

TLA+ modules that model the program in `src/`, TLC configurations that check
them on small instances, and TLAPS proofs of the main results for instances of
any size. This document is the inventory of the system, the correspondence of
the models and the code, what each run and each theorem shows, and the plan of
what is not modelled.

    tlc -workers 2 -config Jobs_faults.cfg MCInferenceJobs
    tlapm InferenceJobsProofs.tla

## 1. The system

A FastAPI backend stores datasets, images, jobs, annotations and reviews in
PostgreSQL. Celery workers take tasks from Redis, run a five-stage pipeline of
foundation models on each image and write versioned annotations. Reviewers
approve, reject or correct annotations; an active-learning task puts uncertain
ones back in their queue; an export task writes the latest ones to a file.

| component | state | operations | talks to |
|---|---|---|---|
| inference jobs (`job_service.py`, `endpoints/jobs.py`, `workers/tasks.py`) | `jobs`: status, total, processed, failed; `images.status` | create_job, dispatch_inference, cancel_job, enqueue_job, process_image, _bump_job | broker (publish), database (transactions), pipeline (call), object storage |
| broker and worker runtime (`celery_app.py`) | waiting and unacknowledged messages | deliver, ack late, redeliver after a crash or a timeout, retry with countdown | every task |
| annotations table (`models/annotation.py`) | rows keyed (image_id, version), status, source | insert next version, update status | written by process_image, submit_review, run_active_learning |
| reviews (`review_service.py`, `endpoints/reviews.py`) | `reviews` rows, `annotations.status` | load, approve, reject, correct | annotations table, audit |
| active learning (`run_active_learning`, `mining.py`) | none of its own | rank the latest annotations, update every version of a candidate | annotations table |
| exports (`create_export`, `export_dataset`, `ml/exporters/`) | the job row, a file | commit, publish, read the latest annotation of each image, format, store, complete | annotations, object storage, broker |
| datasets (`dataset_service.py`, `endpoints/datasets.py`) | `datasets.image_count`, `status`, `images` | create, register images, delete with cascades | every table |
| model registry (`ml/registry.py`) | four slots, one lock | lazy property of each model | called by every pipeline run of the process |
| pipeline and confidence (`ml/pipeline.py`, `ml/confidence/engine.py`, `ml/models/`) | none across runs | detect, segment, validate, score, caption, score again, route | registry |
| local scripts (`annotate_local.py`, `annotate_local_real.py`) | the images done, the files written | run each image of a directory, write overlays, COCO file and summary | pipeline or models of their own, exporters |
| authentication (`rbac.py`, `security.py`, `deps.py`) | users, roles, tokens | login, refresh, require_permission | every handler |
| audit, model runs, metrics, API shell, migrations, frontend, deployment | | read-only, one-shot or configuration | |

What makes it hard:

* **Interleaving.** Every worker process and every request has its own session
  at READ COMMITTED. `_bump_job` reads a row, adds one and writes an absolute
  value; `process_image` and `submit_review` compute a version from an earlier
  read; `register_images` adds to a count it loaded; `cancel_job` checks a status
  it loaded before it writes; `export_dataset` reads every image in a statement
  of its own.
* **Delivery.** `acks_late` and `task_reject_on_worker_lost` deliver a task
  again after a crash, the visibility timeout even while it runs; a retry is a
  new message; a publish may be refused.
* **Partial failure.** Commit and publish are two systems; a fan-out can stop
  half way; a correction can be refused after its review was added; an export
  can raise with its job QUEUED, a batch with half of its overlays written.
* **Numbers.** Routing and ranking compare scores of several formulas with
  thresholds; identifiers of five file formats must name what they refer to.
* **Locks.** Row locks of PostgreSQL order some of the writes and not others;
  the registry uses one thread lock for four models.

What correctness means for each component is stated by the properties of
section 4; the components not modelled are those of section 7.

## 2. Modules

| module | models |
|---|---|
| `AnnotationTable` | the annotations table as operators on a set of rows: next version, unique key, insert, lineage. Stateless, shared |
| `AnnotationLog` | what the table promises: an append-only log per image that only deletion of the dataset clears |
| `InferenceJobs` | jobs: API handlers, broker, workers, faults; implements `AnnotationLog` |
| `AnnotationReview` | reviews and active learning against the pipeline's inserts; implements `AnnotationLog` |
| `LoadedModels` | what the model registry promises: each model is loaded once |
| `ModelRegistry` | the registry's double-checked locking under runs of the pipeline; implements `LoadedModels` |
| `Exporters` | the five file formats and what a reader gets back from each, as operators |
| `DatasetExport` | registration, export requests, cancellation, deletion, and the workers on the export queue; the other writers of annotations by what `AnnotationLog` promises |
| `ConfidenceEngine` | boxes, scores and routing, as operators on integers |
| `Mining` | the ranking of `mining.py` |
| `LocalAnnotation` | a batch of images through the stages, the models and the scripts, over `Mining` and `Exporters` |
| `MCInferenceJobs`, `MCAnnotationReview`, `MCModelRegistry`, `MCDatasetExport`, `MCLocalAnnotation` | the modules TLC checks: symmetry sets and instances |
| `AnnotationTableProofs`, `ConfidenceEngineProofs`, `ExportersProofs` | lemmas and theorems on the operators |
| `InferenceJobsProofs`, `AnnotationReviewProofs`, `ModelRegistryProofs`, `DatasetExportProofs`, `LocalAnnotationProofs` | theorems |

`InferenceJobs` and `AnnotationReview` are two views of the same table. Each
keeps the other's writers in reduced form: `InferenceJobs` has no reviewers,
`AnnotationReview` has the pipeline as a read followed by an insert, without
counters and broker. Both prove the same promise, `AnnotationLog`, and
`DatasetExport` takes the annotations of an image by that promise alone: a log
that grows at its end, whose entries keep their detections and change their
status.

### InferenceJobs

A step is one statement whose effect another process can see.

| code | actions |
|---|---|
| `create_job` selects PENDING images, inserts, commits, then publishes | `SelectPending`, `CommitJob`/`CommitJobFails`, `Dispatch`/`DispatchFails` |
| `cancel_job` loads and checks, writes at commit | `LoadForCancel`, `CommitCancel` |
| delete a dataset, with cascades | `DeleteDataset` |
| `enqueue_job` | `MarkRunning`, `Publish` (one per image), `FanoutDone`, `EnqueueFails` |
| `process_image`, first transaction | `Load`, `LoadMissing` |
| second transaction | `ReadVersion`, `UpdateImage` (takes the row lock; `_bump_job` reads), `Commit`/`CommitRejected`/`CommitUnacknowledged` |
| `except` clause | `TaskRaises`, `Retry`, `RetryRejected`, `GiveUp` |
| Celery and Redis | `Receive`, `Ack`, `Crash`, `VisibilityTimeout` |

`pc[w]` is the statement a worker is at, `msg[w]` the message it has not
acknowledged, `ver[w]` and `seen[w]` what it read and has still to use.
`BumpJob` is the effect of `_bump_job` on the current row given the row that was
read: the ORM writes absolute values, and only of attributes that changed.
`RetryRaises` is Celery's `retry(exc=...)`, which past `max_retries` raises the
exception it was given.

Abstractions. The pipeline's run is part of `ReadVersion`. A row loaded and
marked RUNNING, and a cascade delete, are single steps: another session cannot
see between. An update that finds its row deleted is one of the exceptions
of `TaskRaises`. The queue is a bag: redelivery and countdowns reorder it.
Sizes, names, detections and timestamps are left out. The dataset is one: rows
of different datasets never meet.

### AnnotationReview

| code | actions |
|---|---|
| `process_image`, as the table sees it | `ReadVersion`, `InsertPipelineRow`, `InsertConflicts` |
| `submit` loads the annotation | `LoadAnnotation` |
| `submit_review`, flush and commit | `Approve`, `Reject`, `Correct`, `CorrectConflicts` |
| `run_active_learning` | `StartMining`, `ScanImage` (a statement per image), `FlagImage` (an update per candidate, locks its rows), `CommitMining`, `AbortMining` |

A request holds the row and the status it loaded. `AssignStatus` writes only a
status that differs from the loaded one, as the session does, and then waits for
the row lock of a mining transaction. The confidence of a row is reduced to
whether `score_candidates` ranks it (`uncertain`); a row routed to REJECTED is
always ranked with the thresholds of the code, the others may be or not. There is
one mining task at a time, the dataset is not deleted here, and a redelivered
task is one more job.

### ModelRegistry

Threads run `AutoAnnotationPipeline.run` again and again. `Check`, `Acquire`,
`Recheck`, `Load`, `Store`, `Release`, `Return` are the statements of a registry
property, which has the same text for each of the four models; `LoadRaises`
leaves the `with` block by an exception. `Infer`, `RecordVersion`, `StageRaises`
are the stages; `Runs` has their conditions, with an overall confidence that is
inside the VLM gate or not. The worker deployments run one task per process;
the registry is written for threads, and is checked as such.

### Exporters and DatasetExport

| code | actions |
|---|---|
| `register_images` loads the dataset, writes its count at commit | `LoadForRegister`, `CommitRegister`/`RegisterFails` |
| `create_export` commits its job, publishes | `CommitExportJob`, `Dispatch` |
| `cancel_job`, delete a dataset | `LoadForCancel`, `CommitCancel`, `DeleteDataset` |
| the pipeline and reviewers, by `AnnotationLog` | `Annotate`, `Decide` |
| `export_dataset` | `SelectImages`, `ReadLatest` (a statement per image), `StoreFile`/`ExportRaises`, `LoadJob`, `CommitExport` |
| Celery, Redis | `Receive`, `Ack`, `Crash`, `VisibilityTimeout` |

`todo[w]` and `read[w]` are the images a task has selected and read; `files[j]`
is the object stored under the key of job j, which has the job's id, so that two
deliveries write the same one; a job without an object is not in the domain. `Written` is the session's rule that only changed
columns are updated. `asked` and `touched` are history: the images and versions
at the request, and the images changed since.

`Exporters` has one operator per format. A label is a number, in the order in
which the code sorts its strings; a box is in thousandths of a pixel. Each format
loses what the code loses: `PascalVOC` truncates the corners to whole pixels
(`WholePixels`), `YoloLine` rounds centre and extent apart to six decimals, `CVAT`
rounds the corners to two; a number written with so many decimals is an integer
count of its last one. Only the error of the doubles below that is left out; a
quotient that LabelStudio writes in full is a pair of numbers.

`Decoded` reads each format back as its consumers do: it is the reference that
`ExportShowsRequest` compares the file with. A reader opens an entry of a YOLO or
Pascal VOC archive by its name, as `tests/unit/test_exporters.py:38` does, and of
several entries with one name it gets the last (`EntryNamed`). Where two images
have one stem, `yolo.py:34` and `voc.py:42` write one name twice, and the earlier
image is `Hidden`. `ReadsAs` compares labels exactly, and the sides of the boxes
within the `Precision` of the format: less than a pixel in Pascal VOC, half a
hundredth in CVAT, a millionth of the image in YOLO, not at all in the others.

### ConfidenceEngine, Mining and LocalAnnotation

Scores are ten-thousandths, the precision to which the code rounds them; products
round down where the code keeps doubles, and the exponential is the start of its
series, within two ten-thousandths. Boxes are tenths of pixels; of a mask only its extent
matters, since that is all `_mask_bbox_iou` uses.

| code | actions |
|---|---|
| `AutoAnnotationPipeline.run`, stages 1 to 5 | `Detect`, `Segment`, `Validate`, `ScoreNext`, `ScorePreliminary`, `Caption`, `ScoreNext`, `Finish` |
| the batch loops of the two scripts | `Finish`, `WriteFiles`, `StageRaises` |
| the mocks of Grounding DINO, SAM 2 and CLIP | `MockDetects`, `MockRaises`, `MockSegment`, `MockClip` |

`runner` is the program: `annotate_local` with mocks or models, or
`annotate_local_real`, which has no segmentation, no gate and no VLM.
`ScoreNext` is one turn of the loop of `score_image`. `results` has what
`process_image` stores as an annotation's `confidence` and mining reads.

## 3. Fairness

Safety runs use no fairness. `InferenceJobs!FairSpec` has weak fairness of
`WorkerStep(w)`, a worker's own steps without faults: Celery polls its queue,
and statements return, since every lock of the code is held only up to a commit
that follows. Nothing is assumed of clients, faults, or of which message is
taken. `DatasetExport!FairSpec` is the same for the workers of the export queue;
there too `Dispatch` is owed by nobody. `ModelRegistry!FairSpec` has weak fairness
of `RunStep(t)`: the interpreter schedules every thread and a call of a model
ends; no run has to start. Python's lock is not fair; weak fairness is enough because a thread that
waits for it can be overtaken only by loads, of which finitely many raise.

## 4. Runs

Runs that pass:

| run | instance | shows |
|---|---|---|
| `Jobs_faults` | 1 job, 2 images, 2 workers; one exception, one refused publish, one redelivery, deletion of the dataset | `CounterNeverAhead`, `CompletedIsBacked`, `NothingSentIsLost`, `PendingIsUntouched`, `NothingIsMarkedFailed`; `EverySentTaskResolves` under fairness |
| `Jobs_fault_free` | 3 jobs on the same 2 images, 2 workers, no fault | `NoDuplicateAnnotations`, `CompletedMeansAllAnnotated`, `ConflictsAreRetried`, `CompletedIsNotRevived`, `VersionLineage`, `ImplementsAnnotationLog` |
| `Jobs_one_worker` | 2 jobs, one of which clients may cancel, 2 images, 1 worker, one exception, one redelivery | `CountersExact`, `NoJobIsStranded`, `JobCompletes`: what the counters promise holds as long as nothing runs in parallel |
| `Reviews` | 2 jobs on 1 image, 3 review requests, active learning | `VersionLineage`, `CorrectionsMatchReviews`, `QueueLeftByDecision`, `ImplementsAnnotationLog` |
| `Registry` | 2 threads, 2 loads that raise | `SingleCopy`, `LoadsOnce`; `RunsEnd` under fairness |
| `Exports` | 2 images, 2 registrations, 1 export in any of 5 formats, 1 worker; up to two versions of an image, one decision, one refused file, cancel, deletion | `ExportShowsRequest`, `CocoIsKeyed`, `TotalMatchesFile`, `CountIsPlausible` |
| `Exports_overlap` | 2 images, 1 export, 2 workers, one crash or visibility timeout, one refused file, cancel | `ExportShowsRequest` when deliveries overlap, `NoExportIsStranded`; `ExportsEnd` under fairness |
| `Local` | 2 images, 3 programs, every option, 4 scenes, 2 answers of SAM 2 and of CLIP, one exception | `ApprovedIsSegmented`, `GateAgrees`, `UnapprovedIsRanked`, `RankingBands`, `CocoIsComplete` |

Runs that find a violation, each of what a document, a comment or a check of the
code says:

| run | property | what happens |
|---|---|---|
| `Jobs_lost_update` | `CountersExact` | two workers of one job read the same counter; an increment is lost and the job may stay RUNNING for ever |
| `Jobs_redelivered` | `NoDuplicateAnnotations` | a task redelivered after its commit inserts a second row: the version is computed anew, so nothing is upserted |
| `Jobs_cancel_race` | `CompletedIsFinal` | `cancel_job` loads a RUNNING job, its last task completes it, and the request writes CANCELLED over COMPLETED |
| `Reviews_no_effect` | `DecisionsTakeEffect` | a request that decides what it had loaded writes nothing, although the status changed meanwhile |

Bounds and why they are enough. `MaxFailures`, `MaxBrokerFaults`,
`MaxRedeliveries` and `MaxRaises` bound how often the environment misbehaves;
the hazards are about one fault meeting one step of another process, so one of
each together with two processes reaches them (the violation runs need no more,
and each property of a passing run is violated by a small change of the code
within its own bounds). `MaxRetries` is 3 in the code and 1 or 2 here; the
proofs have it arbitrary. `Jobs_fault_free` has three jobs with two retries,
the largest collision that its retries must resolve. `Reviews` needs two
requests for every conflict of reviewers and a third to meet mining or a
correction of a correction. Deadlock is checked in `Reviews` and `Registry`;
the job and export runs switch it off because a system whose jobs are done and
whose bounded faults are used up stops, `Local` because a script ends. Symmetry
is used only in runs without liveness.

The images of `Exports` differ where formats can fail: a size that is missing,
classes that appear out of order, one or two detections, boxes at fractions of a
pixel in an image of 7 by 6, so that truncation and both roundings lose
something. Their stems differ: what an archive does with equal stems is a theorem
(`LastStemWins`). Its one worker meets every writer; `Exports_overlap` has
the second worker, in one format and without deletion, since what one delivery
does to another lies in the key and the job row. The scenes of `Local` are the
edges of the engine: no detection, a box of one pixel (whose mask, ending at its
last pixel, has no area), one sure and one unsure detection, and five, more than
`max_detections_per_image`, of which the weakest may be one; masks fill the box
or are empty.

## 5. Proofs

All constants are arbitrary: any sets of jobs, images, workers, requests and
threads, any bounds. Assumed are only that the sets of jobs and images are
finite, that the bounds are naturals, that `NoThread` is not a thread, that the
batches of a registration are disjoint and not empty, and that models answer with
scores. Six theorems of `InferenceJobsProofs` have hypotheses of their own, on
the bounds of the faults or the number of workers. The theorem names them, and the
run that checks the property is an instance of them.

Every safety invariant and every action property of a passing run is a theorem.

### Jobs

* **AnnotationTableProofs.** Inserting a version that is free and at most one
  above the row count makes it exactly the next one (`InsertKeepsLineage`),
  appends to the image's log (`InsertAppends`) and leaves the others alone.
* **InferenceJobsProofs, under every fault.** `VersionLineage` is not inductive:
  that an insert does not leave a gap depends on the version having been read
  from a table that was complete and only grew since. `LineageInv` adds
  `VersionFresh`, the version of a worker that is about to commit is at most one
  above the rows there are, and typing, which needs the lineage in turn (the next
  version is a number because the versions are 1..n). `CounterInv` adds that the
  row `_bump_job` read is behind the current one, that no message exists of a job
  that is not committed, and that `failed` is 0; from it `CounterNeverAhead` and
  `CompletedIsBacked`. `SentIsAlive` strengthens `NothingSentIsLost` by leaving
  out the workers that only have the ack to do. `AnnotationsAreALog` is the
  refinement: every step of the system is a write, a deletion or a stutter of
  `AnnotationLog`. It uses the unique key as an invariant (a key finds one row,
  and the same one in a larger table) and that images exist only with their
  dataset. Theorems: `TypeCorrect`, `LineagePreserved`, `CounterIsNeverAhead`,
  `CompletionIsBacked`, `NothingIsCountedFailed`, `NothingIsLost`,
  `PendingImagesAreUntouched`, `AnnotationsAreALog`. `NothingIsCountedFailed` adds
  to `failed` = 0 that no step marks an image FAILED: the handler of
  `MaxRetriesExceededError` is dead, for any `MaxRetries`.
* **InferenceJobsProofs, under a hypothesis.** What the code promises of a job
  as a whole holds only while some fault stays away:

  | theorem | property | holds when | any number of |
  |---|---|---|---|
  | `CompletionIsNotRevived` | `CompletedIsNotRevived` | nothing is redelivered | failures, refused publishes, workers; deletion, cancellation |
  | `NoDuplicates` | `NoDuplicateAnnotations` | nothing is redelivered or raises | refused publishes, workers, collisions; deletion, cancellation |
  | `CompletionIsComplete` | `CompletedMeansAllAnnotated` | the same | the same |
  | `CollisionsAreResolved` | `ConflictsAreRetried` | no fault, no deletion, at most `MaxRetries` + 1 jobs | workers, images; cancellation |
  | `CountersAreExact` | `CountersExact` | one worker | every fault |
  | `NoJobIsLeftBehind` | `NoJobIsStranded` | one worker | every fault |

  Without the hypotheses they are false of the code. `Jobs_redelivered` and
  `Jobs_lost_update` show it for duplicates and for counters. A redelivered
  fan-out writes RUNNING over COMPLETED, and with a second worker a lost increment
  leaves a job below its total for good. A commit whose acknowledgement is lost is
  retried and inserts again, which is why `NoDuplicates` excludes failures.

  The arguments. `OnceInv`: without redelivery the fan-out is in one place
  (`FanoutOnce`), and each task is to be published, waiting once under one number of
  retries, or held by one worker (`TaskOnce`); a COMPLETED job has begun to publish
  (`CompletedIsStarted`). The last conjunct gives `CompletionIsNotRevived`, since only
  the fan-out's first step writes RUNNING. `DoneInv`: without failures a task that
  has its row is in no place at all (`AnnotatedIsDone`), so it never inserts a
  second one. With `SelectedOnly`, the rows of a job are for images it selected
  and its total counts these, so as many rows as the total, no two for one image,
  are all of them: `CompletionIsComplete` is a counting argument over
  `CompletionIsBacked`. `CollisionInv`: a task was retried at most as often as its
  image has rows (`RetriesAreBacked`), each of another job by `DoneInv`.
  `CountersExact` needs that the only worker's row is the current one
  (`SeenIsCurrent`).

  `NoJobIsLeftBehind` is the safety half of `JobCompletes`: where the job stops,
  it was completed or has an excuse. An image that is not published is still in
  the fan-out (`AllPublished`, which holds with any number of workers), and a
  published one is alive (`SentIsAlive`). So if nothing of the job is under way
  and nothing was given up, all its images have rows; the exact counter has then
  reached the total, and what is left is that the status says so. A bump completes
  a job that it brings to its total. Only the redelivered fan-out of a COMPLETED job
  takes the status back, and then it publishes every task anew, each of which
  completes the job again (`ReachedIsMoving`); meanwhile no task that has read
  COMPLETED commits, since the one worker is at the fan-out (`SeenStaysCompleted`).

### Reviews and registry

* **AnnotationReviewProofs.** The same `LineageInv` with two kinds of writers:
  a correction takes the version above the one it loaded, which is at most one
  above the row count because loaded rows are rows. `CorrectionsMatchReviews` is
  inductive with it: were a version corrected twice, the row of the first
  correction would hold the key of the second. `QueueLeftByDecision` needs
  `ReviewsAreDone`, for the review of a step to be new. Theorems: `TypeCorrect`,
  `LineagePreserved`, `CorrectionsAreRecordedOnce`, `QueueIsLeftByDecision`,
  `ReviewsKeepTheLog`.
* **ModelRegistryProofs.** `RegistryInv`: the lock is held exactly inside the
  `with` block, a thread that loads has found the slot empty, and an object that is
  built and not in its slot is about to be stored. Theorems: `TypeCorrect`,
  `CopyIsSingle`, `EachModelLoadsOnce`.

### Exports

* **ExportersProofs.** `FormatsReadBack`: an export of any images that does not
  raise reads back as the detections it was written from, wherever the image has a
  size: the same labels in the same order, and boxes at any fractions of a pixel
  within the precision of the format. In an archive this holds for the images that
  no later one of the same stem hides; for the others `LastStemWins` says that a
  reader gets the annotations of the last. The proof is about rounding and
  numbering. What a side is off by comes from `TruncateMoves` and `RoundHalfMoves`;
  YOLO's sides are sums of two rounded parts (`RoundedSide`). `InOrder` of
  a finite set of labels is a bijection in which a label's place is one above its
  `ClassIndex` (`InOrderPlaces`), so YOLO's and COCO's class numbers name their
  class; the annotations of a COCO file are the blocks of its images one after
  the other, of which `AnnotationsBefore` is where each begins. Assumed is that the
  names given to the exporter have every label (`Named`), which `export_dataset`
  and the scripts see to. `CocoKeys`: ids number the
  annotations, each of an image and of exactly one category of the file.

  Sums and concatenations over sequences are recursive functions. What they
  compute is shown by induction over sets of numbers: `LeastNat`, a nonempty set of
  naturals has a least member, from the library's well-foundedness of < without its
  induction theorems, and `Induct`, a set that has 0 and the successor of each
  member has every natural. `Recursion` shows that a recursive definition over
  0..n has a solution, which CHOOSE then is.
* **DatasetExportProofs.** Typing needs `WorkerInv`: what a task has read is a
  sequence of images it no longer has to read, empty until it has selected them.
  `CountIsPlausible` needs, in `CountInv`, that a registration in flight has loaded
  at most the number of images there are, and that its own are not among them:
  the images it adds then raise the number of images by at least what it adds to
  its stale count.

  `ExportShowsRequest` rests on `DataInv`. `AskedInv`: what was there at the
  request is there still, and logs only grew. `ReadInv`: a task at its images
  covers the request with what it has read and has still to read, none twice, and
  each entry shows its image, or a version since the request if the image was
  touched, an invariant of concurrent annotations and decisions because each of
  them also touches the image. `FileInv`: each stored file was written from such a
  reading, whichever delivery wrote it last. `FormatsReadBack` takes this from the
  reading to what a reader sees, and `CocoKeys` gives `CocoIsKeyed`. `RequestInv`
  keeps a task from completing a job without a file. `TotalMatchesFile` needs
  `SingleInv`: without redelivery one task is at a job, no message of it is left,
  and the row it loaded is the one it commits to. `NoExportIsStranded` is the
  safety half of `ExportsEnd`; it needs `SeenIsQueued`, that a task about to
  complete a QUEUED job has loaded it QUEUED, for the session would otherwise leave
  the status out of its update. Theorems: `TypeCorrect`, `CountStaysPlausible`,
  `ExportsShowTheRequest`, `CocoFilesAreKeyed`, `TotalIsOfTheFile`,
  `NoExportIsLeftBehind`.

### Scores and batches

* **ConfidenceEngineProofs.** `MasklessBelowReview`: whatever the detector, CLIP
  and SAM 2 report, a detection whose mask does not overlap its box scores below
  `conf_human_review`. The weights alone allow 0.825; the entropy penalty of the
  spread between 0 and the other signals brings it to 0.47. The proof divides
  the weighted sum into intervals: where it is at least b, the signals are spread
  by at least some multiple of b squared (`SpreadBound`), which bounds the penalty
  (`ExpMinusBound`) and with it the product (`Interval`).
* **LocalAnnotationProofs.** `LocalInv` adds to typing `WeakestInv`, by which one
  maskless detection among those scored puts the weakest below the threshold;
  `IdleInv`, nothing is scored before the detections are final, so that what was
  scored is of them; and `ResultsInv`, every stored result came from
  `ScoreImage`, so that routing and ranking judge the same numbers. `CurrentInv`
  keeps the image at work within the batch. `ScoringInv` says what the loop of
  `score_image` has at each turn, the sum and the least of the scores so far: a
  function of the detections, so that the second scoring finds what the first
  gave the gate (`GateAgreesWithStored`). `FilesInv` keeps overlays, exports and
  results in step, and `FormatsReadBack` reads the file back
  (`CocoHasTheBatch`). `RankingHasBands` divides into `PriorityBands`, each band has
  an interval of priorities to itself, which in the last two fall as the confidence
  grows, and the order of `ScoreCandidates` by priority. Theorems: `LocalTypeOK`,
  `ApprovedNeedsMasks`, `UnapprovedAreRanked`, `GateAgreesWithStored`,
  `CocoHasTheBatch`, `RankingHasBands`.

### Only model-checked

* The four liveness properties, `EverySentTaskResolves`, `JobCompletes`,
  `ExportsEnd` and `RunsEnd`: fairness is defined by ENABLED, which the prover does
  not reason about. Of the first three a safety half is proved, that the system
  never rests in a state that the property excludes: `NothingIsLost`,
  `NoJobIsLeftBehind`, `NoExportIsLeftBehind`.
* What depends on the prover: `SelectSeq` and `SortSeq` are recursive operators
  of which the provers know nothing, so the formats have `InOrder`, and mining its
  ranking, defined by what they return. The induction theorems of the library take an operator as
  a parameter, hence the ones of `ExportersProofs` over sets.
* The four statements that the code violates are refuted by their runs.

## 6. Findings

1. `workers/tasks.py:147`: job counters lose increments under two workers,
   against "updated atomically".
2. `workers/tasks.py:99`: redelivery duplicates annotations, against "a
   redelivered task ... never produces duplicate annotations".
3. `endpoints/jobs.py:88`: a job that completes between the check and the commit
   of a cancel becomes CANCELLED, against the 409 "job already finished" of line 87.
4. `review_service.py:58`: a decision equal to a stale status is recorded
   without effect.

Seen while modelling, without a violation run of its own:

* `workers/tasks.py:130`: exhausted retries are never counted and the image stays
  PROCESSING, against "poison messages → dead-letter + `Job.failed++`"
  (`docs/ARCHITECTURE.md:141`): `NothingIsMarkedFailed`, which passes in
  `Jobs_faults` and is proved, says the opposite.
* `yolo.py:34`, `voc.py:42`: two images of one stem make two archive entries of one
  name, and a reader loses the annotations of the first: `LastStemWins`.
* `endpoints/jobs.py:88`: cancelling revokes nothing, against "Revoke pending
  tasks." (`docs/API.md:28`); workers go on with a cancelled job. A cancelled export becomes COMPLETED.
* `docs/API.md:29` lists `/jobs/{id}:resume`, which no endpoint implements.
* `mining.py:36`: an image whose detections differ by more than 0.4 gets a
  priority above 1.0 and ranks before an image without detections, against
  "no detections → top priority" (`tests/unit/test_active_learning.py:19`).
* `labelstudio.py:27`, `yolo.py:30`: an image registered without its size makes
  the export raise, and its job stays QUEUED.
* `annotate_local.py:102`: the summary's `auto_approved` counts the images that
  have an annotation, whatever their routing.
* `grounding_dino.py:83`: without a prompt the mock draws from an empty range and
  raises, although the real detector would return nothing.
* `endpoints/auth.py:62` and `:77`: `user.role.value` is asked of a column that
  is loaded as a plain string. The models take clients for authenticated.

The hazards in `PROJECT.json` that have no property are effects the code does
not defend against and no document promises otherwise: a job whose dispatch was
lost stays QUEUED, one with no images stays RUNNING, an image of a given-up task
stays PROCESSING, and mining puts back to NEEDS_REVIEW every version of an
image, human decisions included.

## 7. Not modelled

* **Clustering and drift.** K-means and floating-point statistics that nothing
  in the program calls.
* **Authentication and permissions.** Stateless checks at the start of a request:
  they change no state that a later step could meet in a bad order. Every client
  of the models is one that passes them.
* **What networks compute.** They are external: any detections, masks and scores
  of a set, or an exception. Polygons, captions and tags are left out.
* **The object storage and the broker themselves.** Modelled by how the code uses
  them; presigned uploads happen between a client and the storage.
* **Audit rows, model runs, metrics.** Written in the request's transaction or
  never, and not read back by the program.
* **Creation and listing of datasets, the review queue's listing, health probes.**
  Single inserts and reads.
* **Start-up, settings, logging, migrations, seed, frontend, deployment.** Their
  effect, workers that come, go and die, is in the models.

What could follow: the weakest hypotheses of the six conditional theorems, for
instance that duplicates need a redelivery or a lost acknowledgement of that very
task; and, of liveness, bounds on the number of a task's steps, which are
safety and within the prover's reach.
