-------------------------- MODULE AnnotationReview --------------------------
(***************************************************************************)
(* The life of an annotation after the pipeline wrote it: reviewers        *)
(* approve, reject or correct it, jobs annotate its image again, and       *)
(* run_active_learning puts it back in the review queue, all against the   *)
(* same annotations table.                                                 *)
(*                                                                         *)
(* A review is one transaction that reads the annotation and writes later; *)
(* a run of active learning is one transaction of many statements, whose   *)
(* updates lock the rows they touch until it commits.  PostgreSQL runs at  *)
(* READ COMMITTED: each statement sees what is committed when it starts.   *)
(***************************************************************************)
EXTENDS AnnotationTable

CONSTANTS
    Job,        \* jobs that annotate the dataset, each image once
    Image,      \* images of the dataset
    Request,    \* review requests: POST /reviews/{annotation_id}
    NoRow       \* what a request that has loaded nothing holds

ASSUME FiniteAssumption ==
    /\ IsFiniteSet(Job)
    /\ IsFiniteSet(Image)

VARIABLES
    \* the database
    annotations,    \* rows of the annotations table
    status,         \* the status column: all that is ever updated of a row
    human,          \* the rows whose source is HUMAN
    uncertain,      \* the rows whose confidence the mining ranks for review
    reviews,        \* rows of the reviews table
    \* process_image of each job and image
    task,           \* "start", "insert" or "done"
    ver,            \* the version it computed
    \* the review requests
    request,        \* "new", "loaded", "done" or "failed"
    loaded,         \* the row each request loaded ...
    seenStatus,     \* ... and the status it had
    \* run_active_learning
    miner,          \* "idle" or "running"
    toScan,         \* images whose latest annotation it has still to read
    picked,         \* candidates it has still to flag
    flagged         \* rows it has updated and not committed: they are locked

dbVars      == <<annotations, status, human, uncertain, reviews>>
taskVars    == <<task, ver>>
requestVars == <<request, loaded, seenStatus>>
minerVars   == <<miner, toScan, picked, flagged>>
vars        == <<dbVars, taskVars, requestVars, minerVars>>

-----------------------------------------------------------------------------
Row == [image : Image, version : Nat \ {0}, job : Job]

AnnotationStatus ==
    {"auto_approved", "needs_review", "rejected", "human_approved", "human_corrected"}

(* The statuses _ROUTING_TO_STATUS gives to a new annotation.              *)
Routed == {"auto_approved", "needs_review", "rejected"}

ReviewDecision == {"approve", "reject", "correct"}

NewRow(i, v, j) == [image |-> i, version |-> v, job |-> j]

(* The annotation a select by image, latest version first, finds.          *)
Latest(i) == {r \in RowsOf(annotations, i) : r.version = MaxVersion(annotations, i)}

(* Mutant: a new version closes the older ones.                            *)
AddRow_ClosesOlder(i, v, j, s) ==
    /\ annotations' = Insert(annotations, i, v, j)
    /\ status' = [r \in annotations' |->
                    IF r \notin annotations THEN s
                    ELSE IF r.image = i THEN "rejected" ELSE status[r]]

(* Mutant: the new version takes the place of the one below it.            *)
AddRow_Overwrites(i, v, j, s) ==
    LET below == {r \in annotations : r.image = i /\ r.version = v - 1}
    IN  /\ annotations' = Insert(annotations \ below, i, IF below = {} THEN v ELSE v - 1, j)
        /\ status' = [r \in annotations' |-> IF r \in annotations THEN status[r] ELSE s]

(* A row enters the table with its status; the others keep theirs.         *)
AddRow(i, v, j, s) ==
    /\ annotations' = Insert(annotations, i, v, j)
    /\ status' = [r \in annotations' |-> IF r \in annotations THEN status[r] ELSE s]

Init ==
    /\ annotations = {}
    /\ status = [r \in {} |-> "needs_review"]
    /\ human = {}
    /\ uncertain = {}
    /\ reviews = {}
    /\ task = [j \in Job |-> [i \in Image |-> "start"]]
    /\ ver = [j \in Job |-> [i \in Image |-> 0]]
    /\ request = [q \in Request |-> "new"]
    /\ loaded = [q \in Request |-> NoRow]
    /\ seenStatus = [q \in Request |-> "needs_review"]
    /\ miner = "idle"
    /\ toScan = {}
    /\ picked = {}
    /\ flagged = {}

-----------------------------------------------------------------------------
(* The pipeline: process_image reads the highest version and inserts the   *)
(* next one; a version that was taken meanwhile makes it start again.      *)

ReadVersion(j, i) ==
    /\ task[j][i] = "start"
    /\ ver' = [ver EXCEPT ![j][i] = NextVersion(annotations, i)]
    /\ task' = [task EXCEPT ![j][i] = "insert"]
    /\ UNCHANGED <<dbVars, requestVars, minerVars>>

(* Whatever is routed to REJECTED has an overall confidence the mining     *)
(* ranks too; approved and reviewed annotations may be ranked or not.      *)
InsertPipelineRow(j, i) ==
    /\ task[j][i] = "insert"
    /\ ~KeyTaken(annotations, i, ver[j][i])
    /\ \E s \in Routed, ranked \in BOOLEAN :
        /\ s = "rejected" => ranked
        /\ AddRow(i, ver[j][i], j, s)
        /\ uncertain' = IF ranked THEN uncertain \cup {NewRow(i, ver[j][i], j)}
                        ELSE uncertain
    /\ task' = [task EXCEPT ![j][i] = "done"]
    /\ UNCHANGED <<human, reviews, ver, requestVars, minerVars>>

InsertConflicts(j, i) ==
    /\ task[j][i] = "insert"
    /\ KeyTaken(annotations, i, ver[j][i])
    /\ task' = [task EXCEPT ![j][i] = "start"]
    /\ UNCHANGED <<dbVars, ver, requestVars, minerVars>>

-----------------------------------------------------------------------------
(* A review request.                                                       *)

RecordReview(q, d) ==
    reviews' = reviews \cup {[request |-> q, row |-> loaded[q], decision |-> d]}

Finish(q, outcome) == request' = [request EXCEPT ![q] = outcome]

(* The annotation may be any one, of the review queue or not.              *)
LoadAnnotation(q) ==
    /\ request[q] = "new"
    /\ \E r \in annotations :
        /\ loaded' = [loaded EXCEPT ![q] = r]
        /\ seenStatus' = [seenStatus EXCEPT ![q] = status[r]]
    /\ Finish(q, "loaded")
    /\ UNCHANGED <<dbVars, taskVars, minerVars>>

(* The request assigns the status s.  The session writes it only when it   *)
(* differs from the one it loaded, and then waits for the row's lock.      *)
AssignStatus(q, s) ==
    IF seenStatus[q] = s
    THEN UNCHANGED status
    ELSE /\ loaded[q] \notin flagged
         /\ status' = [status EXCEPT ![loaded[q]] = s]

Approve(q) ==
    /\ request[q] = "loaded"
    /\ AssignStatus(q, "human_approved")
    /\ RecordReview(q, "approve")
    /\ Finish(q, "done")
    /\ UNCHANGED <<annotations, human, uncertain, taskVars, loaded, seenStatus, minerVars>>

Reject(q) ==
    /\ request[q] = "loaded"
    /\ AssignStatus(q, "rejected")
    /\ RecordReview(q, "reject")
    /\ Finish(q, "done")
    /\ UNCHANGED <<annotations, human, uncertain, taskVars, loaded, seenStatus, minerVars>>

CorrectedVersion(row) == row.version + 1

(* Mutant: the table has no unique key.                                    *)
Correct_NoUniqueKey(q) ==
    LET row == loaded[q]
        new == NewRow(row.image, CorrectedVersion(row), row.job)
    IN  /\ request[q] = "loaded"
        /\ AddRow(row.image, CorrectedVersion(row), row.job, "human_corrected")
        /\ human' = human \cup {new}
        /\ uncertain' = IF row \in uncertain THEN uncertain \cup {new} ELSE uncertain
        /\ RecordReview(q, "correct")
        /\ Finish(q, "done")
        /\ UNCHANGED <<taskVars, loaded, seenStatus, minerVars>>

(* A correction is a new version above the one that was reviewed, with its *)
(* job and its confidence; the reviewed row keeps its status.              *)
Correct(q) ==
    LET row == loaded[q]
        new == NewRow(row.image, CorrectedVersion(row), row.job)
    IN  /\ request[q] = "loaded"
        /\ ~KeyTaken(annotations, row.image, CorrectedVersion(row))
        /\ AddRow(row.image, CorrectedVersion(row), row.job, "human_corrected")
        /\ human' = human \cup {new}
        /\ uncertain' = IF row \in uncertain THEN uncertain \cup {new} ELSE uncertain
        /\ RecordReview(q, "correct")
        /\ Finish(q, "done")
        /\ UNCHANGED <<taskVars, loaded, seenStatus, minerVars>>

(* Mutant: the review is committed before the new version is.              *)
CorrectConflicts_KeepsReview(q) ==
    /\ request[q] = "loaded"
    /\ KeyTaken(annotations, loaded[q].image, CorrectedVersion(loaded[q]))
    /\ RecordReview(q, "correct")
    /\ Finish(q, "failed")
    /\ UNCHANGED <<annotations, status, human, uncertain,
                   taskVars, loaded, seenStatus, minerVars>>

(* IntegrityError: the request fails and its transaction rolls back.       *)
CorrectConflicts(q) ==
    /\ request[q] = "loaded"
    /\ KeyTaken(annotations, loaded[q].image, CorrectedVersion(loaded[q]))
    /\ Finish(q, "failed")
    /\ UNCHANGED <<dbVars, taskVars, loaded, seenStatus, minerVars>>

-----------------------------------------------------------------------------
(* run_active_learning: read the latest annotation of each image, rank     *)
(* them, update every version of each candidate image, commit.             *)

StartMining ==
    /\ miner = "idle"
    /\ miner' = "running"
    /\ toScan' = Image
    /\ UNCHANGED <<dbVars, taskVars, requestVars, picked, flagged>>

ScanImage ==
    /\ miner = "running"
    /\ \E i \in toScan :
        /\ toScan' = toScan \ {i}
        /\ picked' = IF Latest(i) \cap uncertain # {} THEN picked \cup {i} ELSE picked
    /\ UNCHANGED <<dbVars, taskVars, requestVars, miner, flagged>>

FlagImage ==
    /\ miner = "running"
    /\ toScan = {}
    /\ \E i \in picked :
        /\ flagged' = flagged \cup RowsOf(annotations, i)
        /\ picked' = picked \ {i}
    /\ UNCHANGED <<dbVars, taskVars, requestVars, miner, toScan>>

CommitMining ==
    /\ miner = "running"
    /\ toScan = {}
    /\ picked = {}
    /\ status' = [r \in annotations |-> IF r \in flagged THEN "needs_review" ELSE status[r]]
    /\ miner' = "idle"
    /\ flagged' = {}
    /\ UNCHANGED <<annotations, human, uncertain, reviews,
                   taskVars, requestVars, toScan, picked>>

(* The worker dies: the transaction rolls back, the task starts again.     *)
AbortMining ==
    /\ miner = "running"
    /\ miner' = "idle"
    /\ toScan' = {}
    /\ picked' = {}
    /\ flagged' = {}
    /\ UNCHANGED <<dbVars, taskVars, requestVars>>

-----------------------------------------------------------------------------

Pipeline(j, i) == ReadVersion(j, i) \/ InsertPipelineRow(j, i) \/ InsertConflicts(j, i)

Review(q) ==
    \/ LoadAnnotation(q)
    \/ Approve(q) \/ Reject(q) \/ Correct(q) \/ CorrectConflicts(q)

Mining ==
    \/ StartMining \/ ScanImage \/ FlagImage
    \/ CommitMining \/ AbortMining

Next ==
    \/ \E j \in Job, i \in Image : Pipeline(j, i)
    \/ \E q \in Request : Review(q)
    \/ Mining

Spec == Init /\ [][Next]_vars

-----------------------------------------------------------------------------
DbTypeOK ==
    /\ annotations \subseteq Row
    /\ IsFiniteSet(annotations)
    /\ status \in [annotations -> AnnotationStatus]
    /\ human \subseteq annotations
    /\ uncertain \subseteq annotations
    /\ reviews \subseteq [request : Request, row : annotations, decision : ReviewDecision]

TaskTypeOK ==
    /\ task \in [Job -> [Image -> {"start", "insert", "done"}]]
    /\ ver \in [Job -> [Image -> Nat]]

RequestTypeOK ==
    /\ request \in [Request -> {"new", "loaded", "done", "failed"}]
    /\ loaded \in [Request -> annotations \cup {NoRow}]
    /\ seenStatus \in [Request -> AnnotationStatus]
    /\ \A q \in Request : request[q] # "new" => loaded[q] \in annotations

MinerTypeOK ==
    /\ miner \in {"idle", "running"}
    /\ toScan \subseteq Image
    /\ picked \subseteq Image
    /\ flagged \subseteq annotations

(* Type invariant: tables, tasks, requests and the miner keep their shape, *)
(* and reviews, loaded rows and locks refer to rows of the table.          *)
TypeOK == DbTypeOK /\ TaskTypeOK /\ RequestTypeOK /\ MinerTypeOK

(* Pipeline tasks compute versions from the highest one and reviewers from *)
(* the one they loaded, both from stale reads: the versions of an image    *)
(* still are 1, 2, ... without gap or repetition (review_service.py:67,    *)
(* tasks.py:93-99).                                                        *)
VersionLineage == \A i \in Image : LineageComplete(annotations, i)

(* Corrections in the reviews table and human rows in the annotations      *)
(* table correspond one to one: a recorded correction of a version has the *)
(* next version to show for it, each version is corrected at most once,    *)
(* and a correction never goes on top of a version its reviewer has not    *)
(* seen (review_service.py:42-77).                                         *)
CorrectionsMatchReviews ==
    LET corrections == {c \in reviews : c.decision = "correct"}
    IN  /\ \A c \in corrections :
            NewRow(c.row.image, c.row.version + 1, c.row.job) \in human
        /\ \A r \in human :
            \E c \in corrections : c.row.image = r.image /\ c.row.version + 1 = r.version
        /\ \A c, d \in corrections :
            c.row.image = d.row.image /\ c.row.version = d.row.version => c = d

(* An annotation leaves the review queue only by a decision on that very   *)
(* annotation, recorded in the same transaction: neither a re-annotation,  *)
(* a correction nor a mining run takes it out (review_service.py:52-60).   *)
QueueLeftByDecision ==
    [][\A r \in annotations :
        status[r] = "needs_review" /\ status'[r] # "needs_review" =>
            \E c \in reviews' \ reviews : c.row = r /\ c.decision # "correct"]_vars

(* "Apply a reviewer decision" (review_service.py:40): once a request that *)
(* approves or rejects is committed, the annotation has that status.       *)
DecisionsTakeEffect ==
    [][\A c \in reviews' \ reviews :
        /\ c.decision = "approve" => status'[c.row] = "human_approved"
        /\ c.decision = "reject" => status'[c.row] = "rejected"]_vars

-----------------------------------------------------------------------------
(* The inductive invariant behind these properties.                        *)

(* A version that a pipeline task computed is at most one above what is    *)
(* committed when it inserts.                                              *)
VersionFresh ==
    \A j \in Job, i \in Image :
        task[j][i] = "insert" =>
            ver[j][i] \in 1 .. Cardinality(RowsOf(annotations, i)) + 1

(* A request leaves a review only when it is done.                         *)
ReviewsAreDone == \A c \in reviews : request[c.request] = "done"

IInv ==
    /\ TypeOK /\ VersionLineage /\ VersionFresh
    /\ CorrectionsMatchReviews /\ ReviewsAreDone

-----------------------------------------------------------------------------
(* The annotations table, written by jobs and reviewers, implements the    *)
(* append-only log of AnnotationLog: each version is of the job whose      *)
(* annotation it is or corrects.                                           *)

Log == INSTANCE AnnotationLog WITH
    Author <- Job,
    open <- TRUE,
    log <- [i \in Image |-> Lineage(annotations, i)]

(* "Corrections create a NEW annotation version so the pipeline's original *)
(* output is never destroyed" (review_service.py:40-41): every step        *)
(* appends one version to one image's log or leaves the logs alone.        *)
ImplementsAnnotationLog == Log!Spec

=============================================================================
