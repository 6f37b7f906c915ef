----------------------- MODULE AnnotationReviewProofs -----------------------
(***************************************************************************)
(* Proofs about AnnotationReview for any number of jobs, images and review *)
(* requests.                                                               *)
(***************************************************************************)
EXTENDS AnnotationReview, AnnotationTableProofs

-----------------------------------------------------------------------------
(* What the steps do to the annotations table.                             *)

(* A step inserts version v of image i for job j: the version is free and  *)
(* at most one above the versions there are.                               *)
Inserts(i, v, j) ==
    /\ annotations' = Insert(annotations, i, v, j)
    /\ v \in 1 .. Cardinality(RowsOf(annotations, i)) + 1
    /\ ~KeyTaken(annotations, i, v)

(* The counts of rows are numbers and the next version is one above them.  *)
LEMMA Counts ==
    ASSUME TypeOK, VersionLineage, NEW i \in Image
    PROVE  /\ Cardinality(RowsOf(annotations, i)) \in Nat
           /\ VersionsOf(annotations, i) = 1 .. Cardinality(RowsOf(annotations, i))
           /\ NextVersion(annotations, i) = Cardinality(RowsOf(annotations, i)) + 1
<1>1. Cardinality(RowsOf(annotations, i)) \in Nat
  BY RowCounts DEF TypeOK, DbTypeOK
<1>2. LineageComplete(annotations, i)
  BY DEF VersionLineage
<1> QED
  BY <1>1, <1>2, NextOfCompleteLineage DEF LineageComplete

(* A row that a request loaded is a row of the table, and the version      *)
(* above it is at most one above the versions of its image.                *)
LEMMA LoadedRow ==
    ASSUME TypeOK, VersionLineage, NEW q \in Request, request[q] = "loaded"
    PROVE  /\ loaded[q] \in annotations
           /\ loaded[q].image \in Image
           /\ loaded[q].job \in Job
           /\ loaded[q].version \in Nat \ {0}
           /\ CorrectedVersion(loaded[q])
                \in 1 .. Cardinality(RowsOf(annotations, loaded[q].image)) + 1
<1> DEFINE row == loaded[q]
           n == Cardinality(RowsOf(annotations, row.image))
<1>1. row \in annotations
  BY DEF TypeOK, RequestTypeOK
<1>2. row.image \in Image /\ row.job \in Job /\ row.version \in Nat \ {0}
  BY <1>1 DEF TypeOK, DbTypeOK, Row
<1>3. row.version \in VersionsOf(annotations, row.image)
  BY <1>1 DEF VersionsOf, RowsOf
<1>4. n \in Nat /\ row.version \in 1 .. n
  BY <1>2, <1>3, Counts
<1> QED
  BY <1>1, <1>2, <1>4 DEF CorrectedVersion

(* The pipeline inserts the version it computed.                           *)
LEMMA PipelineInserts ==
    ASSUME VersionFresh, NEW j \in Job, NEW i \in Image, InsertPipelineRow(j, i)
    PROVE  Inserts(i, ver[j][i], j)
  BY DEF InsertPipelineRow, AddRow, Inserts, VersionFresh

(* A correction inserts the version above the one it loaded, for its job.  *)
LEMMA CorrectionInserts ==
    ASSUME TypeOK, VersionLineage, NEW q \in Request, Correct(q)
    PROVE  Inserts(loaded[q].image, CorrectedVersion(loaded[q]), loaded[q].job)
  BY LoadedRow DEF Correct, AddRow, Inserts

(* Nothing else writes the rows: reviewers and the mining update statuses. *)
LEMMA WhoWritesAnnotations ==
    ASSUME TypeOK, VersionLineage, VersionFresh, [Next]_vars
    PROVE  \/ UNCHANGED annotations
           \/ \E i \in Image, v \in Nat \ {0}, j \in Job : Inserts(i, v, j)
<1> USE DEF dbVars
<1>1. CASE UNCHANGED vars
  BY <1>1 DEF vars
<1>2. ASSUME NEW j \in Job, NEW i \in Image, Pipeline(j, i)
      PROVE  UNCHANGED annotations \/ \E v \in Nat \ {0} : Inserts(i, v, j)
  <2>1. CASE InsertPipelineRow(j, i)
    <3>1. Inserts(i, ver[j][i], j)
      BY <2>1, PipelineInserts
    <3>2. ver[j][i] \in Nat \ {0}
      BY <3>1, Counts DEF Inserts
    <3> QED
      BY <3>1, <3>2
  <2> QED
    BY <1>2, <2>1 DEF Pipeline, ReadVersion, InsertConflicts
<1>3. ASSUME NEW q \in Request, Review(q)
      PROVE  \/ UNCHANGED annotations
             \/ \E i \in Image, v \in Nat \ {0}, j \in Job : Inserts(i, v, j)
  <2>1. CASE Correct(q)
    <3>1. Inserts(loaded[q].image, CorrectedVersion(loaded[q]), loaded[q].job)
      BY <2>1, CorrectionInserts
    <3>2. /\ loaded[q].image \in Image /\ loaded[q].job \in Job
          /\ CorrectedVersion(loaded[q]) \in Nat \ {0}
      BY <2>1, LoadedRow DEF Correct, CorrectedVersion
    <3> QED
      BY <3>1, <3>2
  <2> QED
    BY <1>3, <2>1 DEF Review, LoadAnnotation, Approve, Reject, CorrectConflicts
<1>4. CASE Mining
  BY <1>4 DEF Mining, StartMining, ScanImage, FlagImage, CommitMining, AbortMining
<1> QED
  BY <1>1, <1>2, <1>3, <1>4 DEF Next

(* An insert leaves the table finite, with complete lineages and unique    *)
(* keys, and one row more.                                                 *)
LEMMA InsertFacts ==
    ASSUME TypeOK, VersionLineage,
           NEW i \in Image, NEW v \in Nat \ {0}, NEW j \in Job, Inserts(i, v, j)
    PROVE  /\ annotations' = annotations \cup {NewRow(i, v, j)}
           /\ NewRow(i, v, j) \in Row
           /\ NewRow(i, v, j) \notin annotations
           /\ annotations' \subseteq Row
           /\ IsFiniteSet(annotations')
           /\ VersionLineage'
           /\ \A k \in Image : Cardinality(RowsOf(annotations, k))
                                 <= Cardinality(RowsOf(annotations', k))
<1>1. annotations' = annotations \cup {NewRow(i, v, j)}
  BY DEF Inserts, Insert, NewRow
<1>2. NewRow(i, v, j) \in Row /\ NewRow(i, v, j) \notin annotations
  BY DEF Inserts, KeyTaken, NewRow, Row
<1>3. IsFiniteSet(annotations)
  BY DEF TypeOK, DbTypeOK
<1>4. VersionLineage'
  BY <1>3, InsertKeepsLineage DEF VersionLineage, Inserts
<1>5. \A k \in Image : Cardinality(RowsOf(annotations, k))
                         <= Cardinality(RowsOf(annotations', k))
  BY <1>3, RowsAfterInsert, RowCounts DEF Inserts
<1>6. IsFiniteSet(annotations') /\ annotations' \subseteq Row
  BY <1>1, <1>2, <1>3, FS_AddElement DEF TypeOK, DbTypeOK
<1> QED
  BY <1>1, <1>2, <1>4, <1>5, <1>6

-----------------------------------------------------------------------------
(* Type correctness.                                                       *)

(* When the table only grows, what refers to its rows still does.          *)
LEMMA GrowingTable ==
    ASSUME annotations \subseteq annotations'
    PROVE  /\ UNCHANGED requestVars /\ RequestTypeOK => RequestTypeOK'
           /\ UNCHANGED minerVars /\ MinerTypeOK => MinerTypeOK'
<1>1. UNCHANGED requestVars /\ RequestTypeOK => RequestTypeOK'
  BY DEF requestVars, RequestTypeOK
<1>2. UNCHANGED minerVars /\ MinerTypeOK => MinerTypeOK'
  BY DEF minerVars, MinerTypeOK
<1> QED
  BY <1>1, <1>2

(* A step that leaves a group of variables alone preserves the part of     *)
(* TypeOK that speaks of it.                                               *)
LEMMA UnchangedParts ==
    /\ UNCHANGED dbVars /\ DbTypeOK => DbTypeOK'
    /\ UNCHANGED taskVars /\ TaskTypeOK => TaskTypeOK'
    /\ UNCHANGED <<annotations, requestVars>> /\ RequestTypeOK => RequestTypeOK'
    /\ UNCHANGED <<annotations, minerVars>> /\ MinerTypeOK => MinerTypeOK'
<1>1. UNCHANGED dbVars /\ DbTypeOK => DbTypeOK'
  BY DEF dbVars, DbTypeOK
<1>2. UNCHANGED taskVars /\ TaskTypeOK => TaskTypeOK'
  BY DEF taskVars, TaskTypeOK
<1>3. UNCHANGED <<annotations, requestVars>> /\ RequestTypeOK => RequestTypeOK'
  BY GrowingTable
<1>4. UNCHANGED <<annotations, minerVars>> /\ MinerTypeOK => MinerTypeOK'
  BY GrowingTable
<1> QED
  BY <1>1, <1>2, <1>3, <1>4

(* The new row gets its status and every other row keeps its own.          *)
LEMMA AddRowStatus ==
    ASSUME TypeOK, NEW i, NEW v, NEW j, NEW s \in AnnotationStatus,
           AddRow(i, v, j, s)
    PROVE  /\ status' \in [annotations' -> AnnotationStatus]
           /\ annotations \subseteq annotations'
           /\ NewRow(i, v, j) \in annotations'
           /\ \A r \in annotations : status'[r] = status[r]
  BY DEF AddRow, Insert, NewRow, TypeOK, DbTypeOK

(* The initial state is well-typed.                                        *)
LEMMA InitType == Init => TypeOK
<1> SUFFICES ASSUME Init PROVE TypeOK
  OBVIOUS
<1> USE DEF Init
<1>1. DbTypeOK
  BY EmptyTable DEF DbTypeOK
<1>2. TaskTypeOK
  BY DEF TaskTypeOK
<1>3. RequestTypeOK
  BY DEF RequestTypeOK, AnnotationStatus
<1>4. MinerTypeOK
  BY DEF MinerTypeOK
<1> QED
  BY <1>1, <1>2, <1>3, <1>4 DEF TypeOK

(* A pipeline task keeps the state well-typed: its version is a number     *)
(* because the lineage of the image is complete.                           *)
LEMMA PipelineType ==
    ASSUME TypeOK, VersionLineage, VersionFresh,
           NEW j \in Job, NEW i \in Image, Pipeline(j, i)
    PROVE  TypeOK'
<1> USE DEF TypeOK
<1>1. CASE ReadVersion(j, i)
  <2>1. NextVersion(annotations, i) \in Nat
    BY Counts
  <2>2. TaskTypeOK'
    BY <1>1, <2>1 DEF ReadVersion, TaskTypeOK
  <2> QED
    BY <1>1, <2>2, UnchangedParts DEF ReadVersion, dbVars
<1>2. CASE InsertPipelineRow(j, i)
  <2> DEFINE v == ver[j][i]
  <2>1. Inserts(i, v, j)
    BY <1>2, PipelineInserts
  <2>2. v \in Nat \ {0}
    BY <2>1, Counts DEF Inserts
  <2>3. /\ annotations' \subseteq Row /\ IsFiniteSet(annotations')
        /\ annotations \subseteq annotations'
    BY <2>1, <2>2, InsertFacts
  <2>4. DbTypeOK'
    <3>1. PICK s \in Routed, ranked \in BOOLEAN :
            /\ AddRow(i, v, j, s)
            /\ uncertain' = IF ranked THEN uncertain \cup {NewRow(i, v, j)}
                            ELSE uncertain
      BY <1>2 DEF InsertPipelineRow
    <3>2. s \in AnnotationStatus
      BY DEF Routed, AnnotationStatus
    <3>3. /\ status' \in [annotations' -> AnnotationStatus]
          /\ NewRow(i, v, j) \in annotations'
      BY <3>1, <3>2, AddRowStatus
    <3>4. human' \subseteq annotations' /\ uncertain' \subseteq annotations'
      BY <1>2, <2>3, <3>1, <3>3 DEF InsertPipelineRow, DbTypeOK
    <3>5. reviews' \subseteq [request : Request, row : annotations', decision : ReviewDecision]
      BY <1>2, <2>3 DEF InsertPipelineRow, DbTypeOK
    <3> QED
      BY <2>3, <3>3, <3>4, <3>5 DEF DbTypeOK
  <2>5. TaskTypeOK'
    BY <1>2 DEF InsertPipelineRow, TaskTypeOK
  <2> QED
    BY <1>2, <2>3, <2>4, <2>5, GrowingTable DEF InsertPipelineRow
<1>3. CASE InsertConflicts(j, i)
  <2>1. TaskTypeOK'
    BY <1>3 DEF InsertConflicts, TaskTypeOK
  <2> QED
    BY <1>3, <2>1, UnchangedParts DEF InsertConflicts, dbVars
<1> QED
  BY <1>1, <1>2, <1>3 DEF Pipeline

(* A request that is loaded or finishes keeps its part well-typed.         *)
LEMMA FinishType ==
    ASSUME RequestTypeOK, NEW q \in Request, request[q] = "loaded",
           NEW outcome \in {"done", "failed"}, Finish(q, outcome),
           UNCHANGED <<loaded, seenStatus>>, annotations \subseteq annotations'
    PROVE  RequestTypeOK'
  BY DEF RequestTypeOK, Finish

(* Assigning a status keeps the status column well-typed, and the status   *)
(* of every other row.                                                     *)
LEMMA AssignStatusType ==
    ASSUME TypeOK, NEW q \in Request, request[q] = "loaded",
           NEW s \in AnnotationStatus, AssignStatus(q, s)
    PROVE  /\ status' \in [annotations -> AnnotationStatus]
           /\ \A r \in annotations : r # loaded[q] => status'[r] = status[r]
  BY DEF AssignStatus, TypeOK, DbTypeOK, RequestTypeOK

(* A recorded review is of a row of the table.                             *)
LEMMA RecordReviewType ==
    ASSUME TypeOK, NEW q \in Request, request[q] = "loaded",
           NEW d \in ReviewDecision, RecordReview(q, d),
           annotations \subseteq annotations'
    PROVE  reviews' \subseteq [request : Request, row : annotations', decision : ReviewDecision]
  BY DEF RecordReview, TypeOK, DbTypeOK, RequestTypeOK

(* A review request keeps the state well-typed.                            *)
LEMMA ReviewType ==
    ASSUME TypeOK, VersionLineage, NEW q \in Request, Review(q)
    PROVE  TypeOK'
<1> USE DEF TypeOK
<1>1. CASE LoadAnnotation(q)
  <2>1. RequestTypeOK'
    BY <1>1 DEF LoadAnnotation, Finish, RequestTypeOK, DbTypeOK, dbVars
  <2> QED
    BY <1>1, <2>1, UnchangedParts DEF LoadAnnotation, dbVars
<1>2. CASE Approve(q)
  <2>1. DbTypeOK'
    BY <1>2, AssignStatusType, RecordReviewType
       DEF Approve, DbTypeOK, AnnotationStatus, ReviewDecision
  <2>2. RequestTypeOK'
    BY <1>2, FinishType DEF Approve
  <2> QED
    BY <1>2, <2>1, <2>2, UnchangedParts DEF Approve
<1>3. CASE Reject(q)
  <2>1. DbTypeOK'
    BY <1>3, AssignStatusType, RecordReviewType
       DEF Reject, DbTypeOK, AnnotationStatus, ReviewDecision
  <2>2. RequestTypeOK'
    BY <1>3, FinishType DEF Reject
  <2> QED
    BY <1>3, <2>1, <2>2, UnchangedParts DEF Reject
<1>4. CASE Correct(q)
  <2> DEFINE row == loaded[q]
             v == CorrectedVersion(row)
             new == NewRow(row.image, v, row.job)
  <2>1. /\ row.image \in Image /\ row.job \in Job /\ v \in Nat \ {0}
        /\ request[q] = "loaded"
    BY <1>4, LoadedRow DEF Correct, CorrectedVersion
  <2>2. Inserts(row.image, v, row.job)
    BY <1>4, CorrectionInserts
  <2>3. /\ annotations' \subseteq Row /\ IsFiniteSet(annotations')
        /\ annotations \subseteq annotations'
    BY <2>1, <2>2, InsertFacts
  <2>4. /\ status' \in [annotations' -> AnnotationStatus]
        /\ new \in annotations'
    BY <1>4, AddRowStatus DEF Correct, AnnotationStatus
  <2>5. human' \subseteq annotations' /\ uncertain' \subseteq annotations'
    BY <1>4, <2>3, <2>4 DEF Correct, DbTypeOK
  <2>6. reviews' \subseteq [request : Request, row : annotations', decision : ReviewDecision]
    BY <1>4, <2>1, <2>3, RecordReviewType DEF Correct, ReviewDecision
  <2>7. DbTypeOK'
    BY <2>3, <2>4, <2>5, <2>6 DEF DbTypeOK
  <2>8. RequestTypeOK'
    BY <1>4, <2>3, FinishType DEF Correct
  <2> QED
    BY <1>4, <2>3, <2>7, <2>8, UnchangedParts, GrowingTable DEF Correct
<1>5. CASE CorrectConflicts(q)
  <2>1. RequestTypeOK'
    BY <1>5, FinishType DEF CorrectConflicts, dbVars
  <2> QED
    BY <1>5, <2>1, UnchangedParts DEF CorrectConflicts, dbVars
<1> QED
  BY <1>1, <1>2, <1>3, <1>4, <1>5 DEF Review

(* Mining keeps the state well-typed: it locks rows of the table and       *)
(* writes one status.                                                      *)
LEMMA MiningType ==
    ASSUME TypeOK, Mining
    PROVE  TypeOK'
<1> USE DEF TypeOK
<1>1. CASE StartMining \/ ScanImage \/ FlagImage \/ AbortMining
  <2>1. MinerTypeOK' /\ UNCHANGED <<dbVars, taskVars, requestVars>>
    BY <1>1 DEF StartMining, ScanImage, FlagImage, AbortMining, MinerTypeOK, RowsOf, dbVars
  <2> QED
    BY <2>1, UnchangedParts DEF dbVars
<1>2. CASE CommitMining
  <2>1. DbTypeOK'
    BY <1>2 DEF CommitMining, DbTypeOK, AnnotationStatus
  <2>2. MinerTypeOK'
    BY <1>2 DEF CommitMining, MinerTypeOK
  <2> QED
    BY <1>2, <2>1, <2>2, UnchangedParts DEF CommitMining
<1> QED
  BY <1>1, <1>2 DEF Mining

(* Every step keeps the state well-typed.                                  *)
LEMMA NextType ==
    ASSUME TypeOK, VersionLineage, VersionFresh, [Next]_vars
    PROVE  TypeOK'
<1>1. CASE UNCHANGED vars
  BY <1>1, UnchangedParts DEF vars, dbVars, TypeOK
<1> QED
  BY <1>1, PipelineType, ReviewType, MiningType DEF Next

-----------------------------------------------------------------------------
(* The lineage: TypeOK, VersionLineage, VersionFresh and the unique key    *)
(* are inductive together.                                                 *)

LineageInv ==
    TypeOK /\ VersionLineage /\ VersionFresh /\ Keyed(annotations)

(* A step leaves the lineages complete and the keys unique, and no image   *)
(* with fewer rows.                                                        *)
LEMMA LineageStep ==
    ASSUME LineageInv, [Next]_vars
    PROVE  /\ VersionLineage' /\ Keyed(annotations')
           /\ \A k \in Image : Cardinality(RowsOf(annotations, k))
                                 <= Cardinality(RowsOf(annotations', k))
<1> USE DEF LineageInv
<1>1. CASE UNCHANGED annotations
  BY <1>1, Counts DEF VersionLineage
<1>2. ASSUME NEW i \in Image, NEW v \in Nat \ {0}, NEW j \in Job, Inserts(i, v, j)
      PROVE  /\ VersionLineage' /\ Keyed(annotations')
             /\ \A k \in Image : Cardinality(RowsOf(annotations, k))
                                   <= Cardinality(RowsOf(annotations', k))
  <2>1. Keyed(annotations')
    BY <1>2, InsertKeepsKeys DEF Inserts
  <2> QED
    BY <1>2, <2>1, InsertFacts
<1> QED
  BY <1>1, <1>2, WhoWritesAnnotations

(* The version of a task that is about to insert was at most one above the *)
(* committed ones when it was read, and the table only grows.              *)
LEMMA FreshStep ==
    ASSUME LineageInv, TypeOK', VersionLineage', [Next]_vars
    PROVE  VersionFresh'
<1> SUFFICES ASSUME NEW k \in Job, NEW l \in Image, task'[k][l] = "insert"
             PROVE  ver'[k][l] \in 1 .. Cardinality(RowsOf(annotations', l)) + 1
  BY DEF VersionFresh
<1> DEFINE n == Cardinality(RowsOf(annotations, l))
           m == Cardinality(RowsOf(annotations', l))
<1>1. n \in Nat /\ m \in Nat /\ n <= m
  BY LineageStep, RowCounts DEF LineageInv, TypeOK, DbTypeOK
<1>2. NextVersion(annotations, l) = n + 1
  BY Counts DEF LineageInv
<1>3. task[k][l] = "insert" => ver[k][l] \in 1 .. n + 1
  BY DEF LineageInv, VersionFresh
<1> HIDE DEF n, m
<1>4. CASE UNCHANGED taskVars
  BY <1>1, <1>3, <1>4 DEF taskVars, m
<1>5. ASSUME NEW j \in Job, NEW i \in Image, Pipeline(j, i)
      PROVE  ver'[k][l] \in 1 .. n + 1
  <2>1. TaskTypeOK
    BY DEF LineageInv, TypeOK
  <2>2. CASE ReadVersion(j, i)
    BY <1>1, <1>2, <1>3, <2>1, <2>2 DEF ReadVersion, TaskTypeOK
  <2>3. CASE InsertPipelineRow(j, i)
    BY <1>3, <2>1, <2>3 DEF InsertPipelineRow, TaskTypeOK
  <2>4. CASE InsertConflicts(j, i)
    BY <1>3, <2>1, <2>4 DEF InsertConflicts, TaskTypeOK
  <2> QED
    BY <1>5, <2>2, <2>3, <2>4 DEF Pipeline
<1>6. CASE \E q \in Request : Review(q)
  BY <1>4, <1>6 DEF Review, LoadAnnotation, Approve, Reject, Correct,
     CorrectConflicts
<1>7. CASE Mining
  BY <1>4, <1>7 DEF Mining, StartMining, ScanImage, FlagImage, CommitMining,
     AbortMining
<1> QED
  BY <1>1, <1>4, <1>5, <1>6, <1>7 DEF Next, vars, m

(* The initial state satisfies the lineage invariant.                      *)
LEMMA InitLineage == Init => LineageInv
<1> SUFFICES ASSUME Init PROVE LineageInv
  OBVIOUS
<1>1. VersionLineage /\ Keyed(annotations)
  BY EmptyTable DEF Init, VersionLineage, Keyed
<1>2. VersionFresh
  BY DEF Init, VersionFresh
<1> QED
  BY <1>1, <1>2, InitType DEF LineageInv

(* The lineage invariant holds in every reachable state.                   *)
LEMMA LineageInvariant == Spec => []LineageInv
<1>1. LineageInv /\ [Next]_vars => LineageInv'
  BY NextType, LineageStep, FreshStep DEF LineageInv
<1> QED
  BY <1>1, InitLineage, PTL DEF Spec

(* Every table, task, request and lock keeps its shape, and nothing points *)
(* to a row that is not there.                                             *)
THEOREM TypeCorrect == Spec => []TypeOK
<1>1. LineageInv => TypeOK
  BY DEF LineageInv
<1> QED
  BY <1>1, LineageInvariant, PTL

(* However jobs and corrections race for version numbers, the versions of  *)
(* every image stay 1, 2, ... without gap or repetition                    *)
(* (review_service.py:67, tasks.py:93-99).                                 *)
THEOREM LineagePreserved == Spec => []VersionLineage
<1>1. LineageInv => VersionLineage
  BY DEF LineageInv
<1> QED
  BY <1>1, LineageInvariant, PTL

-----------------------------------------------------------------------------
(* Reviews and corrections.                                                *)

(* Only decisions write reviews, and only corrections human rows.          *)
LEMMA WhoWritesReviews ==
    ASSUME [Next]_vars
    PROVE  \/ UNCHANGED <<reviews, human>>
           \/ \E q \in Request : Approve(q) \/ Reject(q) \/ Correct(q)
<1> USE DEF dbVars
<1>1. CASE UNCHANGED vars
  BY <1>1 DEF vars
<1>2. CASE \E j \in Job, i \in Image : Pipeline(j, i)
  BY <1>2 DEF Pipeline, ReadVersion, InsertPipelineRow, InsertConflicts
<1>3. CASE \E q \in Request : Review(q)
  BY <1>3 DEF Review, LoadAnnotation, CorrectConflicts
<1>4. CASE Mining
  BY <1>4 DEF Mining, StartMining, ScanImage, FlagImage, CommitMining, AbortMining
<1> QED
  BY <1>1, <1>2, <1>3, <1>4 DEF Next

(* A request that is done stays done.                                      *)
LEMMA DoneIsFinal ==
    ASSUME TypeOK, [Next]_vars, NEW p \in Request, request[p] = "done"
    PROVE  request'[p] = "done"
<1> USE DEF TypeOK, RequestTypeOK, requestVars
<1>1. CASE UNCHANGED requestVars
  BY <1>1
<1>2. ASSUME NEW q \in Request, Review(q)
      PROVE  request'[p] = "done"
  BY <1>2 DEF Review, LoadAnnotation, Approve, Reject, Correct, CorrectConflicts,
     Finish
<1>3. CASE \E j \in Job, i \in Image : Pipeline(j, i)
  BY <1>1, <1>3 DEF Pipeline, ReadVersion, InsertPipelineRow, InsertConflicts
<1>4. CASE Mining
  BY <1>1, <1>4 DEF Mining, StartMining, ScanImage, FlagImage, CommitMining, AbortMining
<1> QED
  BY <1>1, <1>2, <1>3, <1>4 DEF Next, vars

(* A review and the end of its request are one transaction.                *)
LEMMA ReviewsAreDoneStep ==
    ASSUME TypeOK, TypeOK', ReviewsAreDone, [Next]_vars
    PROVE  ReviewsAreDone'
<1> SUFFICES ASSUME NEW c \in reviews'
             PROVE  request'[c.request] = "done"
  BY DEF ReviewsAreDone
<1>1. c.request \in Request
  BY DEF TypeOK, DbTypeOK
<1>2. CASE c \in reviews
  BY <1>1, <1>2, DoneIsFinal DEF ReviewsAreDone
<1>3. CASE c \notin reviews
  <2>1. PICK q \in Request : Approve(q) \/ Reject(q) \/ Correct(q)
    BY <1>3, WhoWritesReviews
  <2>2. PICK d \in ReviewDecision : RecordReview(q, d) /\ Finish(q, "done")
    BY <2>1 DEF Approve, Reject, Correct, ReviewDecision
  <2>3. c.request = q
    BY <1>3, <2>2 DEF RecordReview
  <2> QED
    BY <2>2, <2>3 DEF Finish, TypeOK, RequestTypeOK
<1> QED
  BY <1>2, <1>3

(* The reviews that are corrections.                                       *)
Corrections == {c \in reviews : c.decision = "correct"}

(* A step that records no correction and inserts no human row keeps the    *)
(* correspondence.                                                         *)
LEMMA OtherDecisionKeepsMatch ==
    ASSUME CorrectionsMatchReviews, human' = human,
           NEW q \in Request, NEW d \in {"approve", "reject"}, RecordReview(q, d)
    PROVE  CorrectionsMatchReviews'
<1>1. Corrections' = Corrections
  BY DEF RecordReview, Corrections
<1> QED
  BY <1>1 DEF CorrectionsMatchReviews, Corrections

(* A correction keeps the correspondence: had the same version been        *)
(* corrected before, its key would be taken and the insert refused.        *)
LEMMA CorrectKeepsMatch ==
    ASSUME TypeOK, VersionLineage, CorrectionsMatchReviews, NEW q \in Request, Correct(q)
    PROVE  CorrectionsMatchReviews'
<1> DEFINE row == loaded[q]
           v == CorrectedVersion(row)
           new == NewRow(row.image, v, row.job)
           review == [request |-> q, row |-> row, decision |-> "correct"]
<1>1. /\ Corrections' = Corrections \cup {review}
      /\ human' = human \cup {new}
      /\ ~KeyTaken(annotations, row.image, v)
      /\ v = row.version + 1
  BY DEF Correct, RecordReview, Corrections, CorrectedVersion
<1>2. review.row = row /\ new.image = row.image /\ new.version = v
  BY DEF NewRow
<1>3. \A c \in Corrections' : NewRow(c.row.image, c.row.version + 1, c.row.job) \in human'
  BY <1>1 DEF CorrectionsMatchReviews, Corrections
<1>4. \A r \in human' :
        \E c \in Corrections' : c.row.image = r.image /\ c.row.version + 1 = r.version
  <2>1. \A r \in human :
          \E c \in Corrections : c.row.image = r.image /\ c.row.version + 1 = r.version
    BY DEF CorrectionsMatchReviews, Corrections
  <2> HIDE DEF review, new
  <2> QED
    BY <1>1, <1>2, <2>1
<1>5. \A c \in Corrections : ~ (c.row.image = row.image /\ c.row.version = row.version)
  <2> SUFFICES ASSUME NEW c \in Corrections,
                      c.row.image = row.image, c.row.version = row.version
               PROVE  FALSE
    OBVIOUS
  <2>1. NewRow(row.image, v, c.row.job) \in human
    BY <1>1 DEF CorrectionsMatchReviews, Corrections
  <2>2. NewRow(row.image, v, c.row.job) \in annotations
    BY <2>1 DEF TypeOK, DbTypeOK
  <2> QED
    BY <1>1, <2>2 DEF KeyTaken, NewRow
<1>6. \A c, d \in Corrections' :
        c.row.image = d.row.image /\ c.row.version = d.row.version => c = d
  <2>1. \A c, d \in Corrections :
          c.row.image = d.row.image /\ c.row.version = d.row.version => c = d
    BY DEF CorrectionsMatchReviews, Corrections
  <2> HIDE DEF review, new
  <2> QED
    BY <1>1, <1>2, <1>5, <2>1
<1> QED
  BY <1>3, <1>4, <1>6 DEF CorrectionsMatchReviews, Corrections

(* Every step keeps the correspondence of corrections and reviews.         *)
LEMMA MatchStep ==
    ASSUME TypeOK, VersionLineage, CorrectionsMatchReviews, [Next]_vars
    PROVE  CorrectionsMatchReviews'
<1>1. CASE UNCHANGED <<reviews, human>>
  BY <1>1 DEF CorrectionsMatchReviews
<1>2. ASSUME NEW q \in Request, Approve(q) \/ Reject(q)
      PROVE  CorrectionsMatchReviews'
  BY <1>2, OtherDecisionKeepsMatch DEF Approve, Reject
<1>3. ASSUME NEW q \in Request, Correct(q)
      PROVE  CorrectionsMatchReviews'
  BY <1>3, CorrectKeepsMatch
<1> QED
  BY <1>1, <1>2, <1>3, WhoWritesReviews

(* Recorded corrections and human rows correspond, and no version is       *)
(* corrected twice, however reviews and jobs interleave                    *)
(* (review_service.py:42-77).                                              *)
THEOREM CorrectionsAreRecordedOnce == Spec => []CorrectionsMatchReviews
<1>1. Init => CorrectionsMatchReviews
  BY DEF Init, CorrectionsMatchReviews
<1>2. LineageInv /\ CorrectionsMatchReviews /\ [Next]_vars => CorrectionsMatchReviews'
  BY MatchStep DEF LineageInv
<1> QED
  BY <1>1, <1>2, LineageInvariant, PTL DEF Spec

(* A recorded review is the last thing its request did.                    *)
LEMMA ReviewsAreFinal == Spec => []ReviewsAreDone
<1>1. Init => ReviewsAreDone
  BY DEF Init, ReviewsAreDone
<1>2. TypeOK /\ TypeOK' /\ ReviewsAreDone /\ [Next]_vars => ReviewsAreDone'
  BY ReviewsAreDoneStep
<1> QED
  BY <1>1, <1>2, TypeCorrect, PTL DEF Spec

-----------------------------------------------------------------------------
(* The review queue.                                                       *)

(* A decision takes at most its own annotation out of the queue, and its   *)
(* review is new.                                                          *)
LEMMA DecisionLeaves ==
    ASSUME TypeOK, ReviewsAreDone, NEW q \in Request,
           NEW s \in AnnotationStatus, NEW d \in {"approve", "reject"},
           request[q] = "loaded", AssignStatus(q, s), RecordReview(q, d),
           NEW r \in annotations, status'[r] # status[r]
    PROVE  \E c \in reviews' \ reviews : c.row = r /\ c.decision # "correct"
<1> DEFINE review == [request |-> q, row |-> loaded[q], decision |-> d]
<1>1. loaded[q] = r
  BY AssignStatusType
<1>2. review \in reviews'
  BY DEF RecordReview
<1>3. review \notin reviews
  BY DEF ReviewsAreDone
<1> QED
  BY <1>1, <1>2, <1>3

(* No step but a recorded decision takes an annotation out of the queue.   *)
LEMMA QueueStep ==
    ASSUME TypeOK, ReviewsAreDone, [Next]_vars,
           NEW r \in annotations,
           status[r] = "needs_review", status'[r] # "needs_review"
    PROVE  \E c \in reviews' \ reviews : c.row = r /\ c.decision # "correct"
<1> USE DEF dbVars
<1>1. CASE UNCHANGED status
  BY <1>1
<1>2. ASSUME NEW j \in Job, NEW i \in Image, Pipeline(j, i)
      PROVE  FALSE
  <2>1. CASE InsertPipelineRow(j, i)
    <3>1. PICK s \in Routed : AddRow(i, ver[j][i], j, s)
      BY <2>1 DEF InsertPipelineRow
    <3> QED
      BY <3>1, AddRowStatus DEF Routed, AnnotationStatus
  <2> QED
    BY <1>1, <1>2, <2>1 DEF Pipeline, ReadVersion, InsertConflicts
<1>3. ASSUME NEW q \in Request, Review(q)
      PROVE  \E c \in reviews' \ reviews : c.row = r /\ c.decision # "correct"
  <2>1. CASE Approve(q)
    BY <2>1, DecisionLeaves DEF Approve, AnnotationStatus
  <2>2. CASE Reject(q)
    BY <2>2, DecisionLeaves DEF Reject, AnnotationStatus
  <2>3. CASE Correct(q)
    BY <2>3, AddRowStatus DEF Correct, AnnotationStatus
  <2> QED
    BY <1>1, <1>3, <2>1, <2>2, <2>3 DEF Review, LoadAnnotation, CorrectConflicts
<1>4. CASE Mining
  BY <1>1, <1>4 DEF Mining, StartMining, ScanImage, FlagImage, CommitMining, AbortMining
<1> QED
  BY <1>1, <1>2, <1>3, <1>4 DEF Next, vars

(* An annotation that waits for review waits until a decision on it is     *)
(* recorded, whatever jobs, corrections and mining runs do to its image    *)
(* (review_service.py:52-60).                                              *)
THEOREM QueueIsLeftByDecision == Spec => QueueLeftByDecision
<1>1. TypeOK /\ ReviewsAreDone /\ [Next]_vars =>
        [\A r \in annotations :
            status[r] = "needs_review" /\ status'[r] # "needs_review" =>
                \E c \in reviews' \ reviews : c.row = r /\ c.decision # "correct"]_vars
  BY QueueStep
<1> QED
  BY <1>1, TypeCorrect, ReviewsAreFinal, PTL DEF Spec, QueueLeftByDecision

-----------------------------------------------------------------------------
(* The refinement.                                                         *)

(* Initially every log is empty.                                           *)
LEMMA LogInit == Init => Log!Init
<1> SUFFICES ASSUME Init PROVE Log!Init
  OBVIOUS
<1>1. \A i \in Image : Lineage(annotations, i) = <<>>
  BY EmptyTable DEF Init, Lineage
<1> QED
  BY <1>1 DEF Init, Log!Init

(* Every step appends one version to one image's log or leaves them alone. *)
LEMMA LogStep ==
    ASSUME LineageInv, [Next]_vars
    PROVE  [Log!Next]_(Log!vars)
<1>1. CASE UNCHANGED annotations
  BY <1>1 DEF Log!vars
<1>2. ASSUME NEW i \in Image, NEW v \in Nat \ {0}, NEW j \in Job, Inserts(i, v, j)
      PROVE  Log!Next
  <2> DEFINE log == [k \in Image |-> Lineage(annotations, k)]
             logNext == [k \in Image |-> Lineage(annotations', k)]
  <2>1. /\ IsFiniteSet(annotations) /\ Keyed(annotations)
        /\ \A k \in Image : LineageComplete(annotations, k)
    BY DEF LineageInv, TypeOK, DbTypeOK, VersionLineage
  <2>2. /\ annotations' = Insert(annotations, i, v, j)
        /\ v \in 1 .. Cardinality(RowsOf(annotations, i)) + 1
        /\ ~KeyTaken(annotations, i, v)
    BY <1>2 DEF Inserts
  <2>3. /\ Lineage(annotations', i) = Append(Lineage(annotations, i), j)
        /\ \A k \in Image : k # i => Lineage(annotations', k) = Lineage(annotations, k)
    BY <2>1, <2>2, InsertAppends, InsertLeavesOthers
  <2>4. logNext = [log EXCEPT ![i] = Append(@, j)]
    BY <2>3
  <2>5. Log!Write(i, j)
    BY <2>4 DEF Log!Write
  <2> QED
    BY <2>5 DEF Log!Next
<1> QED
  BY <1>1, <1>2, WhoWritesAnnotations DEF LineageInv

(* Jobs and reviewers together write an append-only log per image: "the    *)
(* pipeline's original output is never destroyed"                          *)
(* (review_service.py:40-41).                                              *)
THEOREM ReviewsKeepTheLog == Spec => ImplementsAnnotationLog
<1> QED
  BY LogInit, LogStep, LineageInvariant, PTL
     DEF Spec, ImplementsAnnotationLog, Log!Spec

=============================================================================
