-------------------------- MODULE AnnotationTable --------------------------
(***************************************************************************)
(* The annotations table of backend/app/models/annotation.py: one row per  *)
(* (image, version), never updated in place by the inference worker.  The  *)
(* module has no state; the modules that write the table pass it as the    *)
(* set of its rows.  A row is a record with at least the fields image,     *)
(* version and job; detections, captions and confidences are left out.     *)
(***************************************************************************)
EXTENDS Integers, FiniteSets, FiniteSetsExt

RowsOf(rows, i) == {r \in rows : r.image = i}

JobRows(rows, j) == {r \in rows : r.job = j}

VersionsOf(rows, i) == {r.version : r \in RowsOf(rows, i)}

(* The highest version of an image, 0 when it has none ("current_max or    *)
(* 0").                                                                    *)
MaxVersion(rows, i) == Max(VersionsOf(rows, i) \cup {0})

(* Mutant: the first version of an image is 0.                             *)
NextVersion_FromZero(rows, i) == MaxVersion(rows, i)

NextVersion(rows, i) == MaxVersion(rows, i) + 1

(* The unique constraint uq_annotation_image_version.                      *)
KeyTaken(rows, i, v) == \E r \in rows : r.image = i /\ r.version = v

Insert(rows, i, v, j) == rows \cup {[image |-> i, version |-> v, job |-> j]}

(* The versions of an image number its rows 1, 2, ... without gap or       *)
(* repetition: its lineage.                                                *)
LineageComplete(rows, i) ==
    VersionsOf(rows, i) = 1 .. Cardinality(RowsOf(rows, i))

RowAt(rows, i, v) == CHOOSE r \in rows : r.image = i /\ r.version = v

(* The jobs that wrote the versions of an image, oldest first.             *)
Lineage(rows, i) ==
    [v \in 1 .. Cardinality(RowsOf(rows, i)) |-> RowAt(rows, i, v).job]

=============================================================================
