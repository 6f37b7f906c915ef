------------------------------- MODULE Mining -------------------------------
(***************************************************************************)
(* The ranking of ml/active_learning/mining.py: which images are worth a   *)
(* reviewer's time, by the confidence that the pipeline stored of them.    *)
(***************************************************************************)
EXTENDS ConfidenceEngine, Sequences, SequencesExt

ReviewHigh == 8500  \* the default review_high of run_active_learning

(* Mutant: images whose mean is high are skipped, whatever their weakest.  *)
Reason_HighMeanFirst(c) ==
    IF c.n = 0 THEN "no_detections"
    ELSE IF c.overall < 4000 THEN "low_confidence"
    ELSE IF c.overall >= ReviewHigh THEN "none"
    ELSE IF c.overall - c.weakest > 3000 THEN "internal_disagreement"
    ELSE "borderline"

Reason(c) ==
    IF c.n = 0 THEN "no_detections"
    ELSE IF c.overall < 4000 THEN "low_confidence"
    ELSE IF c.overall - c.weakest > 3000 THEN "internal_disagreement"
    ELSE IF c.overall < ReviewHigh THEN "borderline"
    ELSE "none"

(* Mutant: the priority of borderline images grows with their confidence.  *)
Priority_BorderlineInverted(c) ==
    CASE Reason(c) = "no_detections" -> Unit
      [] Reason(c) = "low_confidence" -> 9000 - c.overall
      [] Reason(c) = "internal_disagreement" -> 6000 + (c.overall - c.weakest)
      [] Reason(c) = "borderline" -> c.overall
      [] OTHER -> 0

Priority(c) ==
    CASE Reason(c) = "no_detections" -> Unit
      [] Reason(c) = "low_confidence" -> 9000 - c.overall
      [] Reason(c) = "internal_disagreement" -> 6000 + (c.overall - c.weakest)
      [] Reason(c) = "borderline" -> ReviewHigh - c.overall
      [] OTHER -> 0

(* The candidates, highest priority first, equal ones in their order.      *)
ScoreCandidates(rows) ==
    LET candidates == {k \in DOMAIN rows : Reason(rows[k]) # "none"}
        Before(k, l) ==
            \/ Priority(rows[k]) > Priority(rows[l])
            \/ Priority(rows[k]) = Priority(rows[l]) /\ k < l
    IN  CHOOSE ranking \in [1 .. Cardinality(candidates) -> candidates] :
            \A p, q \in DOMAIN ranking : p < q => Before(ranking[p], ranking[q])

=============================================================================
