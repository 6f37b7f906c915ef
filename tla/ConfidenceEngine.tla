-------------------------- MODULE ConfidenceEngine --------------------------
(***************************************************************************)
(* The scores of ml/confidence/engine.py and the boxes of ml/types.py, in  *)
(* integers: a score is a number of ten-thousandths, to which the code     *)
(* rounds; a coordinate is a number of tenths of a pixel.                  *)
(*                                                                         *)
(* A detection is a record with its box, the score of the detector, and    *)
(* the clip score, mask quality and mask that later stages set.  Only the  *)
(* extent of a mask matters: its first and last pixel in each direction.   *)
(***************************************************************************)
EXTENDS Integers

Unit == 10000       \* the score 1.0
Px == 10            \* one pixel

NoScore == -1       \* a score that no stage has set: None
NoMask == <<>>      \* no mask, or one without a pixel

Score == 0 .. Unit
Box == [x1 : Int, y1 : Int, x2 : Int, y2 : Int]
Mask == {NoMask} \cup Box

Detection ==
    [label : Nat, box : Box, score : Score, clip : Score \cup {NoScore},
     quality : Score \cup {NoScore}, mask : Mask]

(* Settings conf_auto_approve, conf_human_review and conf_reject.          *)
AutoApprove == 8500
HumanReview == 5000
RejectBelow == 2000

Least(a, b) == IF a < b THEN a ELSE b
Greatest(a, b) == IF a > b THEN a ELSE b

-----------------------------------------------------------------------------
(* Boxes, as [x1, y1, x2, y2].                                             *)

Area(b) == Greatest(0, b.x2 - b.x1) * Greatest(0, b.y2 - b.y1)

Intersection(a, b) ==
    [x1 |-> Greatest(a.x1, b.x1), y1 |-> Greatest(a.y1, b.y1),
     x2 |-> Least(a.x2, b.x2), y2 |-> Least(a.y2, b.y2)]

IoU(a, b) ==
    LET inter == Area(Intersection(a, b))
        union == Area(a) + Area(b) - inter
    IN  IF union > 0 THEN (inter * Unit) \div union ELSE 0

(* The box of a mask reaches from its first pixel to its last one, not to  *)
(* the end of it.                                                          *)
MaskBox(m) ==
    [x1 |-> Px * m.x1, y1 |-> Px * m.y1, x2 |-> Px * m.x2, y2 |-> Px * m.y2]

MaskBoxIoU(det) == IF det.mask = NoMask THEN 0 ELSE IoU(det.box, MaskBox(det.mask))

-----------------------------------------------------------------------------
Signals(det) ==
    [detection |-> det.score,
     clip |-> IF det.clip = NoScore THEN Unit \div 2 ELSE det.clip,
     quality |-> IF det.quality = NoScore THEN Unit \div 2 ELSE det.quality,
     consistency |-> MaskBoxIoU(det)]

(* In hundredths; they add up to 1, so normalizing leaves them alone.      *)
Weights == [detection |-> 30, clip |-> 25, quality |-> 20, consistency |-> 15,
            agreement |-> 10]

(* Agreement is the mean of the four signals: each of them has a quarter   *)
(* of its weight too.  In two-hundredths.                                  *)
Base(s) ==
    LET Share(w) == 2 * w + Weights.agreement \div 2
    IN  (Share(Weights.detection) * s.detection + Share(Weights.clip) * s.clip
            + Share(Weights.quality) * s.quality
            + Share(Weights.consistency) * s.consistency) \div 200

(* Sixteen times the variance of the signals, clipped to 1.                *)
Spread(s) ==
    LET d == Least(s.detection, Unit)
        c == Least(s.clip, Unit)
        q == Least(s.quality, Unit)
        b == Least(s.consistency, Unit)
        sum == d + c + q + b
    IN  4 * (d * d + c * c + q * q + b * b) - sum * sum

(* exp(-x), its series up to the seventh power; for x <= 0.75, and the     *)
(* penalty has no other, within two ten-thousandths.                       *)
ExpMinus(x) ==
    LET t7 == Unit - x \div 7
        t6 == Unit - (x * t7) \div (6 * Unit)
        t5 == Unit - (x * t6) \div (5 * Unit)
        t4 == Unit - (x * t5) \div (4 * Unit)
        t3 == Unit - (x * t4) \div (3 * Unit)
        t2 == Unit - (x * t3) \div (2 * Unit)
    IN  Unit - (x * t2) \div Unit

(* Near 1 when the signals agree, smaller the more they are spread.        *)
EntropyPenalty(s) == ExpMinus((3 * Spread(s)) \div (16 * Unit))

ScoreDetection(det) ==
    LET s == Signals(det)
    IN  Least(Unit, (Base(s) * EntropyPenalty(s) + Unit \div 2) \div Unit)

-----------------------------------------------------------------------------
(* An image, of n detections whose scores add up to sum.                   *)

(* Mutant: the weakest detection is not asked.                             *)
Routing_MeanOnly(n, sum, weakest) ==
    IF n = 0 THEN "needs_review"
    ELSE IF sum >= n * AutoApprove THEN "auto_approve"
    ELSE IF sum < n * RejectBelow THEN "reject"
    ELSE "needs_review"

Routing(n, sum, weakest) ==
    IF n = 0 THEN "needs_review"
    ELSE IF sum >= n * AutoApprove /\ weakest >= HumanReview THEN "auto_approve"
    ELSE IF sum < n * RejectBelow THEN "reject"
    ELSE "needs_review"

(* The mean, rounded as it is stored.                                      *)
Rounded(sum, n) == IF n = 0 THEN 0 ELSE (2 * sum + n) \div (2 * n)

ScoreImage(n, sum, weakest) ==
    [overall |-> Rounded(sum, n),
     weakest |-> weakest,
     routing |-> Routing(n, sum, weakest),
     n |-> n]

=============================================================================
