-------------------------- MODULE LocalAnnotation ---------------------------
(***************************************************************************)
(* A batch of images annotated on one machine: the scripts annotate_local, *)
(* through the five stages of ml/pipeline.py with mocked or real models,   *)
(* and annotate_local_real, which calls its own detector and CLIP and has  *)
(* no other stage.  The stages and the scores are those a worker computes. *)
(*                                                                         *)
(* The networks are external: a model may find any of the scenes of Scene  *)
(* in an image and answer any of the values that SAM2 and CLIP give.       *)
(***************************************************************************)
EXTENDS Mining, Exporters

CONSTANTS
    Images,             \* number of image files in the input directory
    PromptCounts,       \* how many classes the command line may name
    Scene,              \* what detectors find: sequences of [label, box, score]
    MaxDetections,      \* the setting max_detections_per_image
    Seed,               \* hash of each label in the mocked CLIP, in thousandths
    Segmentation,       \* what SAM 2 answers for a box: [mask, quality]
    ClipScore,          \* what CLIP answers for a crop and its label
    MaxFailures         \* bound: stages that raise

(* Images, PromptCounts and the failures are numbers; the models answer    *)
(* with scores between 0 and 1, and label what they find with numbers that *)
(* the mocked CLIP can hash.                                               *)
ASSUME LocalAssumption ==
    /\ {Images, MaxDetections, MaxFailures} \cup PromptCounts \subseteq Nat
    /\ Seed \in Seq(0 .. 999)
    /\ Scene \subseteq Seq([label : Nat, box : Box, score : Score])
    /\ \A scene \in Scene : \A k \in DOMAIN scene : scene[k].label \in DOMAIN Seed
    /\ Segmentation \subseteq [mask : Mask, quality : Score]
    /\ ClipScore \subseteq Score

VARIABLES
    runner,         \* "mock" or "models" in annotate_local, or "standalone"
    seg, vlm,       \* whether the options --no-seg and --no-vlm are absent
    prompts,        \* number of classes of the command line
    current,        \* number of the image at work
    stage,          \* the statement that is next
    dets,           \* its detections
    scored,         \* how many of them the loop of score_image has scored
    sum, weakest,   \* the sum and the least of their scores
    prelim,         \* the confidence that drives the VLM gate
    caption,        \* what the VLM was asked for and answered
    results,        \* the confidence of each image that is done
    exports,        \* the ExportImage of each image that is done
    overlays,       \* the overlay images written
    coco, summary,  \* the files written at the end
    failures

options == <<runner, seg, vlm, prompts>>
scores  == <<scored, sum, weakest>>
outputs == <<results, exports, overlays, coco, summary>>
vars    == <<options, current, stage, dets, scores, prelim, caption, outputs, failures>>

NotWritten == [written |-> FALSE]

Init ==
    /\ runner \in {"mock", "models", "standalone"}
    /\ seg \in BOOLEAN
    /\ vlm \in BOOLEAN
    /\ runner = "standalone" => ~seg /\ ~vlm
    /\ prompts \in PromptCounts
    /\ current = 1
    /\ stage = "detect"
    /\ dets = <<>>
    /\ scored = 0
    /\ sum = 0
    /\ weakest = 0
    /\ prelim = ScoreImage(0, 0, 0)
    /\ caption = "not_asked"
    /\ results = <<>>
    /\ exports = <<>>
    /\ overlays = {}
    /\ coco = NotWritten
    /\ summary = NotWritten
    /\ failures = 0

-----------------------------------------------------------------------------
Goto(from, to) == stage = from /\ stage' = to

(* A detection as the detector leaves it.                                  *)
Detected(d) ==
    [label |-> d.label, box |-> d.box, score |-> d.score,
     clip |-> NoScore, quality |-> NoScore, mask |-> NoMask]

(* The mock finds one to three boxes, no more than there are prompts, and  *)
(* gives each the next prompt.                                             *)
MockDetects(scene) ==
    /\ Len(scene) \in 1 .. Least(3, prompts)
    /\ \A k \in DOMAIN scene :
        /\ scene[k].label = k
        /\ scene[k].score \in 4000 .. 9700
        /\ scene[k].box.x1 >= 0 /\ scene[k].box.y1 >= 0

(* Only the wrapper of the model stops at the setting.                     *)
Found(scene) ==
    IF runner = "models" THEN SubSeq(scene, 1, Least(Len(scene), MaxDetections)) ELSE scene

(* Stage 1.  The file is read and decoded first.                           *)
Detect ==
    /\ Goto("detect", IF runner = "standalone" THEN "validate" ELSE "segment")
    /\ current <= Images
    /\ \E scene \in Scene :
        /\ runner = "mock" => MockDetects(scene)
        /\ dets' = [k \in DOMAIN Found(scene) |-> Detected(Found(scene)[k])]
    /\ UNCHANGED <<options, current, scores, prelim, caption, outputs, failures>>

(* The mocked SAM 2 fills the whole pixels of the box.                     *)
MockMask(b) ==
    LET m == [x1 |-> b.x1 \div Px, y1 |-> b.y1 \div Px,
              x2 |-> b.x2 \div Px - 1, y2 |-> b.y2 \div Px - 1]
    IN  IF m.x1 <= m.x2 /\ m.y1 <= m.y2 THEN m ELSE NoMask

(* Its quality is 0.6 + 0.35 * det_score, rounded to three digits.         *)
MockSegment(d) ==
    [mask |-> MockMask(d.box),
     quality |-> 10 * ((6000 + (35 * d.score) \div 100 + 5) \div 10)]

(* Stage 2, unless it is switched off or there is nothing to segment.      *)
Segment ==
    /\ Goto("segment", "validate")
    /\ IF seg /\ dets # <<>>
       THEN \E answer \in
                IF runner = "mock"
                THEN {[k \in DOMAIN dets |-> MockSegment(dets[k])]}
                ELSE [DOMAIN dets -> Segmentation] :
            dets' = [k \in DOMAIN dets |->
                [dets[k] EXCEPT !.mask = answer[k].mask, !.quality = answer[k].quality]]
       ELSE UNCHANGED dets
    /\ UNCHANGED <<options, current, scores, prelim, caption, outputs, failures>>

(* 0.5 + 0.45 * seed * det_score, rounded to three digits.                 *)
MockClip(d) == 10 * ((5000 + (45 * ((Seed[d.label] * d.score) \div 1000)) \div 100 + 5) \div 10)

(* Stage 3; the scoring of the image starts.  The standalone script scores *)
(* it once.                                                                *)
Validate ==
    /\ Goto("validate", IF runner = "standalone" THEN "rescore" ELSE "score")
    /\ \E answer \in
            IF runner = "mock" THEN {[k \in DOMAIN dets |-> MockClip(dets[k])]}
            ELSE [DOMAIN dets -> ClipScore] :
        dets' = [k \in DOMAIN dets |-> [dets[k] EXCEPT !.clip = answer[k]]]
    /\ UNCHANGED <<options, current, scores, prelim, caption, outputs, failures>>

(* score_image: one detection of its loop.                                 *)
ScoreNext ==
    /\ stage \in {"score", "rescore"}
    /\ scored < Len(dets)
    /\ scored' = scored + 1
    /\ LET s == ScoreDetection(dets[scored + 1])
       IN  /\ sum' = sum + s
           /\ weakest' = IF scored = 0 THEN s ELSE Least(weakest, s)
    /\ UNCHANGED <<options, current, stage, dets, prelim, caption, outputs, failures>>

Confidence == ScoreImage(Len(dets), sum, weakest)

ResetScores == scored' = 0 /\ sum' = 0 /\ weakest' = 0

(* Mutant: the second scoring goes on from the first one's sum.            *)
ScorePreliminary_KeepsSum ==
    /\ Goto("score", "gate")
    /\ scored = Len(dets)
    /\ prelim' = Confidence
    /\ scored' = 0
    /\ UNCHANGED <<options, current, dets, sum, weakest, caption, outputs, failures>>

(* Stage 5a.                                                               *)
ScorePreliminary ==
    /\ Goto("score", "gate")
    /\ scored = Len(dets)
    /\ prelim' = Confidence
    /\ ResetScores
    /\ UNCHANGED <<options, current, dets, caption, outputs, failures>>

ShouldVLM == vlm /\ (prelim.overall \in 3500 .. 9000 \/ dets = <<>>)

(* Stage 4.  An image that cannot be encoded and an answer that is not     *)
(* JSON give no caption, and the run goes on; the mock has one always.     *)
Caption ==
    /\ Goto("gate", "rescore")
    /\ caption' \in IF ~ShouldVLM THEN {"not_asked"}
                    ELSE IF runner = "mock" THEN {"text"} ELSE {"text", "none"}
    /\ UNCHANGED <<options, current, dets, scores, prelim, outputs, failures>>

(* The size of the image and the polygon of a mask are left out; the       *)
(* exporters have their boxes in thousandths of a pixel.                   *)
ExportImage(k, ds) ==
    [file |-> k,
     anns |-> [p \in DOMAIN ds |->
        LET b == ds[p].box
            Thousandths(d) == (1000 \div Px) * d
        IN  [label |-> ds[p].label,
             box |-> <<Thousandths(b.x1), Thousandths(b.y1),
                       Thousandths(b.x2 - b.x1), Thousandths(b.y2 - b.y1)>>]]]

(* Stage 5b; the overlay is drawn, the image appended, and the loop goes   *)
(* on with the next file.  Timings are left out.                           *)
Finish ==
    /\ Goto("rescore", "detect")
    /\ scored = Len(dets)
    /\ results' = Append(results, Confidence)
    /\ exports' = Append(exports, ExportImage(current, dets))
    /\ overlays' = overlays \cup {current}
    /\ current' = current + 1
    /\ dets' = <<>>
    /\ caption' = "not_asked"
    /\ prelim' = ScoreImage(0, 0, 0)
    /\ ResetScores
    /\ UNCHANGED <<options, coco, summary, failures>>

ClassNames == UNION {{a.label : a \in ToSet(exports[k].anns)} : k \in DOMAIN exports}

(* After the loop: the COCO file, and the summary of annotate_local, whose *)
(* "auto_approved" counts the images that have an annotation.              *)
WriteFiles ==
    /\ Goto("detect", "done")
    /\ current > Images
    /\ Images > 0
    /\ coco' = Coco(exports, ClassNames)
    /\ summary' = IF runner = "standalone" THEN summary
                  ELSE [images |-> Len(exports),
                        classes |-> ClassNames,
                        auto_approved |->
                            Cardinality({k \in DOMAIN exports : exports[k].anns # <<>>})]
    /\ UNCHANGED <<options, current, dets, scores, prelim, caption,
                   results, exports, overlays, failures>>

(* Mutant: an image that raises is skipped and the batch goes on.          *)
StageRaises_Skips ==
    /\ stage \in {"detect", "segment", "validate", "gate"}
    /\ current <= Images
    /\ failures < MaxFailures
    /\ failures' = failures + 1
    /\ stage' = "detect"
    /\ current' = current + 1
    /\ dets' = <<>>
    /\ prelim' = ScoreImage(0, 0, 0)
    /\ ResetScores
    /\ UNCHANGED <<options, caption, outputs>>

(* A file that does not decode, a model that runs out of memory, a VLM     *)
(* that does not answer, an overlay that cannot be saved: nothing catches  *)
(* the exception.                                                          *)
StageRaises ==
    /\ stage \in {"detect", "segment", "validate", "gate", "rescore"}
    /\ current <= Images
    /\ failures < MaxFailures
    /\ failures' = failures + 1
    /\ stage' = "failed"
    /\ UNCHANGED <<options, current, dets, scores, prelim, caption, outputs>>

(* Without a prompt the mock draws its number of boxes from an empty range.*)
MockRaises ==
    /\ Goto("detect", "failed")
    /\ current <= Images
    /\ runner = "mock" /\ prompts = 0
    /\ UNCHANGED <<options, current, dets, scores, prelim, caption, outputs, failures>>

Next ==
    \/ Detect \/ Segment \/ Validate \/ ScoreNext \/ ScorePreliminary
    \/ Caption \/ Finish \/ WriteFiles \/ StageRaises \/ MockRaises

Spec == Init /\ [][Next]_vars

-----------------------------------------------------------------------------
(* Type invariant: a batch is at one image and one stage, with detections  *)
(* whose signals are scores or missing, and what it has finished is in     *)
(* step with the image it is at (annotate_local.py:73-107).                *)
TypeOK ==
    /\ runner \in {"mock", "models", "standalone"}
    /\ {seg, vlm} \subseteq BOOLEAN
    /\ caption \in {"not_asked", "text", "none"}
    /\ prompts \in PromptCounts
    /\ stage \in {"detect", "segment", "validate", "score", "gate", "rescore",
                  "done", "failed"}
    /\ dets \in Seq(Detection)
    /\ scored \in 0 .. Len(dets)
    /\ sum \in Nat /\ weakest \in Nat
    /\ sum <= Unit * scored
    /\ weakest * scored <= sum
    /\ current \in 1 .. Images + 1
    /\ results \in Seq([overall : Nat, weakest : Nat, n : Nat,
                       routing : {"auto_approve", "needs_review", "reject"}])
    /\ exports \in Seq([file : Nat, anns : Seq(LabelledBox)])
    /\ Len(results) = current - 1
    /\ Len(exports) = current - 1
    /\ failures \in 0 .. MaxFailures

(* An image is approved without a human only if every detection of it has  *)
(* a mask whose box overlaps its own: the weights alone would let a sure   *)
(* detector and CLIP outvote a mask that is missing or elsewhere, it is    *)
(* the penalty for disagreement that holds such a detection under          *)
(* human_review, and the weakest detection that holds the image.  So a     *)
(* batch without segmentation approves nothing (engine.py:82-116).         *)
ApprovedIsSegmented ==
    stage = "rescore" /\ scored = Len(dets) /\ Confidence.routing = "auto_approve" =>
        \A k \in DOMAIN dets : MaskBoxIoU(dets[k]) > 0

(* The confidence that drives the gate is the one that is stored: scoring  *)
(* the image again, after the VLM, finds what the gate had seen, so the    *)
(* VLM is asked about every ambiguous image and no other                   *)
(* (pipeline.py:82-100).                                                   *)
GateAgrees ==
    stage = "rescore" /\ scored = Len(dets) /\ runner # "standalone" =>
        /\ prelim = Confidence
        /\ caption # "not_asked" <=> vlm /\ (Confidence.overall \in 3500 .. 9000 \/ Confidence.n = 0)

(* Mining passes over no image that was not approved: what routing leaves  *)
(* to a human, or rejects, is ranked, but for a mean below 0.85 that is    *)
(* stored as 0.85 (engine.py:111-116, mining.py:25-40).                    *)
UnapprovedIsRanked ==
    \A k \in DOMAIN results :
        results[k].routing # "auto_approve" =>
            \/ Reason(results[k]) # "none"
            \/ results[k].overall = ReviewHigh

(* The bands of the ranking do not overlap, although each priority has a   *)
(* formula of its own: images without detections and those whose           *)
(* detections disagree come first, then low confidence, then the           *)
(* borderline ones, both from the least sure on (mining.py:33-51).         *)
RankingBands ==
    LET ranking == ScoreCandidates(results)
        Band(c) == CASE Reason(c) = "low_confidence" -> 2
                     [] Reason(c) = "borderline" -> 3
                     [] OTHER -> 1
    IN  \A p, q \in DOMAIN ranking :
            LET a == results[ranking[p]]
                b == results[ranking[q]]
            IN  p < q => \/ Band(a) < Band(b)
                         \/ Band(a) = Band(b) /\ (Band(a) > 1 => a.overall <= b.overall)

(* The COCO file is written for the whole batch or not at all: it then has *)
(* every image, its overlay, and the annotations that were scored for it,  *)
(* and the summary counts the images of the file (annotate_local.py:73-107,*)
(* annotate_local_real.py:161-179).                                        *)
CocoIsComplete ==
    coco # NotWritten =>
        /\ Len(coco.images) = Images
        /\ overlays = 1 .. Images
        /\ \A k \in 1 .. Images : Len(DecodedCoco(coco, k)) = results[k].n
        /\ summary # NotWritten =>
            summary.auto_approved = Cardinality({k \in 1 .. Images : results[k].n > 0})

=============================================================================
