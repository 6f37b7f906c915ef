----------------------- MODULE LocalAnnotationProofs ------------------------
(***************************************************************************)
(* Proofs about LocalAnnotation, for any images, any detections and any    *)
(* answers of SAM 2 and CLIP: what the pipeline approves without a human,  *)
(* and what mining ranks of the rest.                                      *)
(***************************************************************************)
EXTENDS LocalAnnotation, ConfidenceEngineProofs, ExportersProofs

-----------------------------------------------------------------------------
(* The inductive invariant.  Between two images, and until a score is      *)
(* needed, nothing is scored, so what was scored is of these detections.   *)

LabelInv == \A k \in DOMAIN dets : dets[k].label \in DOMAIN Seed

IdleInv ==
    stage \in {"detect", "segment", "validate", "gate"} => scored = 0

(* One maskless detection among those scored puts the weakest below        *)
(* human_review.                                                           *)
WeakestInv ==
    \A k \in 1 .. scored : MaskBoxIoU(dets[k]) = 0 => weakest < HumanReview

ResultsInv ==
    \A k \in DOMAIN results :
        \E n \in Nat, s \in Nat, w \in Nat : results[k] = ScoreImage(n, s, w)

(* TypeOK in two parts: the image at work, and the batch.                  *)
Stages == {"detect", "segment", "validate", "score", "gate", "rescore", "done", "failed"}

ImageOK ==
    /\ stage \in Stages
    /\ dets \in Seq(Detection)
    /\ scored \in 0 .. Len(dets)
    /\ sum \in Nat /\ weakest \in Nat
    /\ sum <= Unit * scored
    /\ weakest * scored <= sum

Confidences ==
    [overall : Nat, weakest : Nat, n : Nat,
     routing : {"auto_approve", "needs_review", "reject"}]

BatchOK ==
    /\ runner \in {"mock", "models", "standalone"}
    /\ {seg, vlm} \subseteq BOOLEAN
    /\ caption \in {"not_asked", "text", "none"}
    /\ prompts \in PromptCounts
    /\ current \in 1 .. Images + 1
    /\ results \in Seq(Confidences)
    /\ exports \in Seq([file : Nat, anns : Seq(LabelledBox)])
    /\ Len(results) = current - 1
    /\ Len(exports) = current - 1
    /\ failures \in 0 .. MaxFailures

LEMMA TypeParts == TypeOK <=> ImageOK /\ BatchOK
  BY DEF TypeOK, ImageOK, BatchOK, Stages, Confidences

(* A file is at work in every stage but the ones between two files.        *)
AtWork == {"segment", "validate", "score", "gate", "rescore"}
CurrentInv == stage \in AtWork => current <= Images

ImageInv == ImageOK /\ LabelInv /\ IdleInv /\ WeakestInv
BatchInv == BatchOK /\ ResultsInv
LocalInv == ImageInv /\ BatchInv

imageVars == <<stage, dets, scored, sum, weakest>>
batchVars == <<runner, seg, vlm, prompts, caption, current, results, exports, failures>>

LEMMA ImageStutter ==
    ASSUME ImageInv, UNCHANGED imageVars
    PROVE  ImageInv'
  BY DEF ImageInv, ImageOK, LabelInv, IdleInv, WeakestInv, imageVars

LEMMA BatchStutter ==
    ASSUME BatchInv, UNCHANGED batchVars
    PROVE  BatchInv'
  BY DEF BatchInv, BatchOK, ResultsInv, batchVars

(* Without detections that are scored, any detections will do.             *)
LEMMA Unscored ==
    ASSUME NEW ds \in Seq(Detection), dets' = ds,
           \A k \in DOMAIN ds : ds[k].label \in DOMAIN Seed,
           stage' \in Stages, scored' = 0, sum' = 0, weakest' \in Nat
    PROVE  ImageInv'
<1>1. Len(ds) \in Nat
  BY LenProperties
<1>2. ImageOK'
  <2>1. sum' <= Unit * scored' /\ weakest' * scored' <= sum'
    <3>1. 0 <= Unit * 0
      BY SMT DEF Unit
    <3>2. \A w \in Nat : w * 0 <= 0
      BY SMT
    <3> QED
      BY <3>1, <3>2
  <2>2. scored' \in 0 .. Len(dets') /\ sum' \in Nat /\ dets' \in Seq(Detection)
    BY <1>1, SMT
  <2> QED
    BY <2>1, <2>2 DEF ImageOK
<1>3. LabelInv' /\ IdleInv'
  BY DEF LabelInv, IdleInv
<1>4. WeakestInv'
  BY SMT DEF WeakestInv
<1> QED
  BY <1>2, <1>3, <1>4 DEF ImageInv

(* Where nothing is scored, the sum and the least are 0.                   *)
LEMMA NothingScored ==
    ASSUME ImageOK, scored = 0
    PROVE  sum = 0
  BY SMT DEF ImageOK, Unit

-----------------------------------------------------------------------------
LEMMA InitLocal == Init => LocalInv
<1> SUFFICES ASSUME Init PROVE LocalInv
  OBVIOUS
<1>1. /\ stage = "detect" /\ dets = <<>> /\ scored = 0 /\ sum = 0 /\ weakest = 0
      /\ current = 1 /\ results = <<>> /\ exports = <<>> /\ failures = 0
  BY DEF Init
<1>2. dets \in Seq(Detection) /\ Len(dets) = 0
  BY <1>1, EmptySeq
<1>3. ImageOK
  BY <1>1, <1>2, SMT DEF ImageOK, Stages, Unit
<1>4. LabelInv /\ IdleInv /\ WeakestInv
  BY <1>1, SMT DEF LabelInv, IdleInv, WeakestInv
<1>5. BatchOK
  <2>1. Images \in Nat /\ MaxFailures \in Nat
    BY LocalAssumption
  <2>2. /\ results \in Seq(Confidences) /\ Len(results) = 0
        /\ exports \in Seq([file : Nat, anns : Seq(LabelledBox)]) /\ Len(exports) = 0
    BY <1>1, EmptySeq
  <2>3. /\ runner \in {"mock", "models", "standalone"}
        /\ {seg, vlm} \subseteq BOOLEAN /\ caption = "not_asked"
        /\ prompts \in PromptCounts
    BY DEF Init
  <2> QED
    BY <1>1, <2>1, <2>2, <2>3, SMT DEF BatchOK
<1>6. ResultsInv
  BY <1>1 DEF ResultsInv
<1> QED
  BY <1>3, <1>4, <1>5, <1>6 DEF LocalInv, ImageInv, BatchInv

-----------------------------------------------------------------------------
(* Stages 1 to 3.                                                          *)

(* What is found is some of a scene, in its order.                         *)
LEMMA FoundPrefix ==
    ASSUME NEW scene \in Scene
    PROVE  /\ Found(scene) \in Seq([label : Nat, box : Box, score : Score])
           /\ \A k \in DOMAIN Found(scene) : Found(scene)[k].label \in DOMAIN Seed
<1> DEFINE T == [label : Nat, box : Box, score : Score]
           l == Least(Len(scene), MaxDetections)
<1>1. scene \in Seq(T)
  BY LocalAssumption
<1>2. \A k \in DOMAIN scene : scene[k].label \in DOMAIN Seed
  BY LocalAssumption
<1>3. Len(scene) \in Nat /\ DOMAIN scene = 1 .. Len(scene)
  BY <1>1, LenProperties
<1>4. l \in Nat /\ l <= Len(scene)
  <2>1. MaxDetections \in Nat
    BY LocalAssumption
  <2> QED
    BY <1>3, <2>1, SMT DEF Least
<1>5. /\ SubSeq(scene, 1, l) \in Seq(T)
      /\ Len(SubSeq(scene, 1, l)) = l
      /\ \A k \in 1 .. l : SubSeq(scene, 1, l)[k] = scene[k]
  <2> HIDE DEF T, l
  <2>1. \A k \in 1 .. l : scene[k] \in T
    BY <1>1, <1>3, <1>4, ElementOfSeq, SMT
  <2>2. SubSeq(scene, 1, l) = [k \in 1 .. l |-> scene[k]]
    BY <1>1, <1>3, <1>4, SMT
  <2> QED
    BY <1>4, <2>1, <2>2, SMT
<1>6. DOMAIN SubSeq(scene, 1, l) = 1 .. l
  <2> HIDE DEF T, l
  <2> QED
    BY <1>5, LenProperties
<1>7. \A k \in 1 .. l : k \in DOMAIN scene
  <2> HIDE DEF l
  <2> QED
    BY <1>3, <1>4, SMT
<1> QED
  <2> HIDE DEF T, l
  <2>1. Found(scene) = SubSeq(scene, 1, l) \/ Found(scene) = scene
    BY DEF Found, l
  <2> QED
    BY <2>1, <1>1, <1>2, <1>5, <1>6, <1>7 DEF T

LEMMA DetectStep ==
    ASSUME LocalInv, Detect
    PROVE  LocalInv'
<1> DEFINE T == [label : Nat, box : Box, score : Score]
<1>1. PICK scene \in Scene :
        dets' = [k \in DOMAIN Found(scene) |-> Detected(Found(scene)[k])]
  BY DEF Detect
<1> DEFINE f == Found(scene)
           ds == [k \in DOMAIN f |-> Detected(f[k])]
<1>2. f \in Seq(T) /\ \A k \in DOMAIN f : f[k].label \in DOMAIN Seed
  BY FoundPrefix
<1>3. Len(f) \in Nat /\ DOMAIN f = 1 .. Len(f) /\ \A k \in DOMAIN f : f[k] \in T
  BY <1>2, LenProperties, ElementOfSeq
<1>4. \A t \in T : Detected(t) \in Detection /\ Detected(t).label = t.label
  BY DEF Detected, Detection, Mask
<1> HIDE DEF f, T
<1>5. ds \in Seq(Detection) /\ DOMAIN ds = DOMAIN f
  BY <1>3, <1>4, SMT
<1>6. \A k \in DOMAIN ds : ds[k].label \in DOMAIN Seed
  BY <1>2, <1>3, <1>4
<1>7. stage' \in Stages /\ scored' = 0 /\ sum' = 0 /\ weakest' \in Nat
  BY NothingScored DEF Detect, Goto, Stages, scores, LocalInv, ImageInv, IdleInv, ImageOK
<1>8. dets' = ds
  BY <1>1 DEF f
<1>9. ImageInv'
  <2> HIDE DEF ds
  <2> QED
    BY <1>5, <1>6, <1>7, <1>8, Unscored
<1>10. BatchInv'
  BY BatchStutter DEF Detect, options, outputs, batchVars, LocalInv
<1> QED
  BY <1>9, <1>10 DEF LocalInv

(* A later stage fills in signals and leaves the rest of a detection.      *)
LEMMA FilledIn ==
    ASSUME LocalInv, NEW f \in [DOMAIN dets -> Detection], dets' = f,
           \A k \in DOMAIN dets : f[k].label = dets[k].label,
           stage' \in Stages, scored = 0, UNCHANGED scores
    PROVE  ImageInv'
<1>1. dets \in Seq(Detection)
  BY DEF LocalInv, ImageInv, ImageOK
<1>2. Len(dets) \in Nat /\ DOMAIN dets = 1 .. Len(dets)
  BY <1>1, LenProperties
<1>3. f \in Seq(Detection) /\ DOMAIN f = DOMAIN dets
  BY <1>2, SMT
<1>4. \A k \in DOMAIN f : f[k].label \in DOMAIN Seed
  BY <1>3 DEF LocalInv, ImageInv, LabelInv
<1>5. scored' = 0 /\ sum' = 0 /\ weakest' \in Nat
  BY NothingScored DEF scores, LocalInv, ImageInv, ImageOK
<1> QED
  BY <1>3, <1>4, <1>5, Unscored

LEMMA DetectionFields ==
    ASSUME LocalInv, NEW k \in DOMAIN dets
    PROVE  /\ dets[k] \in Detection
           /\ dets[k].label \in DOMAIN Seed
           /\ dets[k].score \in Nat /\ dets[k].score <= 10000
           /\ dets[k].box \in Box
<1>1. dets \in Seq(Detection)
  BY DEF LocalInv, ImageInv, ImageOK
<1>2. dets[k] \in Detection
  BY <1>1, LenProperties, ElementOfSeq
<1>3. dets[k].score \in Score /\ dets[k].box \in Box
  BY <1>2 DEF Detection
<1> QED
  BY <1>2, <1>3, ScoreBounds DEF LocalInv, ImageInv, LabelInv

(* The mocked SAM 2: pixels of the box, and a quality below 0.95.          *)
LEMMA MockMaskTyped ==
    ASSUME NEW b \in Box
    PROVE  MockMask(b) \in Mask
<1> DEFINE m == [x1 |-> b.x1 \div Px, y1 |-> b.y1 \div Px,
                 x2 |-> b.x2 \div Px - 1, y2 |-> b.y2 \div Px - 1]
<1>1. m.x1 \in Int /\ m.y1 \in Int /\ m.x2 \in Int /\ m.y2 \in Int
  BY AreaSpans, SMT DEF Px
<1>2. m \in Box
  BY <1>1 DEF Box
<1>3. MockMask(b) = m \/ MockMask(b) = NoMask
  BY DEF MockMask
<1> QED
  BY <1>2, <1>3 DEF Mask

LEMMA MockQuality ==
    ASSUME NEW d, d.score \in Nat, d.score <= 10000
    PROVE  MockSegment(d).quality \in Score
<1> DEFINE q == 10 * ((6000 + (35 * d.score) \div 100 + 5) \div 10)
<1>1. q \in Nat /\ q <= 10000
  BY SMT
<1>2. MockSegment(d).quality = q
  BY DEF MockSegment
<1> HIDE DEF q
<1> QED
  BY <1>1, <1>2, ScoreBounds

(* The mocked CLIP: between 0.5 and 0.95.                                  *)
LEMMA SeedRange ==
    ASSUME NEW k \in DOMAIN Seed
    PROVE  Seed[k] \in Nat /\ Seed[k] <= 999
<1> DEFINE R == 0 .. 999
<1>1. \A x \in R : x \in Nat /\ x <= 999
  BY SMT
<1>2. Seed \in Seq(R)
  BY LocalAssumption
<1> HIDE DEF R
<1>3. k \in 1 .. Len(Seed)
  BY <1>2, LenProperties
<1>4. Seed[k] \in R
  BY <1>2, <1>3, ElementOfSeq
<1> QED
  BY <1>1, <1>4

LEMMA MockClipTyped ==
    ASSUME NEW d, d.label \in DOMAIN Seed, d.score \in Nat, d.score <= 10000
    PROVE  MockClip(d) \in Score
<1> DEFINE h == Seed[d.label]
           p == h * d.score
           q == 10 * ((5000 + (45 * (p \div 1000)) \div 100 + 5) \div 10)
<1>1. h \in Nat /\ h <= 999
  BY SeedRange
<1>2. p \in Nat /\ p <= 9990000
  <2> HIDE DEF h
  <2> QED
    BY <1>1, ProductMonotonic, SMT
<1>3. q \in Nat /\ q <= 10000
  <2> HIDE DEF p
  <2> QED
    BY <1>2, SMT
<1>4. MockClip(d) = q
  BY DEF MockClip
<1> HIDE DEF q
<1> QED
  BY <1>3, <1>4, ScoreBounds

WithMask(d, m, q) == [d EXCEPT !.mask = m, !.quality = q]

LEMMA MaskSet ==
    ASSUME NEW d \in Detection, NEW m \in Mask, NEW q \in Score
    PROVE  WithMask(d, m, q) \in Detection /\ WithMask(d, m, q).label = d.label
  BY DEF Detection, WithMask

LEMMA SegmentStep ==
    ASSUME LocalInv, Segment
    PROVE  LocalInv'
<1>1. stage = "segment" /\ stage' = "validate" /\ UNCHANGED scores /\ UNCHANGED batchVars
  BY DEF Segment, Goto, options, outputs, batchVars
<1>2. stage' \in Stages /\ scored = 0
  BY <1>1 DEF Stages, LocalInv, ImageInv, IdleInv
<1>3. BatchInv'
  BY <1>1, BatchStutter DEF LocalInv
<1>4. CASE dets' = dets
  <2>1. dets \in Seq(Detection) /\ \A k \in DOMAIN dets : dets[k].label \in DOMAIN Seed
    BY DEF LocalInv, ImageInv, ImageOK, LabelInv
  <2>2. scored' = 0 /\ sum' = 0 /\ weakest' \in Nat
    BY <1>1, <1>2, NothingScored DEF scores, LocalInv, ImageInv, ImageOK
  <2>3. ImageInv'
    BY <1>2, <1>4, <2>1, <2>2, Unscored
  <2> QED
    BY <1>3, <2>3 DEF LocalInv
<1>5. CASE seg /\ dets # <<>>
  <2>1. PICK a \in IF runner = "mock" THEN {[k \in DOMAIN dets |-> MockSegment(dets[k])]}
                   ELSE [DOMAIN dets -> Segmentation] :
          dets' = [k \in DOMAIN dets |->
                    [dets[k] EXCEPT !.mask = a[k].mask, !.quality = a[k].quality]]
    BY <1>5 DEF Segment
  <2> DEFINE f == [k \in DOMAIN dets |->
                    [dets[k] EXCEPT !.mask = a[k].mask, !.quality = a[k].quality]]
  <2>2. ASSUME NEW k \in DOMAIN dets
        PROVE  a[k].mask \in Mask /\ a[k].quality \in Score
    <3>1. CASE runner = "mock"
      <4>1. a[k] = MockSegment(dets[k])
        BY <2>1, <3>1
      <4>2. MockSegment(dets[k]).mask = MockMask(dets[k].box)
        BY DEF MockSegment
      <4> QED
        BY <4>1, <4>2, DetectionFields, MockMaskTyped, MockQuality
    <3>2. CASE runner # "mock"
      <4>1. a[k] \in Segmentation
        BY <2>1, <3>2
      <4> QED
        BY <4>1, LocalAssumption
    <3> QED
      BY <3>1, <3>2
  <2>3. \A k \in DOMAIN dets : f[k] \in Detection /\ f[k].label = dets[k].label
    <3> TAKE k \in DOMAIN dets
    <3> DEFINE m == a[k].mask
               q == a[k].quality
    <3>1. m \in Mask /\ q \in Score /\ dets[k] \in Detection
      BY <2>2, DetectionFields
    <3>2. f[k] = WithMask(dets[k], m, q)
      BY DEF WithMask
    <3> HIDE DEF f, m, q
    <3> QED
      BY <3>1, <3>2, MaskSet
  <2>4. f \in [DOMAIN dets -> Detection]
    BY <2>3
  <2>5. dets' = f
    BY <2>1
  <2>6. ImageInv'
    <3> HIDE DEF f
    <3> QED
      BY <1>1, <1>2, <2>3, <2>4, <2>5, FilledIn
  <2> QED
    BY <1>3, <2>6 DEF LocalInv
<1>6. dets' = dets \/ (seg /\ dets # <<>>)
  BY DEF Segment
<1> QED
  BY <1>4, <1>5, <1>6

LEMMA ValidateStep ==
    ASSUME LocalInv, Validate
    PROVE  LocalInv'
<1>1. stage' \in Stages /\ scored = 0 /\ UNCHANGED scores
  BY DEF Validate, Goto, Stages, LocalInv, ImageInv, IdleInv
<1>2. PICK a \in IF runner = "mock" THEN {[k \in DOMAIN dets |-> MockClip(dets[k])]}
                 ELSE [DOMAIN dets -> ClipScore] :
        dets' = [k \in DOMAIN dets |-> [dets[k] EXCEPT !.clip = a[k]]]
  BY DEF Validate
<1> DEFINE f == [k \in DOMAIN dets |-> [dets[k] EXCEPT !.clip = a[k]]]
<1>3. ASSUME NEW k \in DOMAIN dets
      PROVE  a[k] \in Score
  <2>1. CASE runner = "mock"
    BY <1>2, <2>1, DetectionFields, MockClipTyped
  <2>2. CASE runner # "mock"
    BY <1>2, <2>2, LocalAssumption
  <2> QED
    BY <2>1, <2>2
<1>4. \A k \in DOMAIN dets : f[k] \in Detection /\ f[k].label = dets[k].label
  BY <1>3, DetectionFields DEF Detection
<1>5. f \in [DOMAIN dets -> Detection]
  BY <1>4
<1>6. ImageInv'
  <2>1. dets' = f
    BY <1>2
  <2> HIDE DEF f
  <2> QED
    BY <1>1, <1>4, <1>5, <2>1, FilledIn
<1>7. BatchInv'
  BY BatchStutter DEF Validate, options, outputs, batchVars, LocalInv
<1> QED
  BY <1>6, <1>7 DEF LocalInv

-----------------------------------------------------------------------------
(* The loop of score_image.                                                *)

LEMMA ScoreNextStep ==
    ASSUME LocalInv, ScoreNext
    PROVE  LocalInv'
<1> DEFINE det == dets[scored + 1]
           s == ScoreDetection(det)
           w == IF scored = 0 THEN s ELSE Least(weakest, s)
<1>1. /\ stage \in {"score", "rescore"} /\ scored < Len(dets)
      /\ scored' = scored + 1 /\ sum' = sum + s /\ weakest' = w
      /\ UNCHANGED stage /\ UNCHANGED dets /\ UNCHANGED batchVars
  BY DEF ScoreNext, options, outputs, batchVars
<1>2. /\ dets \in Seq(Detection) /\ stage \in Stages
      /\ sum \in Nat /\ weakest \in Nat
      /\ sum <= Unit * scored /\ weakest * scored <= sum
  BY DEF LocalInv, ImageInv, ImageOK
<1>3. Len(dets) \in Nat /\ scored \in Nat /\ scored + 1 \in 1 .. Len(dets)
  <2>1. Len(dets) \in Nat
    BY <1>2, LenProperties
  <2>2. scored \in 0 .. Len(dets)
    BY DEF LocalInv, ImageInv, ImageOK
  <2> QED
    BY <1>1, <2>1, <2>2, SMT
<1>4. det \in Detection
  BY <1>2, <1>3, ElementOfSeq
<1>5. s \in Nat /\ s <= 10000
  BY <1>4, ScoreRange
<1>6. MaskBoxIoU(det) = 0 => s < HumanReview
  BY <1>4, MasklessBelowReview
<1>7. ImageOK'
  <2> HIDE DEF s
  <2>1. scored' \in 0 .. Len(dets')
    BY <1>1, <1>3, SMT
  <2>2. sum' \in Nat /\ weakest' \in Nat
    BY <1>1, <1>2, <1>5, SMT DEF Least
  <2>3. sum' <= Unit * scored'
    BY <1>1, <1>2, <1>3, <1>5, SMT DEF Unit
  <2>4. weakest' * scored' <= sum'
    <3>1. CASE scored = 0
      <4>1. weakest' = s /\ scored' = 1
        BY <1>1, <3>1, SMT
      <4> QED
        BY <1>1, <1>2, <1>5, <4>1, SMT
    <3>2. CASE scored # 0
      <4> DEFINE v == Least(weakest, s)
      <4>1. v \in Nat /\ v <= weakest /\ v <= s
        BY <1>2, <1>5, SMT DEF Least
      <4> HIDE DEF v
      <4>2. v * scored <= weakest * scored
        BY <1>2, <1>3, <4>1, ProductMonotonic, SMT
      <4>3. v * (scored + 1) = v * scored + v
        BY <1>3, <4>1, SMT
      <4>4. weakest' = v
        BY <1>1, <3>2 DEF v
      <4>5. v * scored \in Nat /\ weakest * scored \in Nat
        BY <1>2, <1>3, <4>1, SMT
      <4>6. v * scored + v <= sum + s
        BY <1>2, <1>5, <4>1, <4>2, <4>5, SMT
      <4> QED
        BY <1>1, <4>3, <4>4, <4>6
    <3> QED
      BY <3>1, <3>2
  <2> QED
    BY <1>1, <1>2, <2>1, <2>2, <2>3, <2>4 DEF ImageOK
<1>8. LabelInv' /\ IdleInv'
  BY <1>1 DEF LocalInv, ImageInv, LabelInv, IdleInv
<1>9. WeakestInv'
  <2> SUFFICES ASSUME NEW k \in 1 .. (scored + 1), MaskBoxIoU(dets[k]) = 0
               PROVE  w < HumanReview
    BY <1>1 DEF WeakestInv
  <2>1. CASE k = scored + 1
    <3>1. s < HumanReview
      BY <1>6, <2>1
    <3> HIDE DEF s
    <3> QED
      BY <1>2, <1>5, <3>1, SMT DEF Least, HumanReview
  <2>2. CASE k # scored + 1
    <3>1. k \in 1 .. scored /\ scored # 0
      BY <1>3, <2>2, SMT
    <3>2. weakest < HumanReview
      BY <3>1 DEF LocalInv, ImageInv, WeakestInv
    <3> HIDE DEF s
    <3> QED
      BY <1>2, <1>5, <3>1, <3>2, SMT DEF Least, HumanReview
  <2> QED
    BY <2>1, <2>2
<1>10. BatchInv'
  BY <1>1, BatchStutter DEF LocalInv
<1> QED
  BY <1>7, <1>8, <1>9, <1>10 DEF LocalInv, ImageInv

(* What is stored of an image.                                             *)
LEMMA RoundedQuotient ==
    ASSUME NEW s \in Nat, NEW n \in Nat, n > 0
    PROVE  /\ (2 * s + n) \div (2 * n) \in Nat
           /\ ((2 * s + n) \div (2 * n)) * (2 * n) <= 2 * s + n
  BY SMT

LEMMA ScoreImageTyped ==
    ASSUME NEW n \in Nat, NEW s \in Nat, NEW w \in Nat
    PROVE  ScoreImage(n, s, w) \in Confidences
<1>1. Rounded(s, n) \in Nat
  BY RoundedQuotient DEF Rounded
<1>2. Routing(n, s, w) \in {"auto_approve", "needs_review", "reject"}
  BY DEF Routing
<1> QED
  BY <1>1, <1>2 DEF ScoreImage, Confidences

LEMMA ExportTyped ==
    ASSUME NEW k \in Nat, NEW ds \in Seq(Detection)
    PROVE  ExportImage(k, ds) \in [file : Nat, anns : Seq(LabelledBox)]
<1> DEFINE Thousandths(n) == (1000 \div Px) * n
           Ann(d) == [label |-> d.label,
                      box |-> <<Thousandths(d.box.x1), Thousandths(d.box.y1),
                                Thousandths(d.box.x2 - d.box.x1),
                                Thousandths(d.box.y2 - d.box.y1)>>]
           anns == [p \in DOMAIN ds |-> Ann(ds[p])]
<1>1. \A d \in Detection : Ann(d) \in LabelledBox
  <2> TAKE d \in Detection
  <2>1. d.box \in Box /\ d.label \in Nat
    BY DEF Detection
  <2>2. /\ d.box.x1 \in Int /\ d.box.y1 \in Int
        /\ d.box.x2 - d.box.x1 \in Int /\ d.box.y2 - d.box.y1 \in Int
    BY <2>1, AreaSpans, SMT
  <2>3. \A n \in Int : Thousandths(n) \in Int
    BY SMT DEF Px
  <2> HIDE DEF Thousandths
  <2> QED
    BY <2>1, <2>2, <2>3 DEF LabelledBox
<1>2. Len(ds) \in Nat /\ DOMAIN ds = 1 .. Len(ds) /\ \A p \in DOMAIN ds : ds[p] \in Detection
  BY LenProperties, ElementOfSeq
<1>3. ExportImage(k, ds) = [file |-> k, anns |-> anns]
  BY DEF ExportImage
<1> HIDE DEF Ann
<1>4. anns \in Seq(LabelledBox)
  BY <1>1, <1>2, SMT
<1> QED
  BY <1>3, <1>4

LEMMA ScorePreliminaryStep ==
    ASSUME LocalInv, ScorePreliminary
    PROVE  LocalInv'
<1>1. stage' \in Stages /\ scored' = 0 /\ sum' = 0 /\ weakest' \in Nat
  BY DEF ScorePreliminary, ResetScores, Goto, Stages
<1>2. dets \in Seq(Detection) /\ \A k \in DOMAIN dets : dets[k].label \in DOMAIN Seed
  BY DEF LocalInv, ImageInv, ImageOK, LabelInv
<1>3. ImageInv'
  BY <1>1, <1>2, Unscored DEF ScorePreliminary
<1>4. BatchInv'
  BY BatchStutter DEF ScorePreliminary, options, outputs, batchVars, LocalInv
<1> QED
  BY <1>3, <1>4 DEF LocalInv

LEMMA CaptionStep ==
    ASSUME LocalInv, Caption
    PROVE  LocalInv'
<1>1. stage' = "rescore" /\ UNCHANGED <<dets, scored, sum, weakest>>
  BY DEF Caption, Goto, scores
<1>2. ImageInv'
  BY <1>1 DEF LocalInv, ImageInv, ImageOK, LabelInv, IdleInv, WeakestInv, Stages
<1>3. BatchInv'
  <2>1. caption' \in {"not_asked", "text", "none"}
    BY DEF Caption
  <2>2. UNCHANGED <<runner, seg, vlm, prompts, current, results, exports, failures>>
    BY DEF Caption, options, outputs
  <2> QED
    BY <2>1, <2>2 DEF LocalInv, BatchInv, BatchOK, ResultsInv
<1> QED
  BY <1>2, <1>3 DEF LocalInv

LEMMA FinishStep ==
    ASSUME LocalInv, CurrentInv, Finish
    PROVE  LocalInv'
<1> DEFINE c == ScoreImage(Len(dets), sum, weakest)
           E == [file : Nat, anns : Seq(LabelledBox)]
           e == ExportImage(current, dets)
<1>1. /\ stage' = "detect" /\ dets' = <<>>
      /\ scored' = 0 /\ sum' = 0 /\ weakest' = 0
      /\ results' = Append(results, c) /\ exports' = Append(exports, e)
      /\ current' = current + 1 /\ caption' = "not_asked"
      /\ UNCHANGED <<runner, seg, vlm, prompts, failures>>
  BY DEF Finish, Goto, ResetScores, Confidence, options
<1>2. dets \in Seq(Detection) /\ sum \in Nat /\ weakest \in Nat /\ Len(dets) \in Nat
  BY LenProperties DEF LocalInv, ImageInv, ImageOK
<1>3. ImageInv'
  <2>1. <<>> \in Seq(Detection) /\ \A k \in DOMAIN <<>> : <<>>[k].label \in DOMAIN Seed
    BY EmptySeq
  <2>2. stage' \in Stages /\ weakest' \in Nat
    BY <1>1 DEF Stages
  <2> QED
    BY <1>1, <2>1, <2>2, Unscored
<1>4. c \in Confidences
  BY <1>2, ScoreImageTyped
<1>5. /\ results \in Seq(Confidences) /\ exports \in Seq(E)
      /\ Len(results) = current - 1 /\ Len(exports) = current - 1
      /\ current \in 1 .. Images + 1
  BY DEF LocalInv, BatchInv, BatchOK
<1>6. current \in Nat /\ current <= Images /\ Images \in Nat
  <2>1. stage \in AtWork
    BY DEF Finish, Goto, AtWork
  <2> QED
    BY <1>5, <2>1, LocalAssumption, SMT DEF CurrentInv
<1>7. e \in E
  BY <1>2, <1>6, ExportTyped
<1> HIDE DEF c, E, e
<1>8. /\ results' \in Seq(Confidences) /\ Len(results') = Len(results) + 1
      /\ exports' \in Seq(E) /\ Len(exports') = Len(exports) + 1
      /\ \A k \in DOMAIN results' :
            results'[k] = c \/ (k \in DOMAIN results /\ results'[k] = results[k])
  <2>1. Len(results) \in Nat /\ DOMAIN results = 1 .. Len(results)
    BY <1>5, LenProperties
  <2>2. /\ results' \in Seq(Confidences) /\ Len(results') = Len(results) + 1
        /\ \A k \in 1 .. Len(results) : results'[k] = results[k]
        /\ results'[Len(results) + 1] = c
    BY <1>1, <1>4, <1>5, AppendProperties
  <2>3. exports' \in Seq(E) /\ Len(exports') = Len(exports) + 1
    BY <1>1, <1>5, <1>7, AppendProperties
  <2>4. DOMAIN results' = 1 .. (Len(results) + 1)
    BY <2>2, LenProperties
  <2>5. \A k \in 1 .. (Len(results) + 1) : k = Len(results) + 1 \/ k \in 1 .. Len(results)
    BY <2>1, SMT
  <2> QED
    BY <2>1, <2>2, <2>3, <2>4, <2>5
<1>9. BatchOK'
  <2>1. current' \in 1 .. Images + 1 /\ Len(results') = current' - 1 /\ Len(exports') = current' - 1
    BY <1>1, <1>5, <1>6, <1>8, SMT
  <2>2. {seg', vlm'} \subseteq BOOLEAN /\ caption' \in {"not_asked", "text", "none"}
    BY <1>1 DEF LocalInv, BatchInv, BatchOK
  <2>3. /\ runner' \in {"mock", "models", "standalone"} /\ prompts' \in PromptCounts
        /\ failures' \in 0 .. MaxFailures
    BY <1>1 DEF LocalInv, BatchInv, BatchOK
  <2> QED
    BY <1>8, <2>1, <2>2, <2>3 DEF BatchOK, E
<1>10. ResultsInv'
  <2> SUFFICES ASSUME NEW k \in DOMAIN results'
               PROVE  \E n \in Nat, s \in Nat, w \in Nat : results'[k] = ScoreImage(n, s, w)
    BY DEF ResultsInv
  <2>1. CASE results'[k] = c
    BY <1>2, <2>1 DEF c
  <2>2. CASE k \in DOMAIN results /\ results'[k] = results[k]
    BY <2>2 DEF LocalInv, BatchInv, ResultsInv
  <2> QED
    BY <1>8, <2>1, <2>2
<1> QED
  BY <1>3, <1>9, <1>10 DEF LocalInv, BatchInv

-----------------------------------------------------------------------------
(* The end of the batch, and the failures.                                 *)

LEMMA EndStep ==
    ASSUME LocalInv, WriteFiles \/ StageRaises \/ MockRaises
    PROVE  LocalInv'
<1>1. UNCHANGED <<dets, scored, sum, weakest>> /\ stage' \in {"done", "failed"}
  BY DEF WriteFiles, StageRaises, MockRaises, Goto, scores
<1>2. ImageInv'
  BY <1>1 DEF LocalInv, ImageInv, ImageOK, LabelInv, IdleInv, WeakestInv, Stages
<1>3. UNCHANGED <<runner, seg, vlm, prompts, caption, current, results, exports>>
  BY DEF WriteFiles, StageRaises, MockRaises, options, outputs
<1>4. failures' \in 0 .. MaxFailures
  <2>1. failures \in 0 .. MaxFailures /\ MaxFailures \in Nat
    BY LocalAssumption DEF LocalInv, BatchInv, BatchOK
  <2>2. CASE StageRaises
    <3>1. failures < MaxFailures /\ failures' = failures + 1
      BY <2>2 DEF StageRaises
    <3> QED
      BY <2>1, <3>1, SMT
  <2>3. CASE WriteFiles \/ MockRaises
    BY <2>1, <2>3 DEF WriteFiles, MockRaises, outputs
  <2> QED
    BY <2>2, <2>3
<1>5. BatchInv'
  BY <1>3, <1>4 DEF LocalInv, BatchInv, BatchOK, ResultsInv
<1> QED
  BY <1>2, <1>5 DEF LocalInv

LEMMA CurrentStep ==
    ASSUME CurrentInv, [Next]_vars
    PROVE  CurrentInv'
<1>1. CASE Detect
  BY <1>1 DEF Detect, CurrentInv, AtWork
<1>2. CASE Segment \/ Validate \/ ScoreNext \/ ScorePreliminary \/ Caption
  <2>1. current' = current /\ stage \in AtWork
    BY <1>2 DEF Segment, Validate, ScoreNext, ScorePreliminary, Caption, Goto, AtWork
  <2> QED
    BY <2>1 DEF CurrentInv
<1>3. CASE Finish \/ WriteFiles \/ StageRaises \/ MockRaises
  <2>1. stage' \in {"detect", "done", "failed"}
    BY <1>3 DEF Finish, WriteFiles, StageRaises, MockRaises, Goto
  <2> QED
    BY <2>1 DEF CurrentInv, AtWork
<1>4. CASE UNCHANGED vars
  BY <1>4 DEF vars, CurrentInv
<1> QED
  BY <1>1, <1>2, <1>3, <1>4 DEF Next

-----------------------------------------------------------------------------
(* LocalInv and CurrentInv hold in every behavior.                         *)
LEMMA Invariant == Spec => [](LocalInv /\ CurrentInv)
<1>1. Init => LocalInv /\ CurrentInv
  BY InitLocal DEF Init, CurrentInv, AtWork
<1>2. ASSUME LocalInv, CurrentInv, [Next]_vars
      PROVE  LocalInv'
  <2>1. CASE Detect
    BY <1>2, <2>1, DetectStep
  <2>2. CASE Segment
    BY <1>2, <2>2, SegmentStep
  <2>3. CASE Validate
    BY <1>2, <2>3, ValidateStep
  <2>4. CASE ScoreNext
    BY <1>2, <2>4, ScoreNextStep
  <2>5. CASE ScorePreliminary
    BY <1>2, <2>5, ScorePreliminaryStep
  <2>6. CASE Caption
    BY <1>2, <2>6, CaptionStep
  <2>7. CASE Finish
    BY <1>2, <2>7, FinishStep
  <2>8. CASE WriteFiles \/ StageRaises \/ MockRaises
    BY <1>2, <2>8, EndStep
  <2>9. CASE UNCHANGED vars
    <3>1. UNCHANGED imageVars /\ UNCHANGED batchVars
      BY <2>9 DEF vars, options, scores, outputs, imageVars, batchVars
    <3> QED
      BY <1>2, <3>1, ImageStutter, BatchStutter DEF LocalInv
  <2> QED
    BY <1>2, <2>1, <2>2, <2>3, <2>4, <2>5, <2>6, <2>7, <2>8, <2>9 DEF Next
<1>3. LocalInv /\ CurrentInv /\ [Next]_vars => LocalInv' /\ CurrentInv'
  BY <1>2, CurrentStep
<1> QED
  BY <1>1, <1>3, PTL DEF Spec

(* Whatever the models answer, a batch is at one image and one stage, and  *)
(* keeps one confidence and one export for each image it has finished      *)
(* (annotate_local.py:73-107, engine.py:99-128).                           *)
THEOREM LocalTypeOK == Spec => []TypeOK
<1>1. LocalInv => TypeOK
  BY TypeParts DEF LocalInv, ImageInv, BatchInv
<1> QED
  BY <1>1, Invariant, PTL

(* For any detections and any answers of the models, an image that is      *)
(* approved without a human has a mask that overlaps the box of every one  *)
(* of its detections (engine.py:82-116).                                   *)
THEOREM ApprovedNeedsMasks == Spec => []ApprovedIsSegmented
<1>1. LocalInv => ApprovedIsSegmented
  <2> SUFFICES ASSUME LocalInv, scored = Len(dets),
                      Confidence.routing = "auto_approve", NEW k \in DOMAIN dets
               PROVE  MaskBoxIoU(dets[k]) > 0
    BY DEF ApprovedIsSegmented
  <2>1. dets \in Seq(Detection) /\ weakest \in Nat
    BY DEF LocalInv, ImageInv, ImageOK
  <2>2. weakest >= HumanReview
    <3>1. Routing(Len(dets), sum, weakest) = "auto_approve"
      BY DEF Confidence, ScoreImage
    <3> QED
      BY <3>1 DEF Routing
  <2>3. k \in 1 .. scored /\ dets[k] \in Detection
    BY <2>1, LenProperties, ElementOfSeq
  <2>4. MaskBoxIoU(dets[k]) # 0
    <3>1. ~(weakest < HumanReview)
      BY <2>1, <2>2, SMT DEF HumanReview
    <3> QED
      BY <2>3, <3>1 DEF LocalInv, ImageInv, WeakestInv
  <2>5. MaskBoxIoU(dets[k]) \in Nat
    BY <2>3, ConsistencyRange, ScoreBounds
  <2> QED
    BY <2>4, <2>5, SMT
<1> QED
  BY <1>1, Invariant, PTL

(* For any scores, an image that routing does not approve is a candidate   *)
(* of the mining, or its stored mean is exactly review_high: the two sets  *)
(* of thresholds leave no other gap (engine.py:111-116, mining.py:25-40).  *)
THEOREM UnapprovedAreRanked == Spec => []UnapprovedIsRanked
<1>1. ASSUME NEW n \in Nat, NEW s \in Nat, NEW w \in Nat,
             Routing(n, s, w) # "auto_approve",
             Reason(ScoreImage(n, s, w)) = "none"
      PROVE  Rounded(s, n) = ReviewHigh
  <2> DEFINE r == Rounded(s, n)
  <2>1. n # 0
    BY <1>1 DEF Reason, ScoreImage
  <2>2. r \in Nat /\ r * (2 * n) <= 2 * s + n
    BY <2>1, RoundedQuotient DEF Rounded
  <2> HIDE DEF r
  <2>3. ~(r < 4000) /\ ~(r - w > 3000) /\ ~(r < 8500)
    BY <1>1, <2>1, SMT DEF Reason, ScoreImage, ReviewHigh, r
  <2>4. CASE r # 8500
    <3>1. r >= 8501 /\ w >= 5000
      BY <2>2, <2>3, <2>4, SMT
    <3>2. 8501 * (2 * n) <= r * (2 * n)
      BY <2>2, <3>1, ProductMonotonic, SMT
    <3>3. s >= n * 8500
      BY <2>2, <3>2, SMT
    <3> QED
      BY <1>1, <2>1, <3>1, <3>3, SMT DEF Routing, AutoApprove, HumanReview
  <2> QED
    BY <2>4 DEF ReviewHigh, r
<1>2. LocalInv => UnapprovedIsRanked
  <2> SUFFICES ASSUME LocalInv, NEW k \in DOMAIN results,
                      results[k].routing # "auto_approve", Reason(results[k]) = "none"
               PROVE  results[k].overall = ReviewHigh
    BY DEF UnapprovedIsRanked
  <2>1. PICK n \in Nat, s \in Nat, w \in Nat : results[k] = ScoreImage(n, s, w)
    BY DEF LocalInv, BatchInv, ResultsInv
  <2>2. results[k].routing = Routing(n, s, w) /\ results[k].overall = Rounded(s, n)
    BY <2>1 DEF ScoreImage
  <2> QED
    BY <1>1, <2>1, <2>2
<1> QED
  BY <1>2, Invariant, PTL

-----------------------------------------------------------------------------
(* The ranking of the mining.                                              *)

Candidates(rows) == {k \in DOMAIN rows : Reason(rows[k]) # "none"}

Precedes(rows, k, l) ==
    \/ Priority(rows[k]) > Priority(rows[l])
    \/ Priority(rows[k]) = Priority(rows[l]) /\ k < l

BandOf(c) ==
    CASE Reason(c) = "low_confidence" -> 2
      [] Reason(c) = "borderline" -> 3
      [] OTHER -> 1

(* Each band has an interval of priorities to itself, and in the last two  *)
(* a priority decreases as the confidence grows.                           *)
LEMMA PriorityBands ==
    ASSUME NEW c \in Confidences, Reason(c) # "none"
    PROVE  \/ BandOf(c) = 1 /\ Priority(c) \in Int /\ Priority(c) > 9000
           \/ /\ BandOf(c) = 2
              /\ Priority(c) = 9000 - c.overall /\ c.overall \in Nat /\ c.overall < 4000
           \/ /\ BandOf(c) = 3
              /\ Priority(c) = 8500 - c.overall /\ c.overall \in Nat /\ c.overall >= 4000
<1> DEFINE o == c.overall
           w == c.weakest
<1>1. o \in Nat /\ w \in Nat /\ c.n \in Nat
  BY DEF Confidences
<1>2. CASE c.n = 0
  <2>1. Reason(c) = "no_detections"
    BY <1>2 DEF Reason
  <2> QED
    BY <2>1, SMT DEF Priority, BandOf, Unit
<1>3. CASE c.n # 0 /\ o < 4000
  <2>1. Reason(c) = "low_confidence"
    BY <1>3 DEF Reason
  <2> QED
    BY <1>1, <1>3, <2>1 DEF Priority, BandOf
<1>4. CASE c.n # 0 /\ ~(o < 4000) /\ o - w > 3000
  <2>1. Reason(c) = "internal_disagreement"
    BY <1>4 DEF Reason
  <2>2. Priority(c) = 6000 + (o - w)
    BY <2>1 DEF Priority
  <2>3. BandOf(c) = 1
    BY <2>1 DEF BandOf
  <2> QED
    BY <1>1, <1>4, <2>2, <2>3, SMT
<1>5. CASE c.n # 0 /\ ~(o < 4000) /\ ~(o - w > 3000)
  <2>1. Reason(c) = "borderline"
    BY <1>5 DEF Reason
  <2>2. Priority(c) = 8500 - o
    BY <2>1 DEF Priority, ReviewHigh
  <2>3. BandOf(c) = 3
    BY <2>1 DEF BandOf
  <2> QED
    BY <1>1, <1>5, <2>2, <2>3, SMT
<1> QED
  BY <1>2, <1>3, <1>4, <1>5

(* So the order of the priorities is that of the bands.                    *)
LEMMA BandOrder ==
    ASSUME NEW a \in Confidences, Reason(a) # "none",
           NEW b \in Confidences, Reason(b) # "none",
           Priority(a) >= Priority(b)
    PROVE  \/ BandOf(a) < BandOf(b)
           \/ BandOf(a) = BandOf(b) /\ (BandOf(a) > 1 => a.overall <= b.overall)
<1> DEFINE p == Priority(a)  q == Priority(b)
           k == BandOf(a)    l == BandOf(b)
           x == a.overall    y == b.overall
<1>1. \/ k = 1 /\ p \in Int /\ p > 9000
      \/ k = 2 /\ p = 9000 - x /\ x \in Nat /\ x < 4000
      \/ k = 3 /\ p = 8500 - x /\ x \in Nat /\ x >= 4000
  BY PriorityBands
<1>2. \/ l = 1 /\ q \in Int /\ q > 9000
      \/ l = 2 /\ q = 9000 - y /\ y \in Nat /\ y < 4000
      \/ l = 3 /\ q = 8500 - y /\ y \in Nat /\ y >= 4000
  BY PriorityBands
<1>3. p >= q
  OBVIOUS
<1> HIDE DEF p, q, k, l, x, y
<1>4. k < l \/ (k = l /\ (k > 1 => x <= y))
  BY <1>1, <1>2, <1>3, SMT
<1> QED
  BY <1>4 DEF k, l, x, y

(* ScoreCandidates ranks every candidate once, in the order of Precedes.   *)
LEMMA CandidatesRanked ==
    ASSUME NEW rows \in Seq(Confidences)
    PROVE  /\ ScoreCandidates(rows) \in
                [1 .. Cardinality(Candidates(rows)) -> Candidates(rows)]
           /\ \A p, q \in DOMAIN ScoreCandidates(rows) : p < q =>
                Precedes(rows, ScoreCandidates(rows)[p], ScoreCandidates(rows)[q])
<1> DEFINE C == Candidates(rows)
           n == Cardinality(C)
           R == {r \in C \X C : Precedes(rows, r[1], r[2])}
<1>1. /\ Len(rows) \in Nat /\ DOMAIN rows = 1 .. Len(rows)
      /\ \A k \in DOMAIN rows : rows[k] \in Confidences
  BY LenProperties, ElementOfSeq
<1>2. IsFiniteSet(C)
  <2>1. C \in SUBSET (1 .. Len(rows))
    BY <1>1 DEF Candidates
  <2>2. IsFiniteSet(1 .. Len(rows))
    BY <1>1, FS_Interval
  <2> HIDE DEF C
  <2> QED
    BY <2>1, <2>2, FS_Subset
<1>3. \A k \in C : k \in Int /\ Priority(rows[k]) \in Int
  <2> TAKE k \in C
  <2>1. k \in DOMAIN rows /\ Reason(rows[k]) # "none"
    BY DEF Candidates
  <2>2. k \in Int /\ rows[k] \in Confidences
    BY <1>1, <2>1
  <2>3. \A x \in Nat : 9000 - x \in Int /\ 8500 - x \in Int
    BY SMT
  <2>4. Priority(rows[k]) \in Int
    BY <2>1, <2>2, <2>3, PriorityBands
  <2> QED
    BY <2>2, <2>4
<1> HIDE DEF C, n
<1>4. \A k, l \in C : <<k, l>> \in R <=> Precedes(rows, k, l)
  OBVIOUS
<1>5. /\ \A x \in C : <<x, x>> \notin R
      /\ \A x, y, z \in C : <<x, y>> \in R /\ <<y, z>> \in R => <<x, z>> \in R
      /\ \A x, y \in C : x # y => <<x, y>> \in R \/ <<y, x>> \in R
  <2> HIDE DEF R
  <2>1. \A x \in C : <<x, x>> \notin R
    BY <1>3, <1>4 DEF Precedes
  <2>2. \A x, y, z \in C : <<x, y>> \in R /\ <<y, z>> \in R => <<x, z>> \in R
    BY <1>3, <1>4, SMT DEF Precedes
  <2>3. \A x, y \in C : x # y => <<x, y>> \in R \/ <<y, x>> \in R
    BY <1>3, <1>4, SMT DEF Precedes
  <2> QED
    BY <2>1, <2>2, <2>3
<1>6. \E s \in [1 .. n -> C] : \A p, q \in 1 .. n : p < q => <<s[p], s[q]>> \in R
  <2> HIDE DEF R
  <2> QED
    BY <1>2, <1>5, Enumerate DEF n
<1> HIDE DEF R
<1>7. \E s \in [1 .. n -> C] :
        \A p, q \in DOMAIN s : p < q => Precedes(rows, s[p], s[q])
  <2>1. PICK s \in [1 .. n -> C] : \A p, q \in 1 .. n : p < q => <<s[p], s[q]>> \in R
    BY <1>6
  <2> QED
    BY <1>4, <2>1
<1>8. ScoreCandidates(rows) =
        CHOOSE s \in [1 .. n -> C] :
            \A p, q \in DOMAIN s : p < q => Precedes(rows, s[p], s[q])
  BY DEF ScoreCandidates, Candidates, Precedes, C, n
<1>9. /\ ScoreCandidates(rows) \in [1 .. n -> C]
      /\ \A p, q \in DOMAIN ScoreCandidates(rows) : p < q =>
            Precedes(rows, ScoreCandidates(rows)[p], ScoreCandidates(rows)[q])
  BY <1>7, <1>8
<1> QED
  BY <1>9 DEF C, n

(* For any confidences that a batch ends with, of any number of images,    *)
(* the ranking of the mining has the images without detections and those   *)
(* whose detections disagree first, then those of low confidence, then the *)
(* borderline ones, both from the least sure on (mining.py:33-51).         *)
THEOREM RankingHasBands == Spec => []RankingBands
<1>1. LocalInv => RankingBands
  <2> SUFFICES ASSUME LocalInv,
                      NEW p \in DOMAIN ScoreCandidates(results),
                      NEW q \in DOMAIN ScoreCandidates(results), p < q
               PROVE  LET a == results[ScoreCandidates(results)[p]]
                          b == results[ScoreCandidates(results)[q]]
                      IN  \/ BandOf(a) < BandOf(b)
                          \/ BandOf(a) = BandOf(b) /\ (BandOf(a) > 1 => a.overall <= b.overall)
    BY DEF RankingBands, BandOf
  <2> DEFINE ranking == ScoreCandidates(results)
             a == results[ranking[p]]
             b == results[ranking[q]]
  <2>1. results \in Seq(Confidences)
    BY DEF LocalInv, BatchInv, BatchOK
  <2>2. /\ ranking \in [1 .. Cardinality(Candidates(results)) -> Candidates(results)]
        /\ Precedes(results, ranking[p], ranking[q])
    BY <2>1, CandidatesRanked
  <2>3. ranking[p] \in Candidates(results) /\ ranking[q] \in Candidates(results)
    BY <2>2
  <2>4. a \in Confidences /\ Reason(a) # "none" /\ b \in Confidences /\ Reason(b) # "none"
    BY <2>1, <2>3, LenProperties, ElementOfSeq DEF Candidates
  <2> HIDE DEF ranking
  <2>5. Priority(a) >= Priority(b)
    <3>1. Priority(a) > Priority(b) \/ Priority(a) = Priority(b)
      BY <2>2 DEF Precedes
    <3>2. \A x \in Nat : 9000 - x \in Int /\ 8500 - x \in Int
      BY SMT
    <3>3. Priority(a) \in Int /\ Priority(b) \in Int
      BY <2>4, <3>2, PriorityBands
    <3> QED
      BY <3>1, <3>3, SMT
  <2> HIDE DEF a, b
  <2>6. \/ BandOf(a) < BandOf(b)
        \/ BandOf(a) = BandOf(b) /\ (BandOf(a) > 1 => a.overall <= b.overall)
    BY <2>4, <2>5, BandOrder
  <2> QED
    BY <2>6 DEF a, b, ranking
<1> QED
  BY <1>1, Invariant, PTL

-----------------------------------------------------------------------------
(* The files of the batch: until the end none is written, and the images,  *)
(* their overlays and their annotations are in step; at the end both are   *)
(* written at once, of the whole batch.                                    *)

Summary ==
    [images |-> Len(exports), classes |-> ClassNames,
     auto_approved |-> Cardinality({k \in DOMAIN exports : exports[k].anns # <<>>})]

InStep ==
    /\ overlays = 1 .. current - 1
    /\ \A k \in DOMAIN exports : Len(exports[k].anns) = results[k].n

Written ==
    /\ stage # "done" => coco = NotWritten /\ summary = NotWritten
    /\ stage = "done" => /\ current = Images + 1
                         /\ coco = Coco(exports, ClassNames)
                         /\ summary \in {NotWritten, Summary}

FilesInv == InStep /\ Written

LEMMA FilesInit == Init => FilesInv
  BY SMT DEF Init, FilesInv, InStep, Written

LEMMA FinishKeepsStep ==
    ASSUME LocalInv, InStep, Finish
    PROVE  InStep'
<1> DEFINE e == ExportImage(current, dets)
           c == Confidence
           n == current - 1
<1>1. /\ results' = Append(results, c) /\ exports' = Append(exports, e)
      /\ overlays' = overlays \cup {current} /\ current' = current + 1
  BY DEF Finish
<1>2. /\ results \in Seq(Confidences) /\ exports \in Seq([file : Nat, anns : Seq(LabelledBox)])
      /\ Len(results) = n /\ Len(exports) = n /\ n \in Nat /\ current = n + 1
  <2>1. current \in 1 .. Images + 1 /\ Images \in Nat
    BY LocalAssumption DEF LocalInv, BatchInv, BatchOK
  <2>2. n \in Nat /\ current = n + 1
    BY <2>1, SMT
  <2> QED
    BY <2>2 DEF LocalInv, BatchInv, BatchOK
<1>3. Len(e.anns) = c.n
  <2>1. dets \in Seq(Detection)
    BY DEF LocalInv, ImageInv, ImageOK
  <2>2. Len(dets) \in Nat /\ DOMAIN dets = 1 .. Len(dets)
    BY <2>1, LenProperties
  <2> DEFINE anns == e.anns
             l == Len(dets)
  <2>3. DOMAIN anns = DOMAIN dets
    BY DEF ExportImage
  <2>4. anns \in Seq(LabelledBox)
    BY <1>2, <2>1, ExportTyped
  <2> HIDE DEF e
  <2>5. Len(anns) \in Nat /\ DOMAIN anns = 1 .. Len(anns)
    BY <2>4, LenProperties
  <2>6. Len(anns) = l
    <3> HIDE DEF anns, l
    <3> QED
      BY <2>2, <2>3, <2>5, SMT DEF l
  <2>7. c.n = l
    BY DEF Confidence, ScoreImage
  <2> QED
    BY <2>6, <2>7
<1> HIDE DEF e, c, n
<1>4. /\ DOMAIN exports = 1 .. n /\ DOMAIN exports' = 1 .. n + 1
      /\ exports'[n + 1] = e /\ results'[n + 1] = c
      /\ \A k \in 1 .. n : exports'[k] = exports[k] /\ results'[k] = results[k]
  BY <1>1, <1>2, SMT
<1>5. \A k \in DOMAIN exports' : Len(exports'[k].anns) = results'[k].n
  <2> TAKE k \in DOMAIN exports'
  <2>1. CASE k = n + 1
    BY <1>3, <1>4, <2>1
  <2>2. CASE k # n + 1
    <3>1. k \in 1 .. n
      BY <1>2, <1>4, <2>2, SMT
    <3> QED
      BY <1>4, <3>1 DEF InStep
  <2> QED
    BY <2>1, <2>2
<1>6. overlays' = 1 .. current' - 1
  <2>1. overlays = 1 .. n
    BY DEF InStep, n
  <2>2. overlays' = (1 .. n) \cup {n + 1} /\ current' - 1 = n + 1
    BY <1>1, <1>2, <2>1, SMT
  <2>3. (1 .. n) \cup {n + 1} = 1 .. n + 1
    BY <1>2, SMT
  <2> QED
    BY <2>2, <2>3
<1> QED
  BY <1>5, <1>6 DEF InStep

LEMMA FilesStep ==
    ASSUME LocalInv, FilesInv, [Next]_vars
    PROVE  FilesInv'
<1>1. CASE Detect \/ Segment \/ Validate \/ ScoreNext \/ ScorePreliminary \/ Caption
           \/ StageRaises \/ MockRaises
  <2>1. /\ UNCHANGED <<current, results, exports, overlays, coco, summary>>
        /\ stage # "done" /\ stage' # "done"
    BY <1>1 DEF Detect, Segment, Validate, ScoreNext, ScorePreliminary, Caption,
                StageRaises, MockRaises, Goto, outputs
  <2> QED
    BY <2>1 DEF FilesInv, InStep, Written
<1>2. CASE Finish
  <2>1. UNCHANGED <<coco, summary>> /\ stage # "done" /\ stage' # "done"
    BY <1>2 DEF Finish, Goto
  <2> QED
    BY <1>2, <2>1, FinishKeepsStep DEF FilesInv, Written
<1>3. CASE WriteFiles
  <2>1. /\ stage = "detect" /\ stage' = "done" /\ current > Images
        /\ coco' = Coco(exports, ClassNames)
        /\ summary' = summary \/ summary' = Summary
        /\ UNCHANGED <<current, results, exports, overlays>>
    BY <1>3 DEF WriteFiles, Goto, Summary
  <2>2. ClassNames' = ClassNames /\ Summary' = Summary
    BY <2>1 DEF ClassNames, Summary
  <2>3. current = Images + 1
    <3>1. current \in 1 .. Images + 1 /\ Images \in Nat
      BY LocalAssumption DEF LocalInv, BatchInv, BatchOK
    <3> QED
      BY <2>1, <3>1, SMT
  <2>4. summary' \in {NotWritten, Summary'}
    BY <2>1, <2>2 DEF FilesInv, Written
  <2>5. coco' = Coco(exports', ClassNames')
    BY <2>1, <2>2
  <2>6. InStep'
    BY <2>1 DEF FilesInv, InStep
  <2>7. Written'
    BY <2>1, <2>3, <2>4, <2>5 DEF Written
  <2> QED
    BY <2>6, <2>7 DEF FilesInv
<1>4. CASE UNCHANGED vars
  <2>1. UNCHANGED <<stage, current, results, exports, overlays, coco, summary>>
    BY <1>4 DEF vars, outputs
  <2>2. ClassNames' = ClassNames /\ Summary' = Summary
    BY <2>1 DEF ClassNames, Summary
  <2> QED
    BY <2>1, <2>2 DEF FilesInv, InStep, Written
<1> QED
  BY <1>1, <1>2, <1>3, <1>4 DEF Next

LEMMA ExportsList == LocalInv => Listing(exports) /\ Named(exports, ClassNames)
<1> SUFFICES ASSUME LocalInv PROVE Listing(exports) /\ Named(exports, ClassNames)
  OBVIOUS
<1>1. exports \in Seq([file : Nat, anns : Seq(LabelledBox)])
  BY DEF LocalInv, BatchInv, BatchOK
<1>2. Listing(exports)
  <2>1. Len(exports) \in Nat /\ DOMAIN exports = 1 .. Len(exports)
    BY <1>1, LenProperties
  <2>2. \A k \in DOMAIN exports : exports[k].anns \in Seq(LabelledBox)
    <3> TAKE k \in DOMAIN exports
    <3>1. exports[k] \in [file : Nat, anns : Seq(LabelledBox)]
      BY <1>1, <2>1, ElementOfSeq
    <3> QED
      BY <3>1
  <2> QED
    BY <2>1, <2>2 DEF Listing
<1> QED
  BY <1>2, LabelsName DEF ClassNames

(* For any images and detections: the COCO file is written of the whole    *)
(* batch or not at all, a reader of it finds for each image as many        *)
(* annotations as were scored for it, and the images that the summary      *)
(* calls approved are those that have one (annotate_local.py:73-107,       *)
(* annotate_local_real.py:161-179).                                        *)
THEOREM CocoHasTheBatch == Spec => []CocoIsComplete
<1>1. LocalInv /\ FilesInv => CocoIsComplete
  <2> SUFFICES ASSUME LocalInv, FilesInv, coco # NotWritten
               PROVE  /\ Len(coco.images) = Images
                      /\ overlays = 1 .. Images
                      /\ \A k \in 1 .. Images : Len(DecodedCoco(coco, k)) = results[k].n
                      /\ summary # NotWritten =>
                            summary.auto_approved =
                                Cardinality({k \in 1 .. Images : results[k].n > 0})
    BY DEF CocoIsComplete
  <2>1. /\ current = Images + 1 /\ coco = Coco(exports, ClassNames)
        /\ summary \in {NotWritten, Summary}
    BY DEF FilesInv, Written
  <2>2. Images \in Nat
    BY LocalAssumption
  <2>3. Listing(exports) /\ Named(exports, ClassNames)
    BY ExportsList
  <2>4. Len(exports) = Images /\ DOMAIN exports = 1 .. Images
    <3>1. Len(exports) = current - 1
      BY DEF LocalInv, BatchInv, BatchOK
    <3>2. Len(exports) = Images
      BY <2>1, <2>2, <3>1, SMT
    <3> QED
      BY <2>3, <3>2 DEF Listing
  <2>5. overlays = 1 .. Images
    <3>1. (Images + 1) - 1 = Images
      BY <2>2, SMT
    <3> QED
      BY <2>1, <3>1 DEF FilesInv, InStep
  <2>6. Len(coco.images) = Images
    <3>1. coco.images = [k \in 1 .. Images |-> [id |-> k, file |-> exports[k].file]]
      BY <2>1, <2>4 DEF Coco
    <3> QED
      BY <2>2, <3>1, SMT
  <2>7. \A k \in 1 .. Images : Len(exports[k].anns) = results[k].n
    BY <2>4 DEF FilesInv, InStep
  <2>8. \A k \in 1 .. Images : Len(DecodedCoco(coco, k)) = results[k].n
    <3> TAKE k \in 1 .. Images
    <3> DEFINE anns == exports[k].anns
    <3>1. DecodedCoco(coco, k) = Exactly(anns)
      BY <2>1, <2>3, <2>4, CocoReadsBack
    <3>2. Len(anns) \in Nat /\ DOMAIN anns = 1 .. Len(anns)
      BY <2>3, <2>4, ListedAnnotations
    <3> HIDE DEF anns
    <3>3. Len(Exactly(anns)) = Len(anns)
      BY <3>2, SMT DEF Exactly
    <3> QED
      BY <2>7, <3>1, <3>3 DEF anns
  <2>9. ASSUME summary # NotWritten
        PROVE  summary.auto_approved = Cardinality({k \in 1 .. Images : results[k].n > 0})
    <3>1. summary.auto_approved = Cardinality({k \in DOMAIN exports : exports[k].anns # <<>>})
      BY <2>1, <2>9 DEF Summary
    <3>2. \A k \in 1 .. Images : exports[k].anns # <<>> <=> results[k].n > 0
      <4> TAKE k \in 1 .. Images
      <4> DEFINE anns == exports[k].anns
      <4>1. anns \in Seq(LabelledBox)
        BY <2>3, <2>4 DEF Listing
      <4>2. Len(anns) = results[k].n
        BY <2>7
      <4> HIDE DEF anns
      <4>3. Len(anns) \in Nat /\ (anns = <<>> <=> Len(anns) = 0)
        BY <4>1, LenProperties, EmptySeq
      <4> QED
        BY <4>2, <4>3, SMT DEF anns
    <3>3. {k \in DOMAIN exports : exports[k].anns # <<>>} = {k \in 1 .. Images : results[k].n > 0}
      BY <2>4, <3>2
    <3> QED
      BY <3>1, <3>3
  <2> QED
    BY <2>5, <2>6, <2>8, <2>9
<1>2. Init => FilesInv
  BY FilesInit
<1>3. LocalInv /\ FilesInv /\ [Next]_vars => FilesInv'
  BY FilesStep
<1> QED
  BY <1>1, <1>2, <1>3, Invariant, PTL DEF Spec

-----------------------------------------------------------------------------
(* Scoring an image twice: the sum and the least of the first m scores of  *)
(* its detections are functions of the detections.                         *)

ScoresOf(ds) == [k \in DOMAIN ds |-> ScoreDetection(ds[k])]

Totals(ds) == CHOOSE b : PartialSums(b, Len(ds), ScoresOf(ds))

LeastOf(ds, m, w) ==
    IF m = 0 THEN w = 0
    ELSE /\ \E k \in 1 .. m : w = ScoresOf(ds)[k]
         /\ \A k \in 1 .. m : w <= ScoresOf(ds)[k]

Scored(ds, m, s, w) == s = Totals(ds)[m] /\ LeastOf(ds, m, w)

LEMMA TotalsSum ==
    ASSUME NEW ds \in Seq(Detection)
    PROVE  /\ Len(ds) \in Nat
           /\ \A k \in 1 .. Len(ds) :
                ScoresOf(ds)[k] = ScoreDetection(ds[k]) /\ ScoresOf(ds)[k] \in Nat
           /\ PartialSums(Totals(ds), Len(ds), ScoresOf(ds))
<1> DEFINE n == Len(ds)
           f == ScoresOf(ds)
<1>1. n \in Nat /\ DOMAIN ds = 1 .. n /\ \A k \in 1 .. n : ds[k] \in Detection
  BY LenProperties, ElementOfSeq
<1>2. \A k \in 1 .. n : f[k] = ScoreDetection(ds[k]) /\ f[k] \in Nat
  BY <1>1, ScoreRange DEF ScoresOf
<1>3. PartialSums(Totals(ds), n, f)
  <2> HIDE DEF f, n
  <2>1. \E b : PartialSums(b, n, f)
    BY <1>1, <1>2, PartialSumsExist
  <2> QED
    BY <2>1 DEF Totals, f, n
<1> QED
  BY <1>1, <1>2, <1>3

LEMMA ScoredNone ==
    ASSUME NEW ds \in Seq(Detection)
    PROVE  Scored(ds, 0, 0, 0)
  BY TotalsSum DEF Scored, LeastOf, PartialSums

LEMMA ScoredNext ==
    ASSUME NEW ds \in Seq(Detection), NEW m \in Nat, m < Len(ds),
           NEW s, NEW w \in Nat, Scored(ds, m, s, w)
    PROVE  LET t == ScoreDetection(ds[m + 1])
           IN  Scored(ds, m + 1, s + t, IF m = 0 THEN t ELSE Least(w, t))
<1> DEFINE t == ScoreDetection(ds[m + 1])
           v == IF m = 0 THEN t ELSE Least(w, t)
           f == ScoresOf(ds)
<1>1. m + 1 \in 1 .. Len(ds)
  BY TotalsSum, SMT
<1>2. \A k \in 1 .. Len(ds) : f[k] \in Nat
  BY TotalsSum
<1>3. f[m + 1] = t /\ t \in Nat
  BY <1>1, <1>2, TotalsSum
<1>4. s + t = Totals(ds)[m + 1]
  <2>1. Totals(ds)[m + 1] = Totals(ds)[(m + 1) - 1] + f[m + 1]
    BY <1>1, TotalsSum DEF PartialSums
  <2>2. (m + 1) - 1 = m
    BY SMT
  <2> QED
    BY <1>3, <2>1, <2>2 DEF Scored
<1> HIDE DEF t, f
<1>5. CASE m = 0
  <2>1. v = t /\ \A k \in 1 .. m + 1 : k = m + 1
    BY <1>5, SMT
  <2>2. m + 1 \in 1 .. m + 1 /\ m + 1 # 0 /\ t <= t
    BY <1>3, SMT
  <2>3. LeastOf(ds, m + 1, v)
    BY <1>3, <2>1, <2>2 DEF LeastOf, f
  <2> QED
    BY <1>4, <2>3 DEF Scored, t
<1>6. CASE m # 0
  <2>1. v = Least(w, t)
    BY <1>6
  <2> HIDE DEF v
  <2>2. (\E k \in 1 .. m : w = f[k]) /\ (\A k \in 1 .. m : w <= f[k])
    BY <1>6 DEF Scored, LeastOf, f
  <2>3. /\ v \in Nat /\ v <= w /\ v <= t /\ (v = w \/ v = t)
    BY <1>3, <2>1, SMT DEF Least
  <2>4. \A k \in 1 .. m + 1 : k = m + 1 \/ k \in 1 .. m
    BY SMT
  <2>5. 1 .. m \subseteq 1 .. m + 1 /\ m + 1 \in 1 .. m + 1 /\ m + 1 # 0
    BY SMT
  <2>6. \A k \in 1 .. m + 1 : v <= f[k]
    <3> TAKE k \in 1 .. m + 1
    <3>1. CASE k = m + 1
      BY <1>3, <2>3, <3>1
    <3>2. CASE k \in 1 .. m
      <4>1. k \in 1 .. Len(ds)
        BY <1>1, <3>2, TotalsSum, SMT
      <4>2. f[k] \in Nat /\ w <= f[k]
        BY <1>2, <2>2, <3>2, <4>1
      <4> QED
        BY <2>3, <4>2, SMT
    <3> QED
      BY <2>4, <3>1, <3>2
  <2>7. \E k \in 1 .. m + 1 : v = f[k]
    BY <1>3, <2>2, <2>3, <2>5
  <2>8. LeastOf(ds, m + 1, v)
    BY <2>5, <2>6, <2>7 DEF LeastOf, f
  <2> QED
    BY <1>4, <2>8 DEF Scored, t, v
<1> QED
  BY <1>5, <1>6

LEMMA ScoredOnce ==
    ASSUME NEW ds \in Seq(Detection), NEW s, NEW w, Scored(ds, Len(ds), s, w),
           NEW t, NEW v, Scored(ds, Len(ds), t, v)
    PROVE  s = t /\ w = v
<1> DEFINE f == ScoresOf(ds)
           n == Len(ds)
<1>1. s = t
  BY DEF Scored
<1>2. CASE n = 0
  BY <1>1, <1>2 DEF Scored, LeastOf
<1>3. CASE n # 0
  <2>1. \A k \in 1 .. n : f[k] \in Nat
    BY TotalsSum
  <2>2. /\ \E k \in 1 .. n : w = f[k]
        /\ \A k \in 1 .. n : w <= f[k]
        /\ \E k \in 1 .. n : v = f[k]
        /\ \A k \in 1 .. n : v <= f[k]
    BY <1>3 DEF Scored, LeastOf
  <2> HIDE DEF f, n
  <2>3. w \in Nat /\ v \in Nat /\ w <= v /\ v <= w
    BY <2>1, <2>2
  <2> QED
    BY <1>1, <2>3, SMT
<1> QED
  BY <1>2, <1>3

-----------------------------------------------------------------------------
(* What the gate knows: what was scored so far is of the detections as     *)
(* they are, and behind the first scoring prelim is what they score.       *)

GateInv ==
    stage \in {"gate", "rescore"} /\ runner # "standalone" =>
        \E s, w : Scored(dets, Len(dets), s, w) /\ prelim = ScoreImage(Len(dets), s, w)

CaptionInv ==
    stage = "rescore" /\ runner # "standalone" => (caption # "not_asked" <=> ShouldVLM)

ScoringInv == Scored(dets, scored, sum, weakest) /\ GateInv /\ CaptionInv

LEMMA ScoringInit == Init => ScoringInv
<1> SUFFICES ASSUME Init PROVE ScoringInv
  OBVIOUS
<1>1. dets = <<>> /\ scored = 0 /\ sum = 0 /\ weakest = 0 /\ stage = "detect"
  BY DEF Init
<1>2. dets \in Seq(Detection)
  BY <1>1, EmptySeq
<1>3. Scored(dets, scored, sum, weakest)
  BY <1>1, <1>2, ScoredNone
<1> QED
  BY <1>1, <1>3 DEF ScoringInv, GateInv, CaptionInv

(* A step after which nothing is scored, and the gate is not reached.      *)
LEMMA NothingScoredYet ==
    ASSUME LocalInv', scored' = 0, sum' = 0, weakest' = 0,
           stage' \notin {"gate", "rescore"} \/ runner' = "standalone"
    PROVE  ScoringInv'
<1>1. dets' \in Seq(Detection)
  BY DEF LocalInv, ImageInv, ImageOK
<1>2. Scored(dets', scored', sum', weakest')
  BY <1>1, ScoredNone
<1>3. Scored(dets, scored, sum, weakest)'
  BY <1>2 DEF Scored, LeastOf, Totals, ScoresOf
<1> QED
  BY <1>3 DEF ScoringInv, GateInv, CaptionInv

LEMMA StageScoring ==
    ASSUME LocalInv, ScoringInv, LocalInv', Detect \/ Segment \/ Validate
    PROVE  ScoringInv'
<1>1. /\ stage \in {"detect", "segment", "validate"}
      /\ UNCHANGED <<runner, scored, sum, weakest>>
      /\ stage' \notin {"gate", "rescore"} \/ runner = "standalone"
  BY DEF Detect, Segment, Validate, Goto, options, scores
<1>2. scored = 0
  BY <1>1 DEF LocalInv, ImageInv, IdleInv
<1>3. sum = 0
  BY <1>2, NothingScored DEF LocalInv, ImageInv
<1>4. weakest = 0
  BY <1>2 DEF ScoringInv, Scored, LeastOf
<1> QED
  BY <1>1, <1>2, <1>3, <1>4, NothingScoredYet

LEMMA GateStutter ==
    ASSUME GateInv, CaptionInv, UNCHANGED <<runner, vlm, stage, dets, prelim, caption>>
    PROVE  GateInv' /\ CaptionInv'
<1>1. GateInv'
  <2> SUFFICES ASSUME stage \in {"gate", "rescore"}, runner # "standalone"
               PROVE  (\E s, w : Scored(dets, Len(dets), s, w)
                                /\ prelim = ScoreImage(Len(dets), s, w))'
    BY DEF GateInv
  <2>1. PICK s, w : Scored(dets, Len(dets), s, w) /\ prelim = ScoreImage(Len(dets), s, w)
    BY DEF GateInv
  <2>2. Scored(dets, Len(dets), s, w)' /\ prelim' = ScoreImage(Len(dets'), s, w)
    BY <2>1 DEF Scored, LeastOf, Totals, ScoresOf
  <2> QED
    BY <2>2
<1>2. ShouldVLM' = ShouldVLM
  BY DEF ShouldVLM
<1>3. CaptionInv'
  BY <1>2 DEF CaptionInv
<1> QED
  BY <1>1, <1>3

LEMMA NextScoring ==
    ASSUME LocalInv, ScoringInv, ScoreNext
    PROVE  ScoringInv'
<1> DEFINE t == ScoreDetection(dets[scored + 1])
           v == IF scored = 0 THEN t ELSE Least(weakest, t)
<1>1. /\ scored < Len(dets) /\ scored' = scored + 1
      /\ sum' = sum + t /\ weakest' = v
      /\ UNCHANGED <<runner, vlm, stage, dets, prelim, caption>>
  BY DEF ScoreNext, options
<1>2. dets \in Seq(Detection) /\ scored \in Nat /\ weakest \in Nat
  <2>1. dets \in Seq(Detection) /\ weakest \in Nat /\ scored \in 0 .. Len(dets)
    BY DEF LocalInv, ImageInv, ImageOK
  <2> QED
    BY <2>1, SMT
<1>3. Scored(dets, scored + 1, sum + t, v)
  BY <1>1, <1>2, ScoredNext DEF ScoringInv
<1> HIDE DEF t, v
<1>4. Scored(dets, scored, sum, weakest)'
  BY <1>1, <1>3 DEF Scored, LeastOf, Totals, ScoresOf
<1>5. GateInv' /\ CaptionInv'
  BY <1>1, GateStutter DEF ScoringInv
<1> QED
  BY <1>4, <1>5 DEF ScoringInv

LEMMA GateScoring ==
    ASSUME LocalInv, ScoringInv, LocalInv', ScorePreliminary
    PROVE  ScoringInv'
<1>1. /\ stage' = "gate" /\ scored = Len(dets)
      /\ prelim' = ScoreImage(Len(dets), sum, weakest)
      /\ scored' = 0 /\ sum' = 0 /\ weakest' = 0
      /\ dets' = dets
  BY DEF ScorePreliminary, ResetScores, Confidence, Goto
<1>2. dets \in Seq(Detection)
  BY DEF LocalInv, ImageInv, ImageOK
<1>3. Scored(dets, Len(dets), sum, weakest)
  BY <1>1 DEF ScoringInv
<1>4. Scored(dets, scored, sum, weakest)'
  <2>1. Scored(dets, 0, 0, 0)
    BY <1>2, ScoredNone
  <2> QED
    BY <1>1, <2>1 DEF Scored, LeastOf, Totals, ScoresOf
<1>5. GateInv'
  <2>1. \E s, w : Scored(dets, Len(dets), s, w) /\ prelim' = ScoreImage(Len(dets), s, w)
    BY <1>1, <1>3
  <2> QED
    BY <1>1, <2>1 DEF GateInv, Scored, LeastOf, Totals, ScoresOf
<1>6. CaptionInv'
  BY <1>1 DEF CaptionInv
<1> QED
  BY <1>4, <1>5, <1>6 DEF ScoringInv

LEMMA CaptionScoring ==
    ASSUME ScoringInv, Caption
    PROVE  ScoringInv'
<1>1. /\ stage = "gate" /\ stage' = "rescore"
      /\ UNCHANGED <<runner, vlm, dets, scored, sum, weakest, prelim>>
  BY DEF Caption, Goto, options, scores
<1>2. caption' # "not_asked" <=> ShouldVLM
  BY DEF Caption
<1>3. ShouldVLM' = ShouldVLM
  BY <1>1 DEF ShouldVLM
<1>4. CaptionInv'
  BY <1>2, <1>3 DEF CaptionInv
<1>5. GateInv' /\ Scored(dets, scored, sum, weakest)'
  BY <1>1 DEF ScoringInv, GateInv, Scored, LeastOf, Totals, ScoresOf
<1> QED
  BY <1>4, <1>5 DEF ScoringInv

LEMMA EndScoring ==
    ASSUME ScoringInv, WriteFiles \/ StageRaises \/ MockRaises
    PROVE  ScoringInv'
<1>1. /\ stage' \in {"done", "failed"}
      /\ UNCHANGED <<dets, scored, sum, weakest>>
  BY DEF WriteFiles, StageRaises, MockRaises, Goto, scores
<1>2. Scored(dets, scored, sum, weakest)'
  BY <1>1 DEF ScoringInv, Scored, LeastOf, Totals, ScoresOf
<1> QED
  BY <1>1, <1>2 DEF ScoringInv, GateInv, CaptionInv

LEMMA ScoringStep ==
    ASSUME LocalInv, ScoringInv, LocalInv', [Next]_vars
    PROVE  ScoringInv'
<1>1. CASE Detect \/ Segment \/ Validate
  BY <1>1, StageScoring
<1>2. CASE ScoreNext
  BY <1>2, NextScoring
<1>3. CASE ScorePreliminary
  BY <1>3, GateScoring
<1>4. CASE Caption
  BY <1>4, CaptionScoring
<1>5. CASE Finish
  <2>1. stage' = "detect" /\ scored' = 0 /\ sum' = 0 /\ weakest' = 0
    BY <1>5 DEF Finish, ResetScores, Goto
  <2> QED
    BY <2>1, NothingScoredYet
<1>6. CASE WriteFiles \/ StageRaises \/ MockRaises
  BY <1>6, EndScoring
<1>7. CASE UNCHANGED vars
  <2>1. UNCHANGED <<runner, vlm, stage, dets, scored, sum, weakest, prelim, caption>>
    BY <1>7 DEF vars, options, scores
  <2>2. GateInv' /\ CaptionInv'
    BY <2>1, GateStutter DEF ScoringInv
  <2>3. Scored(dets, scored, sum, weakest)'
    BY <2>1 DEF ScoringInv, Scored, LeastOf, Totals, ScoresOf
  <2> QED
    BY <2>2, <2>3 DEF ScoringInv
<1> QED
  BY <1>1, <1>2, <1>3, <1>4, <1>5, <1>6, <1>7 DEF Next

(* For any detections and any answers: the confidence that is stored is    *)
(* the one that drove the gate, so the VLM was asked about every image     *)
(* whose stored confidence is ambiguous or that has no detection, and      *)
(* about no other (pipeline.py:82-100).                                    *)
THEOREM GateAgreesWithStored == Spec => []GateAgrees
<1>1. LocalInv /\ ScoringInv => GateAgrees
  <2> SUFFICES ASSUME LocalInv, ScoringInv,
                      stage = "rescore", scored = Len(dets), runner # "standalone"
               PROVE  /\ prelim = Confidence
                      /\ caption # "not_asked" <=>
                            vlm /\ (Confidence.overall \in 3500 .. 9000 \/ Confidence.n = 0)
    BY DEF GateAgrees
  <2>1. dets \in Seq(Detection)
    BY DEF LocalInv, ImageInv, ImageOK
  <2>2. PICK s, w : Scored(dets, Len(dets), s, w) /\ prelim = ScoreImage(Len(dets), s, w)
    BY DEF ScoringInv, GateInv
  <2>3. Scored(dets, Len(dets), sum, weakest)
    BY DEF ScoringInv
  <2>4. s = sum /\ w = weakest
    BY <2>1, <2>2, <2>3, ScoredOnce
  <2>5. prelim = Confidence
    BY <2>2, <2>4 DEF Confidence
  <2>6. Confidence.n = 0 <=> dets = <<>>
    <3>1. Confidence.n = Len(dets)
      BY DEF Confidence, ScoreImage
    <3>2. Len(dets) = 0 <=> dets = <<>>
      BY <2>1, EmptySeq
    <3> QED
      BY <3>1, <3>2
  <2>7. caption # "not_asked" <=> vlm /\ (prelim.overall \in 3500 .. 9000 \/ dets = <<>>)
    BY DEF ScoringInv, CaptionInv, ShouldVLM
  <2> QED
    BY <2>5, <2>6, <2>7
<1>2. Init => ScoringInv
  BY ScoringInit
<1>3. LocalInv /\ ScoringInv /\ LocalInv' /\ [Next]_vars => ScoringInv'
  BY ScoringStep
<1> QED
  BY <1>1, <1>2, <1>3, Invariant, PTL DEF Spec

=============================================================================
