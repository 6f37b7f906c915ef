----------------------------- MODULE Exporters ------------------------------
(***************************************************************************)
(* The five exporters of ml/exporters: each turns the images of a dataset, *)
(* with their annotations, into the contents of one file.  A label is a    *)
(* number, ordered as the code sorts its strings; a box is <<x, y, w, h>>  *)
(* in thousandths of a pixel; an image has a file name [stem, ext], a size *)
(* <<w, h>> in pixels, 0 where it is unknown, and a sequence of            *)
(* annotations, LabelledBox.  A number that a format writes with so many   *)
(* decimals is an integer count of its last decimal, rounded or truncated  *)
(* as the format does; the error of floating point below that is left out, *)
(* as are scores, polygons and the constant fields of the formats.         *)
(***************************************************************************)
EXTENDS Integers, Sequences, SequencesExt

(* Labels with boxes: <<x, y, w, h>> in thousandths of a pixel.            *)
LabelledBox == [label : Nat, box : Int \X Int \X Int \X Int]

Formats == {"coco", "yolo", "pascal_voc", "cvat_xml", "label_studio"}

(* n / d rounded to a whole number; a half goes up, where the code goes by *)
(* the last bits of its double, and is as far off either way.              *)
RoundHalf(n, d) == (2 * n + d) \div (2 * d)

(* int(): a coordinate in whole pixels, truncated towards zero.            *)
Truncate(n) == IF n >= 0 THEN n \div 1000 ELSE -((-n) \div 1000)

(* Every class has its rank among the sorted names: 0, 1, ...              *)
ClassIndex(names, label) == Cardinality({n \in names : n < label})

(* The members of a finite set of numbers, in ascending order.             *)
InOrder(S) ==
    CHOOSE s \in [1 .. Cardinality(S) -> S] :
        \A p, q \in DOMAIN s : p < q => s[p] < s[q]

(* Mutant: the counter of the annotations starts again with each image.    *)
AnnotationsBefore_Restarts(images, k) == 0

(* ann_id counts through all images.                                       *)
AnnotationsBefore(images, k) ==
    LET before[m \in 0 .. Len(images)] ==
            IF m = 0 THEN 0 ELSE before[m - 1] + Len(images[m].anns)
    IN  before[k - 1]

CocoAnnotation(images, names, k, p) ==
    [id |-> AnnotationsBefore(images, k) + p,
     image_id |-> k,
     category_id |-> ClassIndex(names, images[k].anns[p].label) + 1,
     bbox |-> images[k].anns[p].box]

Coco(images, names) ==
    [categories |-> {[id |-> ClassIndex(names, n) + 1, name |-> n] : n \in names},
     images |-> [k \in DOMAIN images |-> [id |-> k, file |-> images[k].file]],
     annotations |-> FlattenSeq([k \in DOMAIN images |->
        [p \in DOMAIN images[k].anns |-> CocoAnnotation(images, names, k, p)]])]

(* A box as fractions of the image, its centre and its extent, each with   *)
(* six decimals: in millionths.                                            *)
YoloLine(names, size, a) ==
    [class |-> ClassIndex(names, a.label),
     cx |-> RoundHalf(500 * (2 * a.box[1] + a.box[3]), size[1]),
     cy |-> RoundHalf(500 * (2 * a.box[2] + a.box[4]), size[2]),
     w |-> RoundHalf(1000 * a.box[3], size[1]),
     h |-> RoundHalf(1000 * a.box[4], size[2])]

Yolo(images, names) ==
    [classes |-> InOrder(names),
     entries |-> [k \in DOMAIN images |->
        [name |-> images[k].file.stem,
         lines |-> [p \in DOMAIN images[k].anns |->
                        YoloLine(names, images[k].size, images[k].anns[p])]]]]

Corners(box) == <<box[1], box[2], box[1] + box[3], box[2] + box[4]>>

(* Mutant: the far corner is the truncated near one and extent together.   *)
WholePixels_PartByPart(box) ==
    <<Truncate(box[1]), Truncate(box[2]),
      Truncate(box[1]) + Truncate(box[3]), Truncate(box[2]) + Truncate(box[4])>>

WholePixels(box) == [c \in 1 .. 4 |-> Truncate(Corners(box)[c])]

PascalVOC(images) ==
    [entries |-> [k \in DOMAIN images |->
        [name |-> images[k].file.stem,
         filename |-> images[k].file,
         objects |-> [p \in DOMAIN images[k].anns |->
            [name |-> images[k].anns[p].label,
             bndbox |-> WholePixels(images[k].anns[p].box)]]]]]

(* Two decimals: in hundredths of a pixel.                                 *)
Hundredths(box) == [c \in 1 .. 4 |-> RoundHalf(Corners(box)[c], 10)]

CVAT(images, names) ==
    [labels |-> InOrder(names),
     images |-> [k \in DOMAIN images |->
        [id |-> k - 1,
         name |-> images[k].file,
         boxes |-> [p \in DOMAIN images[k].anns |->
            [label |-> images[k].anns[p].label,
             corners |-> Hundredths(images[k].anns[p].box)]]]]]

(* The extent of the image along which coordinate c of a box lies.         *)
Extent(size, c) == size[IF c \in {1, 3} THEN 1 ELSE 2]

(* Percentages, unrounded: pairs <<numerator, denominator>>, the numerator *)
(* in thousandths.                                                         *)
LabelStudio(images) ==
    [tasks |-> [k \in DOMAIN images |->
        [image |-> images[k].file,
         result |-> [p \in DOMAIN images[k].anns |->
            LET a == images[k].anns[p]
            IN  [label |-> a.label,
                 value |-> [c \in 1 .. 4 |->
                    <<100 * a.box[c], Extent(images[k].size, c)>>]]]]]]

(* The formats that divide by the size of the image raise                  *)
(* ZeroDivisionError where it is unknown and there is a box to scale.      *)
Raises(format, images) ==
    /\ format \in {"yolo", "label_studio"}
    /\ \E k \in DOMAIN images : images[k].anns # <<>> /\ 0 \in ToSet(images[k].size)

Export(format, images, names) ==
    CASE format = "coco" -> Coco(images, names)
      [] format = "yolo" -> Yolo(images, names)
      [] format = "pascal_voc" -> PascalVOC(images)
      [] format = "cvat_xml" -> CVAT(images, names)
      [] format = "label_studio" -> LabelStudio(images)

-----------------------------------------------------------------------------
(* What a reader of the file understands of an image: for each annotation  *)
(* its label and where the left, upper, right and lower sides of its box   *)
(* are, in grains, so small that no format needs a fraction of one.  The   *)
(* reader knows the image by its file name and size, and the records of    *)
(* the formats that are one document by their place.                       *)

GrainsPerPixel == 2000000

Grains(thousandths) == 2000 * thousandths

Sides(box) == [c \in 1 .. 4 |-> Grains(Corners(box)[c])]

OnlyMember(S) == CHOOSE x \in S : S = {x}

DecodedCoco(file, k) ==
    LET mine == InOrder({q \in DOMAIN file.annotations :
                            file.annotations[q].image_id = file.images[k].id})
        Category(id) == OnlyMember({c \in file.categories : c.id = id})
    IN  [p \in DOMAIN mine |->
            LET a == file.annotations[mine[p]]
            IN  [label |-> Category(a.category_id).name, sides |-> Sides(a.bbox)]]

(* The formats that are a zip archive, with an entry for each image.       *)
Archives == {"yolo", "pascal_voc"}

(* An archive is read by name; of several entries with one name a reader   *)
(* gets the last.                                                          *)
EntryNamed(file, name) ==
    file.entries[Max({m \in DOMAIN file.entries : file.entries[m].name = name})]

(* Entries carry the stem of the file name only: that of image k is hidden *)
(* by the entry of a later image with the same stem.                       *)
Hidden(format, names, k) ==
    /\ format \in Archives
    /\ \E m \in DOMAIN names : m > k /\ names[m].stem = names[k].stem

YoloSides(l, size) ==
    <<(2 * l.cx - l.w) * size[1], (2 * l.cy - l.h) * size[2],
      (2 * l.cx + l.w) * size[1], (2 * l.cy + l.h) * size[2]>>

DecodedYolo(file, image) ==
    LET lines == EntryNamed(file, image.file.stem).lines
    IN  [p \in DOMAIN lines |->
            [label |-> file.classes[lines[p].class + 1],
             sides |-> YoloSides(lines[p], image.size)]]

DecodedVOC(file, image) ==
    LET objects == EntryNamed(file, image.file.stem).objects
    IN  [p \in DOMAIN objects |->
            [label |-> objects[p].name,
             sides |-> [c \in 1 .. 4 |-> GrainsPerPixel * objects[p].bndbox[c]]]]

DecodedCVAT(file, k) ==
    LET boxes == file.images[k].boxes
    IN  [p \in DOMAIN boxes |->
            [label |-> boxes[p].label,
             sides |-> [c \in 1 .. 4 |-> (GrainsPerPixel \div 100) * boxes[p].corners[c]]]]

PercentBox(value, size) ==
    [c \in 1 .. 4 |-> (value[c][1] * Extent(size, c)) \div (100 * value[c][2])]

DecodedLabelStudio(file, image, k) ==
    LET result == file.tasks[k].result
    IN  [p \in DOMAIN result |->
            [label |-> result[p].label,
             sides |-> Sides(PercentBox(result[p].value, image.size))]]

Decoded(format, file, image, k) ==
    CASE format = "coco" -> DecodedCoco(file, k)
      [] format = "yolo" -> DecodedYolo(file, image)
      [] format = "pascal_voc" -> DecodedVOC(file, image)
      [] format = "cvat_xml" -> DecodedCVAT(file, k)
      [] format = "label_studio" -> DecodedLabelStudio(file, image, k)

(* How far off a format may put side c of a box: by less than a pixel, by  *)
(* a millionth of the image's extent, by half a hundredth of a pixel, or   *)
(* not at all.                                                             *)
Precision(format, size, c) ==
    CASE format = "pascal_voc" -> GrainsPerPixel - 1
      [] format = "yolo" -> 2 * Extent(size, c)
      [] format = "cvat_xml" -> GrainsPerPixel \div 200
      [] format \in {"coco", "label_studio"} -> 0

Near(m, n, distance) == m - n <= distance /\ n - m <= distance

(* What was decoded are these annotations, in their order, each with its   *)
(* label and with its box within the precision of the format.              *)
ReadsAs(format, size, decoded, anns) ==
    /\ DOMAIN decoded = DOMAIN anns
    /\ \A p \in DOMAIN anns :
        /\ decoded[p].label = anns[p].label
        /\ \A c \in 1 .. 4 :
            Near(decoded[p].sides[c], Sides(anns[p].box)[c], Precision(format, size, c))

=============================================================================
