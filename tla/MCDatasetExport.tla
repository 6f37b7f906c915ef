-------------------------- MODULE MCDatasetExport --------------------------
(* The instances of DatasetExport that TLC checks: two images, registered  *)
(* by two requests, with file names of different stems, the second of them *)
(* registered without its size.  Most coordinates are fractions of pixels  *)
(* that no format but COCO and Label Studio can write exactly.             *)
EXTENDS DatasetExport, TLC

CONSTANTS i1, i2, q1, q2

MCBatch == q1 :> {i1} @@ q2 :> {i2}

MCOneBatch == q1 :> {i1, i2}

MCFileOf == i1 :> [stem |-> "a", ext |-> "jpg"] @@ i2 :> [stem |-> "b", ext |-> "jpg"]

MCSizeOf == i1 :> <<7, 6>> @@ i2 :> <<0, 0>>

Box(label, box) == [label |-> label, box |-> box]

(* The first image is annotated twice, the second once.                    *)
MCDetections ==
    i1 :> <<<<Box(2, <<1600, 2254, 4700, 3333>>), Box(1, <<0, 4, 3125, 5995>>)>>,
           <<Box(3, <<2005, 1500, 1001, 4499>>)>>>>
 @@ i2 :> <<<<Box(1, <<0, 1000, 2500, 2756>>)>>>>

(* The second image stays without an annotation.                           *)
MCFewDetections == [MCDetections EXCEPT ![i2] = <<>>]

=============================================================================
