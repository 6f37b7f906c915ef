------------------------- MODULE MCLocalAnnotation -------------------------
(* The instance of LocalAnnotation that TLC checks: two images, in each of *)
(* which a detector may find nothing, one box of one pixel, a sure and an  *)
(* unsure box, or five; masks that fill a box or are empty.                *)
EXTENDS LocalAnnotation

Whole == [x1 |-> 0, y1 |-> 0, x2 |-> 400, y2 |-> 400]

Pixel == [x1 |-> 100, y1 |-> 100, x2 |-> 110, y2 |-> 110]

MCScene ==
    {<<>>,
     <<[label |-> 1, box |-> Pixel, score |-> 9700]>>,
     <<[label |-> 1, box |-> Whole, score |-> 9500],
       [label |-> 2, box |-> Whole, score |-> 4500]>>,
     [k \in 1 .. 5 |-> [label |-> 1, box |-> Whole, score |-> 9900]]}

MCSeed == <<900, 100>>

MCSegmentation ==
    {[mask |-> [x1 |-> 0, y1 |-> 0, x2 |-> 39, y2 |-> 39], quality |-> 9900],
     [mask |-> NoMask, quality |-> 9900]}

=============================================================================
