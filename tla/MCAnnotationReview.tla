------------------------- MODULE MCAnnotationReview -------------------------
(* The instances of AnnotationReview that TLC checks.                      *)
EXTENDS AnnotationReview, TLC

Symmetry ==
    Permutations(Job) \cup Permutations(Image) \cup Permutations(Request)

=============================================================================
