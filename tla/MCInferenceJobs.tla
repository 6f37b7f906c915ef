-------------------------- MODULE MCInferenceJobs --------------------------
(* The instances of InferenceJobs that TLC checks: model values for jobs,  *)
(* images and workers, which the specification never tells apart.          *)
EXTENDS InferenceJobs, TLC

Symmetry ==
    Permutations(Job) \cup Permutations(Image) \cup Permutations(Worker)

=============================================================================
