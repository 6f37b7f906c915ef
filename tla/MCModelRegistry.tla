--------------------------- MODULE MCModelRegistry ---------------------------
(* Instances of ModelRegistry for TLC.                                      *)
EXTENDS ModelRegistry
=============================================================================
