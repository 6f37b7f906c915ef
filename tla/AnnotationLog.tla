--------------------------- MODULE AnnotationLog ---------------------------
(***************************************************************************)
(* What the annotations of a dataset promise: each image has a log of the  *)
(* annotations written for it, which only grows, one entry at a time, as   *)
(* long as the dataset exists; the last entry is the active annotation.    *)
(* "A new version is written on each re-annotation or human correction so  *)
(* the full lineage is preserved (never destructive)."                     *)
(***************************************************************************)
EXTENDS Sequences

CONSTANTS
    Image,      \* images of the dataset
    Author      \* who writes annotations: the jobs

VARIABLES
    open,       \* whether the dataset exists
    log         \* for each image, the authors of its versions, oldest first

vars == <<open, log>>

Init ==
    /\ open = TRUE
    /\ log = [i \in Image |-> <<>>]

Write(i, a) ==
    /\ open
    /\ log' = [log EXCEPT ![i] = Append(@, a)]
    /\ UNCHANGED open

Delete ==
    /\ open
    /\ open' = FALSE
    /\ log' = [i \in Image |-> <<>>]

Next ==
    \/ \E i \in Image, a \in Author : Write(i, a)
    \/ Delete

Spec == Init /\ [][Next]_vars

=============================================================================
