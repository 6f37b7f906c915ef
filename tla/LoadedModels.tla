---------------------------- MODULE LoadedModels ----------------------------
(***************************************************************************)
(* What the model registry of a worker process promises: "each foundation  *)
(* model [is loaded] exactly once" and stays resident.                     *)
(***************************************************************************)
EXTENDS Naturals

CONSTANT Model

VARIABLE resident   \* for each model, which load of it is resident, 0: none

Init == resident = [m \in Model |-> 0]

(* The first load of a model makes it resident.                            *)
Load(m) ==
    /\ resident[m] = 0
    /\ resident' = [resident EXCEPT ![m] = 1]

Next == \E m \in Model : Load(m)

Spec == Init /\ [][Next]_resident

=============================================================================
