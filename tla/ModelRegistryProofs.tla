------------------------ MODULE ModelRegistryProofs ------------------------
(***************************************************************************)
(* Proofs about ModelRegistry for any set of threads and any number of     *)
(* loads that raise.                                                       *)
(***************************************************************************)
EXTENDS ModelRegistry, TLAPS

-----------------------------------------------------------------------------
(* The inductive invariant.  The lock excludes threads from the with       *)
(* block, so an object that is built and not in its slot is about to be    *)
(* stored, and a thread that loads is alone to have found the slot empty.  *)

(* What each place says about the slot of the model the thread asks for.   *)
PlaceInv ==
    \A t \in Thread :
        /\ pc[t] = "load" => slot[want[t]] = 0
        /\ pc[t] = "store" => slot[want[t]] = 0 /\ built[want[t]] = 1
        /\ pc[t] \in {"release", "return"} => slot[want[t]] = 1

(* What is built is in its slot or about to be.                            *)
SlotInv ==
    \A m \in Model :
        /\ slot[m] \in {0, 1}
        /\ built[m] \in {0, 1}
        /\ slot[m] = 1 => built[m] = 1
        /\ built[m] = 1 /\ slot[m] = 0 =>
             \E t \in Thread : pc[t] = "store" /\ want[t] = m

(* A run holds what is in the slot.                                        *)
GotInv == \A t \in Thread : got[t] # 0 => got[t] = slot[want[t]]

RegistryInv == TypeOK /\ PlaceInv /\ SlotInv /\ GotInv

(* The initial state satisfies it.                                         *)
LEMMA InitInv == Init => RegistryInv
<1> SUFFICES ASSUME Init PROVE RegistryInv
  OBVIOUS
<1> USE DEF Init
<1>1. TypeOK
  BY ThreadAssumption, RaisesAssumption DEF TypeOK, Model, Places, Locked
<1>2. PlaceInv /\ SlotInv /\ GotInv
  BY DEF PlaceInv, SlotInv, GotInv
<1> QED
  BY <1>1, <1>2 DEF RegistryInv

(* Two threads are never both inside the with block.                       *)
LEMMA OneInside ==
    ASSUME TypeOK, NEW t \in Thread, NEW u \in Thread,
           pc[t] \in Locked, pc[u] \in Locked
    PROVE  t = u
  BY DEF TypeOK

(* The first look at the slot.                                             *)
LEMMA CheckStep ==
    ASSUME RegistryInv, NEW t \in Thread, Check(t)
    PROVE  RegistryInv'
<1> USE DEF RegistryInv, Check, Goto, registryVars, runVars
<1>1. TypeOK'
  BY DEF TypeOK, Places, Locked, Model
<1>2. PlaceInv' /\ SlotInv' /\ GotInv'
  BY DEF PlaceInv, SlotInv, GotInv, TypeOK
<1> QED
  BY <1>1, <1>2

(* Taking the lock.                                                        *)
LEMMA AcquireStep ==
    ASSUME RegistryInv, NEW t \in Thread, Acquire(t)
    PROVE  RegistryInv'
<1> USE DEF RegistryInv, Acquire, Goto, runVars
<1>1. TypeOK'
  BY ThreadAssumption DEF TypeOK, Places, Locked, Model
<1>2. PlaceInv' /\ SlotInv' /\ GotInv'
  BY DEF PlaceInv, SlotInv, GotInv, TypeOK
<1> QED
  BY <1>1, <1>2

(* The second look at the slot.                                            *)
LEMMA RecheckStep ==
    ASSUME RegistryInv, NEW t \in Thread, Recheck(t)
    PROVE  RegistryInv'
<1> USE DEF RegistryInv, Recheck, Goto, registryVars, runVars
<1>1. TypeOK'
  BY DEF TypeOK, Places, Locked, Model
<1>2. PlaceInv' /\ SlotInv' /\ GotInv'
  BY DEF PlaceInv, SlotInv, GotInv, TypeOK
<1> QED
  BY <1>1, <1>2

(* Building an object: none was built, or another thread would be storing  *)
(* it under the same lock.                                                 *)
LEMMA LoadStep ==
    ASSUME RegistryInv, NEW t \in Thread, Load(t)
    PROVE  RegistryInv'
<1> DEFINE m == want[t]
<1> USE DEF RegistryInv
<1>1. m \in Model /\ pc[t] = "load" /\ slot[m] = 0
  BY DEF Load, TypeOK, PlaceInv
<1>2. built[m] = 0
  <2> SUFFICES ASSUME built[m] = 1 PROVE FALSE
    BY <1>1 DEF SlotInv
  <2>1. PICK u \in Thread : pc[u] = "store" /\ want[u] = m
    BY <1>1 DEF SlotInv
  <2>2. t = u
    BY <1>1, <2>1, OneInside DEF Locked
  <2> QED
    BY <1>1, <2>1, <2>2
<1>3. TypeOK'
  BY <1>1 DEF Load, Goto, runVars, TypeOK, Places, Locked
<1>4. PlaceInv'
  <2> SUFFICES ASSUME NEW u \in Thread
               PROVE  /\ pc'[u] = "load" => slot'[want'[u]] = 0
                      /\ pc'[u] = "store" => slot'[want'[u]] = 0 /\ built'[want'[u]] = 1
                      /\ pc'[u] \in {"release", "return"} => slot'[want'[u]] = 1
    BY DEF PlaceInv
  <2>1. CASE u = t
    BY <1>1, <1>2, <2>1 DEF Load, Goto, runVars, TypeOK
  <2>2. CASE u # t
    <3>1. pc'[u] = pc[u] /\ slot' = slot /\ want' = want
      BY <2>2 DEF Load, Goto, runVars, TypeOK
    <3>2. pc[u] # "store"
      BY <1>1, <2>2, OneInside DEF Locked
    <3> QED
      BY <3>1, <3>2 DEF PlaceInv
  <2> QED
    BY <2>1, <2>2
<1>5. SlotInv'
  BY <1>1, <1>2 DEF Load, Goto, runVars, TypeOK, SlotInv
<1>6. GotInv'
  BY DEF Load, runVars, GotInv
<1> QED
  BY <1>3, <1>4, <1>5, <1>6

(* A load that raises frees the lock and builds nothing.                   *)
LEMMA LoadRaisesStep ==
    ASSUME RegistryInv, NEW t \in Thread, LoadRaises(t)
    PROVE  RegistryInv'
<1> USE DEF RegistryInv, LoadRaises, Goto, runVars
<1>1. TypeOK'
  BY ThreadAssumption, RaisesAssumption DEF TypeOK, Places, Locked, Model
<1>2. PlaceInv' /\ SlotInv' /\ GotInv'
  BY DEF PlaceInv, SlotInv, GotInv, TypeOK
<1> QED
  BY <1>1, <1>2

(* Storing the object fills an empty slot: no run can hold another one.    *)
LEMMA StoreStep ==
    ASSUME RegistryInv, NEW t \in Thread, Store(t)
    PROVE  RegistryInv'
<1> DEFINE m == want[t]
<1> USE DEF RegistryInv
<1>1. m \in Model /\ pc[t] = "store" /\ slot[m] = 0 /\ built[m] = 1
  BY DEF Store, TypeOK, PlaceInv
<1>2. /\ slot' = [slot EXCEPT ![m] = 1]
      /\ pc' = [pc EXCEPT ![t] = "release"]
      /\ UNCHANGED <<built, lock, want, phase, got, enabled, found, raises>>
  BY <1>1 DEF Store, Goto, runVars
<1>3. TypeOK'
  BY <1>1, <1>2 DEF TypeOK, Places, Locked
<1>4. \A u \in Thread \ {t} : pc[u] \notin {"load", "store"}
  BY <1>1, OneInside DEF Locked
<1>5. PlaceInv'
  BY <1>1, <1>2, <1>4 DEF PlaceInv, TypeOK
<1>6. SlotInv'
  BY <1>1, <1>2, <1>4 DEF SlotInv, TypeOK
<1>7. GotInv'
  BY <1>1, <1>2 DEF GotInv, TypeOK
<1> QED
  BY <1>3, <1>5, <1>6, <1>7

(* Leaving the with block.                                                 *)
LEMMA ReleaseStep ==
    ASSUME RegistryInv, NEW t \in Thread, Release(t)
    PROVE  RegistryInv'
<1> USE DEF RegistryInv, Release, Goto, runVars
<1>1. TypeOK'
  BY ThreadAssumption DEF TypeOK, Places, Locked, Model
<1>2. PlaceInv' /\ SlotInv' /\ GotInv'
  BY DEF PlaceInv, SlotInv, GotInv, TypeOK
<1> QED
  BY <1>1, <1>2

(* The run gets what is in the slot.                                       *)
LEMMA ReturnStep ==
    ASSUME RegistryInv, NEW t \in Thread, Return(t)
    PROVE  RegistryInv'
<1> USE DEF RegistryInv
<1>1. want[t] \in Model /\ pc[t] = "return" /\ slot[want[t]] = 1
  BY DEF Return, TypeOK, PlaceInv
<1>2. /\ got' = [got EXCEPT ![t] = 1]
      /\ pc' = [pc EXCEPT ![t] = phase[t]]
      /\ UNCHANGED <<slot, built, lock, want, phase, enabled, found, raises>>
  BY <1>1 DEF Return, Goto, registryVars
<1>3. TypeOK'
  BY <1>1, <1>2 DEF TypeOK, Places, Locked
<1>4. phase[t] \in {"infer", "version"}
  BY DEF TypeOK
<1>5. PlaceInv'
  BY <1>2, <1>4 DEF PlaceInv, TypeOK
<1>6. SlotInv'
  BY <1>1, <1>2, <1>4 DEF SlotInv, TypeOK
<1>7. GotInv'
  BY <1>1, <1>2 DEF GotInv, TypeOK
<1> QED
  BY <1>3, <1>5, <1>6, <1>7

(* A run that starts asks for the detector.                                *)
LEMMA StartRunStep ==
    ASSUME RegistryInv, NEW t \in Thread, StartRun(t)
    PROVE  RegistryInv'
<1> USE DEF RegistryInv
<1>1. PICK options \in SUBSET {"segmenter", "vlm"} :
        /\ pc[t] = "idle" /\ pc' = [pc EXCEPT ![t] = "check"]
        /\ want' = [want EXCEPT ![t] = "detector"]
        /\ phase' = [phase EXCEPT ![t] = "infer"]
        /\ got' = [got EXCEPT ![t] = 0]
        /\ enabled' = [enabled EXCEPT ![t] = options]
        /\ found' = [found EXCEPT ![t] = FALSE]
        /\ UNCHANGED <<slot, built, lock, raises>>
  BY DEF StartRun, Goto, registryVars
<1>2. TypeOK'
  BY <1>1 DEF TypeOK, Places, Locked, Model
<1>3. PlaceInv' /\ SlotInv' /\ GotInv'
  BY <1>1 DEF PlaceInv, SlotInv, GotInv, TypeOK
<1> QED
  BY <1>2, <1>3

(* An inference leaves the registry alone.                                 *)
LEMMA InferStep ==
    ASSUME RegistryInv, NEW t \in Thread, Infer(t)
    PROVE  RegistryInv'
<1> USE DEF RegistryInv
<1>1. /\ pc[t] = "infer" /\ pc' = [pc EXCEPT ![t] = "check"]
      /\ phase' = [phase EXCEPT ![t] = "version"]
      /\ UNCHANGED <<slot, built, lock, want, got, enabled, raises>>
  BY DEF Infer, Goto, registryVars
<1>2. found' \in [Thread -> BOOLEAN]
  BY DEF Infer, TypeOK
<1>3. TypeOK'
  BY <1>1, <1>2 DEF TypeOK, Places, Locked
<1>4. PlaceInv' /\ SlotInv' /\ GotInv'
  BY <1>1 DEF PlaceInv, SlotInv, GotInv, TypeOK
<1> QED
  BY <1>3, <1>4

(* A stage that raises ends the run outside the with block.                *)
LEMMA StageRaisesStep ==
    ASSUME RegistryInv, NEW t \in Thread, StageRaises(t)
    PROVE  RegistryInv'
<1> USE DEF RegistryInv, StageRaises, Goto, registryVars, runVars
<1>1. TypeOK'
  BY DEF TypeOK, Places, Locked, Model
<1>2. PlaceInv' /\ SlotInv' /\ GotInv'
  BY DEF PlaceInv, SlotInv, GotInv, TypeOK
<1> QED
  BY <1>1, <1>2

(* The stages to come are stages.                                          *)
LEMMA NextStagesAreModels ==
    ASSUME NEW t \in Thread, NEW ambiguous \in BOOLEAN,
           NEW n \in NextStages(t, ambiguous)
    PROVE  Stages[n] \in Model
  BY DEF NextStages, Runs, Model

(* The next stage asks for its model; the last one ends the run.           *)
LEMMA RecordVersionStep ==
    ASSUME RegistryInv, NEW t \in Thread, RecordVersion(t)
    PROVE  RegistryInv'
<1> USE DEF RegistryInv
<1>1. pc[t] = "version" /\ UNCHANGED <<slot, built, lock, enabled, found, raises>>
  BY DEF RecordVersion, registryVars
<1>2. CASE pc' = [pc EXCEPT ![t] = "idle"] /\ UNCHANGED <<want, phase, got>>
  <2>1. TypeOK'
    BY <1>1, <1>2 DEF TypeOK, Places, Locked
  <2>2. PlaceInv' /\ SlotInv' /\ GotInv'
    BY <1>1, <1>2 DEF PlaceInv, SlotInv, GotInv, TypeOK
  <2> QED
    BY <2>1, <2>2
<1>3. ASSUME NEW m \in Model,
             pc' = [pc EXCEPT ![t] = "check"],
             want' = [want EXCEPT ![t] = m],
             phase' = [phase EXCEPT ![t] = "infer"],
             got' = [got EXCEPT ![t] = 0]
      PROVE  RegistryInv'
  <2>1. TypeOK'
    BY <1>1, <1>3 DEF TypeOK, Places, Locked
  <2>2. PlaceInv' /\ SlotInv' /\ GotInv'
    BY <1>1, <1>3 DEF PlaceInv, SlotInv, GotInv, TypeOK
  <2> QED
    BY <2>1, <2>2
<1> QED
  BY <1>2, <1>3, NextStagesAreModels DEF RecordVersion, Goto

(* Every step preserves the invariant.                                     *)
LEMMA NextInv ==
    ASSUME RegistryInv, [Next]_vars
    PROVE  RegistryInv'
<1>1. CASE UNCHANGED vars
  BY <1>1 DEF vars, registryVars, runVars, RegistryInv, TypeOK, PlaceInv, SlotInv, GotInv
<1>2. ASSUME NEW t \in Thread,
             RunStep(t) \/ StartRun(t) \/ LoadRaises(t) \/ StageRaises(t)
      PROVE  RegistryInv'
  BY <1>2, CheckStep, AcquireStep, RecheckStep, LoadStep, StoreStep, ReleaseStep,
     ReturnStep, InferStep, RecordVersionStep, StartRunStep, LoadRaisesStep,
     StageRaisesStep DEF RunStep
<1> QED
  BY <1>1, <1>2 DEF Next

(* The invariant holds in every reachable state.                           *)
LEMMA RegistryInvariant == Spec => []RegistryInv
  BY InitInv, NextInv, PTL DEF Spec

-----------------------------------------------------------------------------
(* The lock is held exactly in the with block, and no run that has its     *)
(* model works with None (ml/registry.py:34-43).                           *)
THEOREM TypeCorrect == Spec => []TypeOK
<1>1. RegistryInv => TypeOK
  BY DEF RegistryInv
<1> QED
  BY <1>1, RegistryInvariant, PTL

(* Double-checked locking builds each model at most once and gives every   *)
(* run the resident object, for any number of threads and of loads that    *)
(* raise (ml/registry.py:25).                                              *)
THEOREM CopyIsSingle == Spec => []SingleCopy
<1>1. RegistryInv => SingleCopy
  BY DEF RegistryInv, SlotInv, GotInv, SingleCopy
<1> QED
  BY <1>1, RegistryInvariant, PTL

(* Initially no model is resident.                                         *)
LEMMA ModelsInit == Init => Models!Init
  BY DEF Init, Models!Init

(* A step that writes a slot is the first load of its model.               *)
LEMMA ModelsStep ==
    ASSUME RegistryInv, [Next]_vars
    PROVE  [Models!Next]_slot
<1>1. ASSUME NEW t \in Thread, Store(t)
      PROVE  Models!Next
  <2>1. want[t] \in Model /\ slot[want[t]] = 0 /\ built[want[t]] = 1
    BY <1>1 DEF Store, RegistryInv, TypeOK, PlaceInv
  <2>2. Models!Load(want[t])
    BY <1>1, <2>1 DEF Store, Models!Load
  <2> QED
    BY <2>1, <2>2 DEF Models!Next
<1>2. ASSUME NEW t \in Thread,
             RunStep(t) \/ StartRun(t) \/ LoadRaises(t) \/ StageRaises(t),
             ~Store(t)
      PROVE  UNCHANGED slot
  BY <1>2 DEF RunStep, Check, Acquire, Recheck, Load, Release, Return, Infer,
     RecordVersion, StartRun, LoadRaises, StageRaises, registryVars
<1> QED
  BY <1>1, <1>2 DEF Next, vars, registryVars

(* "Each foundation model exactly once": a slot is filled once, with the   *)
(* first object built, and keeps it (ml/registry.py:3-5).                  *)
THEOREM EachModelLoadsOnce == Spec => LoadsOnce
  BY ModelsInit, ModelsStep, RegistryInvariant, PTL DEF Spec, LoadsOnce, Models!Spec

=============================================================================
