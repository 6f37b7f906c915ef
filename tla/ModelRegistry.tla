--------------------------- MODULE ModelRegistry ---------------------------
(***************************************************************************)
(* The process-local model registry (ml/registry.py) and the runs of the   *)
(* annotation pipeline (ml/pipeline.py) that use it from several threads.  *)
(*                                                                         *)
(* The registry has one slot per model and one lock for all of them.  A    *)
(* property such as registry.detector reads its slot, and takes the lock   *)
(* to look again and load only when the slot is empty.  A load or an       *)
(* inference may raise; the run then ends and the lock is free again.      *)
(***************************************************************************)
EXTENDS Naturals

CONSTANTS
    Thread,     \* threads of the process that run the pipeline
    NoThread,   \* the owner of a free lock
    MaxRaises   \* bound: loads that raise in a behaviour

ASSUME ThreadAssumption == NoThread \notin Thread
ASSUME RaisesAssumption == MaxRaises \in Nat

VARIABLES
    \* the registry
    slot,       \* the object in each model's slot: the n-th one built; 0: None
    built,      \* objects built of each model
    lock,       \* the thread that holds the lock, or NoThread
    \* the runs
    pc,         \* where the thread is
    want,       \* the model it asks the registry for ...
    phase,      \* ... to infer with it or to record its version
    got,        \* the object the registry gave it for this model, 0: none yet
    enabled,    \* the optional models of the run's PipelineConfig
    found,      \* whether the detector found anything
    raises      \* loads that raised (bounded by MaxRaises)

registryVars == <<slot, built, lock>>
runVars      == <<want, phase, got, enabled, found>>
vars         == <<registryVars, pc, runVars, raises>>

Model == {"detector", "segmenter", "clip", "vlm"}

Init ==
    /\ slot = [m \in Model |-> 0]
    /\ built = [m \in Model |-> 0]
    /\ lock = NoThread
    /\ pc = [t \in Thread |-> "idle"]
    /\ want = [t \in Thread |-> "detector"]
    /\ phase = [t \in Thread |-> "infer"]
    /\ got = [t \in Thread |-> 0]
    /\ enabled = [t \in Thread |-> {}]
    /\ found = [t \in Thread |-> FALSE]
    /\ raises = 0

Goto(t, place) == pc' = [pc EXCEPT ![t] = place]

-----------------------------------------------------------------------------
(* The property of one model.                                              *)

(* if self._x is None, without the lock                                    *)
Check(t) ==
    /\ pc[t] = "check"
    /\ Goto(t, IF slot[want[t]] = 0 THEN "acquire" ELSE "return")
    /\ UNCHANGED <<registryVars, runVars, raises>>

(* Mutant: the lock is not waited for.                                     *)
Acquire_NonBlocking(t) ==
    /\ pc[t] = "acquire"
    /\ lock' = IF lock = NoThread THEN t ELSE lock
    /\ Goto(t, IF lock = NoThread THEN "recheck" ELSE "return")
    /\ UNCHANGED <<slot, built, runVars, raises>>

Acquire(t) ==
    /\ pc[t] = "acquire"
    /\ lock = NoThread
    /\ lock' = t
    /\ Goto(t, "recheck")
    /\ UNCHANGED <<slot, built, runVars, raises>>

(* Mutant: the slot is not looked at again under the lock.                 *)
Recheck_Skipped(t) ==
    /\ pc[t] = "recheck"
    /\ Goto(t, "load")
    /\ UNCHANGED <<registryVars, runVars, raises>>

(* if self._x is None, under the lock                                      *)
Recheck(t) ==
    /\ pc[t] = "recheck"
    /\ Goto(t, IF slot[want[t]] = 0 THEN "load" ELSE "release")
    /\ UNCHANGED <<registryVars, runVars, raises>>

Load(t) ==
    /\ pc[t] = "load"
    /\ built' = [built EXCEPT ![want[t]] = @ + 1]
    /\ Goto(t, "store")
    /\ UNCHANGED <<slot, lock, runVars, raises>>

(* Mutant: the lock is not released by the exception.                      *)
LoadRaises_KeepsLock(t) ==
    /\ pc[t] = "load"
    /\ raises < MaxRaises
    /\ raises' = raises + 1
    /\ Goto(t, "idle")
    /\ UNCHANGED <<registryVars, runVars>>

LoadRaises(t) ==
    /\ pc[t] = "load"
    /\ raises < MaxRaises
    /\ raises' = raises + 1
    /\ lock' = NoThread
    /\ Goto(t, "idle")
    /\ UNCHANGED <<slot, built, runVars>>

Store(t) ==
    /\ pc[t] = "store"
    /\ slot' = [slot EXCEPT ![want[t]] = built[want[t]]]
    /\ Goto(t, "release")
    /\ UNCHANGED <<built, lock, runVars, raises>>

Release(t) ==
    /\ pc[t] = "release"
    /\ lock' = NoThread
    /\ Goto(t, "return")
    /\ UNCHANGED <<slot, built, runVars, raises>>

(* return self._x: the slot is read once more, without the lock.           *)
Return(t) ==
    /\ pc[t] = "return"
    /\ got' = [got EXCEPT ![t] = slot[want[t]]]
    /\ Goto(t, phase[t])
    /\ UNCHANGED <<registryVars, want, phase, enabled, found, raises>>

-----------------------------------------------------------------------------
(* A run of the pipeline: detect, segment, validate, caption.              *)

StartRun(t) ==
    /\ pc[t] = "idle"
    /\ Goto(t, "check")
    /\ want' = [want EXCEPT ![t] = "detector"]
    /\ phase' = [phase EXCEPT ![t] = "infer"]
    /\ got' = [got EXCEPT ![t] = 0]
    /\ \E options \in SUBSET {"segmenter", "vlm"} :
        enabled' = [enabled EXCEPT ![t] = options]
    /\ found' = [found EXCEPT ![t] = FALSE]
    /\ UNCHANGED <<registryVars, raises>>

(* The model does its stage; the detector finds something or nothing.      *)
Infer(t) ==
    /\ pc[t] = "infer"
    /\ IF want[t] = "detector"
       THEN \E f \in BOOLEAN : found' = [found EXCEPT ![t] = f]
       ELSE UNCHANGED found
    /\ phase' = [phase EXCEPT ![t] = "version"]
    /\ Goto(t, "check")
    /\ UNCHANGED <<registryVars, want, got, enabled, raises>>

(* Mutant: a model that raised is dropped from its slot.                   *)
StageRaises_Unloads(t) ==
    /\ pc[t] = "infer"
    /\ slot' = [slot EXCEPT ![want[t]] = 0]
    /\ Goto(t, "idle")
    /\ UNCHANGED <<built, lock, runVars, raises>>

StageRaises(t) ==
    /\ pc[t] = "infer"
    /\ Goto(t, "idle")
    /\ UNCHANGED <<registryVars, runVars, raises>>

Stages == <<"detector", "segmenter", "clip", "vlm">>

StageOf(m) == CHOOSE n \in 1 .. 4 : Stages[n] = m

(* Whether a stage runs; the VLM does when the preliminary confidence is   *)
(* in its gate, ambiguous, or nothing was detected.                        *)
Runs(t, m, ambiguous) ==
    \/ m = "segmenter" /\ m \in enabled[t] /\ found[t]
    \/ m = "clip" /\ found[t]
    \/ m = "vlm" /\ m \in enabled[t] /\ (ambiguous \/ ~found[t])

(* The stages of the run that are still to come.                           *)
NextStages(t, ambiguous) ==
    {n \in (StageOf(want[t]) + 1) .. 4 : Runs(t, Stages[n], ambiguous)}

(* The version is recorded; the next stage follows, or the run is over.    *)
RecordVersion(t) ==
    /\ pc[t] = "version"
    /\ \E ambiguous \in BOOLEAN :
        LET next == NextStages(t, ambiguous)
        IN  \/ /\ next = {}
               /\ Goto(t, "idle")
               /\ UNCHANGED <<want, phase, got>>
            \/ \E n \in next :
                /\ \A k \in next : n <= k
                /\ want' = [want EXCEPT ![t] = Stages[n]]
                /\ phase' = [phase EXCEPT ![t] = "infer"]
                /\ got' = [got EXCEPT ![t] = 0]
                /\ Goto(t, "check")
    /\ UNCHANGED <<registryVars, enabled, found, raises>>

-----------------------------------------------------------------------------
RunStep(t) ==
    \/ Check(t) \/ Acquire(t) \/ Recheck(t) \/ Load(t) \/ Store(t)
    \/ Release(t) \/ Return(t) \/ Infer(t) \/ RecordVersion(t)

Next ==
    \E t \in Thread :
        RunStep(t) \/ StartRun(t) \/ LoadRaises(t) \/ StageRaises(t)

Spec == Init /\ [][Next]_vars

(* A thread that can go on does: the interpreter schedules every thread,   *)
(* and a load or an inference ends.  No run has to start.                  *)
Fairness == \A t \in Thread : WF_vars(RunStep(t))

FairSpec == Spec /\ Fairness

-----------------------------------------------------------------------------
Places ==
    {"idle", "check", "acquire", "recheck", "load", "store", "release", "return",
     "infer", "version"}

(* The places at which a thread is inside the with block of the lock.      *)
Locked == {"recheck", "load", "store", "release"}

(* Type invariant: registry and runs keep their shape, the lock is held    *)
(* exactly in the with block, and a run that has its model never has None. *)
TypeOK ==
    /\ slot \in [Model -> Nat]
    /\ built \in [Model -> Nat]
    /\ lock \in Thread \cup {NoThread}
    /\ pc \in [Thread -> Places]
    /\ want \in [Thread -> Model]
    /\ phase \in [Thread -> {"infer", "version"}]
    /\ got \in [Thread -> Nat]
    /\ enabled \in [Thread -> SUBSET {"segmenter", "vlm"}]
    /\ found \in [Thread -> BOOLEAN]
    /\ raises \in 0 .. MaxRaises
    /\ \A t \in Thread : pc[t] \in Locked <=> lock = t
    /\ \A t \in Thread : pc[t] \in {"infer", "version"} => got[t] # 0

(* "A single resident copy": at most one object of each model is ever      *)
(* built, whichever threads ask for it together and whatever loads raise   *)
(* before, and every run works with the one in the slot                    *)
(* (ml/registry.py:25, 34-43).                                             *)
SingleCopy ==
    /\ \A m \in Model : built[m] <= 1
    /\ \A t \in Thread : got[t] # 0 => got[t] = slot[want[t]]

(* A slot goes from None to the first object built, once, and is never     *)
(* replaced: the registry implements LoadedModels (ml/registry.py:3-4).    *)
Models == INSTANCE LoadedModels WITH resident <- slot

LoadsOnce == Models!Spec

(* No thread waits for ever: neither for the lock of a thread that failed  *)
(* to load nor for one that loads another model (ml/registry.py:37, 48).   *)
RunsEnd == \A t \in Thread : pc[t] # "idle" ~> pc[t] = "idle"

=============================================================================
