-------------------------- MODULE CheckpointLineage --------------------------
(***************************************************************************)
(* What a checkpoint must say before a run may go on from it               *)
(* (src/ascento_mjlab/provenance_runner.py, v5_runner.py, task_contract.py,*)
(* semantic_normalization.py).  Training writes checkpoints that carry the *)
(* task contract, the normalizer contract and the environment's progress;  *)
(* runs resume from them, transfer their actor to another task or migrate  *)
(* them, and the code changes in between: from version 2 on the generalist *)
(* actor has an obstacle-mode input.  Tensors keep their names and often   *)
(* their shapes under every normalizer, so only the contracts tell weights *)
(* apart.  One step of training is one rollout, which is one iteration.    *)
(***************************************************************************)
EXTENDS Integers

CONSTANTS Slots,     \* names of checkpoint files
          MaxSteps   \* bound: steps of one lineage

Tasks == {"locomotion", "generalist"}
Normalizers == {"empirical", "semantic", "context"}
None == "none"
Absent == -1

VARIABLES version,   \* of the code, 1 or 2
          file,      \* the checkpoint in each slot
          run        \* the training process

vars == <<version, file, run>>

NoFile == [is |-> None]
NoRun == [is |-> None]

(* The obstacle_mode term of the registered task's actor observations.     *)
Mode(task) == task = "generalist" /\ version = 2

(* The normalizers a task's profiles can select, as the contract names     *)
(* them (model_normalizer_contract: 42 inputs make it the context one).    *)
Profiles(task) ==
  IF task = "locomotion" THEN {"empirical"}
  ELSE {"empirical", IF Mode(task) THEN "context" ELSE "semantic"}

(* Checkpoints of before there were contracts: the task identity, the      *)
(* normalizer's label and the progress may be missing.                     *)
Legacy == {[is |-> "checkpoint", task |-> task, named |-> named, mode |-> FALSE,
            label |-> None, weights |-> "empirical", wide |-> FALSE,
            steps |-> steps, counter |-> Absent] :
           task \in Tasks, named \in BOOLEAN, steps \in 0..1}

Init == /\ version = 1
        /\ \E old \in Legacy : file = [s \in Slots |-> old]
        /\ run = NoRun

(* The process of a task: its configured model and fresh weights.          *)
Process(task, normalizer) ==
  [is |-> "run", task |-> task, mode |-> Mode(task), normalizer |-> normalizer,
   weights |-> normalizer, wide |-> Mode(task), steps |-> 0, counter |-> 0]

Start == /\ run = NoRun
         /\ \E task \in Tasks : \E normalizer \in Profiles(task) :
              run' = Process(task, normalizer)
         /\ UNCHANGED <<version, file>>

Train == /\ run.is = "run" /\ run.steps < MaxSteps
         /\ run' = [run EXCEPT !.steps = @ + 1, !.counter = @ + 1]
         /\ UNCHANGED <<version, file>>

(* AscentoProvenanceRunner.save: everything in one file, renamed whole.    *)
Save(s) == /\ run.is = "run"
           /\ file' = [file EXCEPT ![s] =
                [is |-> "checkpoint", task |-> run.task, named |-> TRUE, mode |-> run.mode,
                 label |-> run.normalizer, weights |-> run.weights, wide |-> run.wide,
                 steps |-> run.steps, counter |-> run.counter]]
           /\ UNCHANGED <<version, run>>

\* The process ends or dies.
End == /\ run.is = "run" /\ run' = NoRun /\ UNCHANGED <<version, file>>

Upgrade == /\ version = 1 /\ run = NoRun
           /\ version' = 2
           /\ UNCHANGED <<file, run>>

-----------------------------------------------------------------------------
(* classify_task_contract_compatibility: the same topology, or one that    *)
(* only lacks the task's name.                                             *)
TaskContractHolds(f, task) == /\ f.mode = Mode(task)
                              /\ f.named => f.task = task
                              \* the topologies of two tasks differ in more than the name
                              /\ f.task = task

\* Seeded defect: any labelled normalizer is accepted.
NormalizerUnchecked(f, normalizer) == f.label # None \/ normalizer = "empirical"

(* require_model_normalizer_contract.                                      *)
NormalizerContractHolds(f, normalizer) ==
  f.label = normalizer \/ (f.label = None /\ normalizer = "empirical")

\* Seeded defect: the environment starts its schedules again.
ProgressForgotten(f) == IF f.counter = Absent THEN f.steps ELSE 0

(* _restore_environment_progress: recorded, or rebuilt from the iteration. *)
Progress(f) == IF f.counter = Absent THEN f.steps ELSE f.counter

(* load of a process started to resume: weights of another width cannot be *)
(* loaded at all, and a refused checkpoint ends the process.               *)
Resume(s) ==
  /\ run = NoRun /\ file[s].is = "checkpoint"
  /\ \E task \in Tasks : \E normalizer \in Profiles(task) :
       /\ file[s].wide = Mode(task)
       /\ TaskContractHolds(file[s], task)
       /\ NormalizerContractHolds(file[s], normalizer)
       /\ run' = [Process(task, normalizer) EXCEPT
                    !.weights = file[s].weights, !.steps = file[s].steps,
                    !.counter = Progress(file[s])]
  /\ UNCHANGED <<version, file>>

-----------------------------------------------------------------------------
(* initialize_from_compatible_actor: the actor of another task, exactly as *)
(* it is or with a zero obstacle-mode input added; the optimizer, the      *)
(* iteration and the environment start afresh.  V5's runner does this when *)
(* it starts, and initialize_transfer saves the result at once.            *)
ExactABI(f, task) == f.mode = Mode(task)
ZeroModeExtension(f, task) == f.task = "locomotion" /\ ~f.mode /\ Mode(task)

Transfer(s) ==
  /\ run = NoRun /\ file[s].is = "checkpoint"
  /\ \E task \in Tasks : \E normalizer \in Profiles(task) :
       /\ NormalizerContractHolds(file[s], normalizer)
       /\ ExactABI(file[s], task) \/ ZeroModeExtension(file[s], task)
       /\ file[s].wide = (Mode(task) /\ ExactABI(file[s], task))
       /\ run' = [Process(task, normalizer) EXCEPT !.weights = file[s].weights]
  /\ UNCHANGED <<version, file>>

\* Seeded defect: any checkpoint may be given semantic scales, labelled or not.
MigrateSemanticAgain(s) ==
  /\ file[s].is = "checkpoint" /\ file[s].steps = 0 /\ file[s].label # "context"
  /\ file' = [file EXCEPT ![s].label = "semantic",
                          ![s].weights = IF @ = "empirical" THEN "semantic" ELSE "twice"]
  /\ UNCHANGED <<version, run>>

(* migrate_checkpoint_payload folds fixed command scales into the weights  *)
(* of an unlabelled checkpoint that has not been trained yet.              *)
MigrateSemantic(s) ==
  /\ file[s].is = "checkpoint" /\ file[s].steps = 0 /\ file[s].label = None
  /\ file' = [file EXCEPT ![s].label = "semantic", ![s].weights = "semantic"]
  /\ UNCHANGED <<version, run>>

(* migrate_context_mode_checkpoint_payload adds the zero input and gives   *)
(* the checkpoint the current contract of its task.                        *)
MigrateContext(s) ==
  /\ file[s].is = "checkpoint" /\ file[s].steps = 0 /\ file[s].label = "semantic"
  /\ file[s].named /\ ~file[s].mode /\ ~file[s].wide /\ Mode(file[s].task)
  /\ file' = [file EXCEPT ![s].label = "context", ![s].weights = "context",
                          ![s].mode = TRUE, ![s].wide = TRUE]
  /\ UNCHANGED <<version, run>>

Next == \/ Start \/ Train \/ End \/ Upgrade
        \/ \E s \in Slots : \/ Save(s) \/ Resume(s) \/ Transfer(s)
                            \/ MigrateSemantic(s) \/ MigrateContext(s)

Spec == Init /\ [][Next]_vars

-----------------------------------------------------------------------------
TypeOK == /\ version \in 1..2
          /\ \A s \in Slots : file[s].label \in Normalizers \cup {None}
          /\ run.is = "run" => run.normalizer \in Normalizers /\ run.steps <= MaxSteps

(* However a run came by its weights, its normalizer is the one they were  *)
(* trained under or migrated to, they have the width of the task's         *)
(* observations, and the environment's schedules stand where the optimizer *)
(* stands.                                                                 *)
RunFitsItsWeights ==
  run.is = "run" => /\ run.weights = run.normalizer
                    /\ run.wide = Mode(run.task)
                    /\ run.counter = run.steps

(***************************************************************************)
(* The inductive invariant                                                 *)
(***************************************************************************)

(* A checkpoint says what it is: its label is that of its weights, where   *)
(* none means empirical, and only generalist weights of the new code are   *)
(* wide.  What a run takes over from one is judged by these labels.        *)
Checkpoints ==
  [is : {"checkpoint"}, task : Tasks, named : BOOLEAN, mode : BOOLEAN,
   label : Normalizers \cup {None}, weights : Normalizers, wide : BOOLEAN,
   steps : Nat, counter : Int]

Runs ==
  [is : {"run"}, task : Tasks, mode : BOOLEAN, normalizer : Normalizers,
   weights : Normalizers, wide : BOOLEAN, steps : Nat, counter : Int]

Types == /\ version \in 1..2
         /\ file \in [Slots -> Checkpoints]
         /\ run = NoRun \/ run \in Runs

LabelIsTrue(f) ==
  /\ f.weights = IF f.label = None THEN "empirical" ELSE f.label
  /\ f.wide = f.mode
  /\ f.mode => f.task = "generalist" /\ version = 2
  /\ Progress(f) = f.steps

RunIsOfItsTask == run.is = "run" => run.mode = Mode(run.task)

IInv == /\ Types /\ RunIsOfItsTask /\ RunFitsItsWeights
        /\ \A s \in Slots : LabelIsTrue(file[s])
=============================================================================
