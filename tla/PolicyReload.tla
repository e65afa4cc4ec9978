---------------------------- MODULE PolicyReload ----------------------------
(***************************************************************************)
(* The viewer worker (viewer/worker.py) while the trainer keeps saving:    *)
(* load_policy swaps the actor of the one runner, the introspector, the    *)
(* schema, the replay buffer and the label of the checkpoint manager, on   *)
(* the thread that steps the simulation.  Between a poll and the end of a  *)
(* load another checkpoint may appear.  A load is refused before or inside *)
(* the transactional load of the actor ("contract"), after it ("late":     *)
(* the widths of the schema, the introspector, schema.json), or it is      *)
(* committed and the last line, the status file, cannot be written.        *)
(* A policy is [ckpt, gen]; 0 stands for no checkpoint.                     *)
(***************************************************************************)
EXTENDS Naturals, Sequences, SequencesExt

CONSTANTS MaxSaved, MaxGen, Capacity

VARIABLES saved,      \* the kind of each stable checkpoint below the run, oldest first
          target,     \* the checkpoint load_policy works on, and who asked for it
          current,    \* CheckpointManager.current_name
          live,       \* viewer.policy: what its introspector stamps on a frame
          weights,    \* the checkpoint in the runner's actor
          hooked,     \* the hooks of live still sit on the installed modules
          active,     \* active_schema and policy_generation
          rejected,   \* _follow_rejected_checkpoint
          buffer,     \* PolicyReplayBuffer
          capture,    \* the last artifact persisted
          asked,      \* the checkpoint of the explanation request in the slot
          answer,     \* the last explanation published
          torn        \* a status file could not be written after a commit

vars == <<saved, target, current, live, weights, hooked, active, rejected, buffer,
          capture, asked, answer, torn>>

Kinds == {"good", "contract", "late"}
Idle == [ckpt |-> 0, by |-> "latest"]
NoAnswer == [ok |-> FALSE, ckpt |-> 0, weights |-> 0]
NoCapture == [label |-> 0, gen |-> 0, schema |-> [ckpt |-> 0, gen |-> 0], frames |-> {}]
Newest == Len(saved)
\* the loading thread is the thread that steps and answers
Free == target = Idle

TypeOK ==
  /\ saved \in Seq(Kinds) /\ Len(saved) \in 1..MaxSaved
  /\ target \in [ckpt : 0..Newest, by : {"latest", "selected"}]
  /\ {current, weights, rejected, asked} \subseteq 0..Newest
  /\ {live, active} \subseteq [ckpt : 1..Newest, gen : 1..MaxGen]
  /\ {hooked, torn, answer.ok} \subseteq BOOLEAN
  /\ buffer \in Seq([ckpt : 1..Newest, gen : 1..MaxGen, weights : 1..Newest])
  /\ Len(buffer) <= Capacity

\* run_viewer has loaded its first checkpoint and starts to serve
Init ==
  /\ saved = <<"good">> /\ current = 1 /\ weights = 1
  /\ live = [ckpt |-> 1, gen |-> 1] /\ active = live
  /\ target = Idle /\ hooked = TRUE /\ rejected = 0
  /\ buffer = <<>> /\ capture = NoCapture /\ asked = 0 /\ answer = NoAnswer
  /\ torn = FALSE

\* the trainer writes a checkpoint and it becomes stable
Save(kind) ==
  /\ Newest < MaxSaved
  /\ saved' = Append(saved, kind)
  /\ UNCHANGED <<target, current, live, weights, hooked, active, rejected, buffer,
                 capture, asked, answer, torn>>

LoadStarts(c, by) ==
  /\ Free /\ active.gen < MaxGen
  /\ target' = [ckpt |-> c, by |-> by]
  /\ UNCHANGED <<saved, current, live, weights, hooked, active, rejected, buffer,
                 capture, asked, answer, torn>>

\* the poll of follow mode: FETCH_CHECKPOINT "latest" unless shown or given up
Follow == Newest \notin {current, rejected} /\ LoadStarts(Newest, "latest")
\* the user picks an entry of the dropdown
Select(c) == LoadStarts(c, "selected")

\* what _handle_custom_action notes after an exception: "latest" is looked up again
GivenUp == IF target.by = "latest" THEN Newest ELSE target.ckpt

\* the candidate never reached the actor, or the actor was put back with its normalizers
Refuse ==
  /\ ~Free /\ saved[target.ckpt] = "contract"
  /\ rejected' = GivenUp /\ target' = Idle
  /\ UNCHANGED <<saved, current, live, weights, hooked, active, buffer, capture,
                 asked, answer, torn>>

\* Seeded defect: the handler of load_policy leaves the candidate's weights in the actor.
RefuseKeepsWeights ==
  /\ ~Free /\ saved[target.ckpt] = "late"
  /\ rejected' = GivenUp /\ target' = Idle /\ hooked' = FALSE
  /\ weights' = target.ckpt
  /\ UNCHANGED <<saved, current, live, active, buffer, capture, asked, answer,
                 torn>>

\* refused after the transactional load: the state is restored into the
\* candidate's normalizer module, which the live introspector does not watch
RefuseLate ==
  /\ ~Free /\ saved[target.ckpt] = "late"
  /\ rejected' = GivenUp /\ target' = Idle /\ hooked' = FALSE
  /\ UNCHANGED <<saved, current, live, weights, active, buffer, capture, asked,
                 answer, torn>>

\* Seeded defect: the frames of the policy that is replaced stay in the buffer.
SwappedKeepsFrames(c) ==
  /\ weights' = c
  /\ active' = [ckpt |-> c, gen |-> active.gen + 1]
  /\ buffer' = buffer

\* the commit of load_policy, after the last call that its try block guards
Swapped(c) ==
  /\ weights' = c
  /\ active' = [ckpt |-> c, gen |-> active.gen + 1]
  /\ buffer' = <<>>

\* the policy is returned, the viewer installs it and resets the environment
Commit ==
  /\ ~Free /\ saved[target.ckpt] = "good"
  /\ Swapped(target.ckpt)
  /\ live' = active' /\ current' = target.ckpt /\ hooked' = TRUE
  /\ rejected' = IF target.ckpt # current THEN 0 ELSE rejected
  /\ target' = Idle
  /\ UNCHANGED <<saved, capture, asked, answer, torn>>

\* the status file cannot be written: the swap stands, the viewer keeps the
\* closed policy and its label, and the checkpoint is noted as rejected
CommitThenFail ==
  /\ ~Free /\ saved[target.ckpt] = "good"
  /\ Swapped(target.ckpt)
  /\ hooked' = FALSE /\ torn' = TRUE
  /\ rejected' = GivenUp /\ target' = Idle
  /\ UNCHANGED <<saved, current, live, capture, asked, answer>>

Frame == [ckpt |-> live.ckpt, gen |-> live.gen, weights |-> weights]
Appended == LET b == Append(buffer, Frame)
            IN IF Len(b) > Capacity THEN Tail(b) ELSE b

\* _persist_capture: the manager's label, the frame's generation, the active schema
Captured == [label |-> current, gen |-> Frame.gen, schema |-> active,
             frames |-> ToSet(Appended)]

\* Seeded defect: the explanation is computed for whatever checkpoint is loaded.
AnswerUnchecked == [ok |-> TRUE, ckpt |-> asked, weights |-> weights]

\* _process_explanation_request: the request names the checkpoint it is about
Answer == [ok |-> asked = Frame.ckpt, ckpt |-> asked, weights |-> weights]

\* one executed step: the frame joins the buffer, an event or a manual request
\* is captured, at most one explanation is answered, a reset empties the buffer
Step(event, reset) ==
  /\ Free
  /\ capture' = IF event THEN Captured ELSE capture
  /\ answer' = IF asked # 0 THEN Answer ELSE answer
  /\ asked' = 0
  /\ buffer' = IF reset THEN <<>> ELSE Appended
  /\ UNCHANGED <<saved, target, current, live, weights, hooked, active, rejected,
                 torn>>

\* the dashboard: a request for the checkpoint that schema.json names
Ask ==
  /\ asked = 0 /\ asked' = active.ckpt
  /\ UNCHANGED <<saved, target, current, live, weights, hooked, active, rejected,
                 buffer, capture, answer, torn>>

Next ==
  \/ \E kind \in Kinds : Save(kind)
  \/ Follow
  \/ \E c \in 1..Newest : Select(c)
  \/ Refuse \/ RefuseLate \/ Commit \/ CommitThenFail
  \/ \E event, reset \in BOOLEAN : Step(event, reset)
  \/ Ask

Spec == Init /\ [][Next]_vars

(***************************************************************************)
(* Properties                                                              *)
(***************************************************************************)

\* Every frame of a persisted capture was produced by the weights it names, and
\* the frames, the generation, the label and the schema of the artifact are those
\* of one policy, however checkpoints appear, fail and replace each other
\* (load_policy, _persist_capture).  A status file that cannot be written breaks it.
CaptureIsOnePolicy ==
  capture.gen # 0 /\ ~torn =>
    /\ capture.schema = [ckpt |-> capture.label, gen |-> capture.gen]
    /\ capture.frames
         = {[ckpt |-> capture.label, gen |-> capture.gen, weights |-> capture.label]}

\* An explanation that is published as a result was computed with the weights of
\* the checkpoint it was requested for, although a reload may come between the
\* request and the step that serves it (_process_explanation_request).
ExplanationIsOfItsCheckpoint == answer.ok /\ ~torn => answer.weights = answer.ckpt

(***************************************************************************)
(* The inductive invariant                                                 *)
(***************************************************************************)

\* What the worker calls the policy is kept in four places: the manager's label, the
\* live policy, the active schema and the weights of the actor.
OnePolicy ==
  /\ live = [ckpt |-> current, gen |-> live.gen]
  /\ active = live
  /\ weights = current

\* They agree whenever a step may run, and the buffer holds frames of that policy only.
IInv ==
  /\ ~torn => OnePolicy /\ buffer \in Seq({Frame})
  /\ CaptureIsOnePolicy
  /\ ExplanationIsOfItsCheckpoint
=============================================================================
