----------------------------- MODULE StepFrame -----------------------------
(***************************************************************************)
(* One frame of the viewer, put together by taps on one environment step:  *)
(* _ViewerPolicy (the policy call, the cadence of the Jacobian), the       *)
(* StructuredActionObserver, and ViewerTransitionObserver, whose wrappers  *)
(* of termination, reward and step run inside env.step, before and after   *)
(* the automatic reset.  A moment is [life, age]: which episode the robot  *)
(* really is in and episode_length_buf.  A step may raise at any point;    *)
(* the user may reset and a checkpoint may be reloaded between steps.      *)
(***************************************************************************)
EXTENDS Integers

CONSTANTS WrapperClip, Outputs,
          MaxCalls, MaxLives, MaxPolicies    \* bounds of the model

VARIABLES world,      \* the moment the simulation is at
          term,       \* the action term: whose action it holds, and its value
          call,       \* the step in progress, the sequence counter, and whether the last step raised
          latest,     \* _ViewerPolicy.latest_frame and its introspector's Jacobian
          snapshot,   \* StructuredActionObserver.latest
          observer,   \* ViewerTransitionObserver's own fields
          frame       \* the frame completed last
vars == <<world, term, call, latest, snapshot, observer, frame>>

Nothing == 0
NoMoment == [life |-> 0, age |-> 0]
Cleared == [seq |-> Nothing, value |-> 0]
NoState == [at |-> NoMoment, since |-> NoMoment]
NoFrame == [seq |-> Nothing]
FreshPolicy(gen) == [gen |-> gen, seq |-> Nothing, obs |-> NoMoment, output |-> 0, jacobian |-> Nothing]

Init ==
  /\ world = [life |-> 1, age |-> 0] /\ term = Cleared /\ snapshot = Cleared
  /\ call = [at |-> "idle", seq |-> 0, raised |-> FALSE]
  /\ latest = FreshPolicy(1)
  /\ observer = [episode |-> 0, tilt |-> NoMoment, tiltEpisode |-> -1,
                 terminal |-> NoState, rewarded |-> Nothing]
  /\ frame = NoFrame

\* JacobianCadence: a new introspector is due at once, later the clock decides
Due == IF latest.jacobian = Nothing THEN {TRUE} ELSE BOOLEAN

\* _ViewerPolicy.__call__: the observation is that of the present moment
Act(output, due) ==
  /\ call.at = "idle" /\ call.seq < MaxCalls
  /\ call' = [call EXCEPT !.at = "acted", !.seq = @ + 1]
  /\ latest' = [latest EXCEPT !.seq = call'.seq, !.obs = world, !.output = output,
                              !.jacobian = IF due THEN call'.seq ELSE @]
  /\ UNCHANGED <<world, term, snapshot, observer, frame>>

Clamp(value, limit) == IF value > limit THEN limit ELSE value
Wrapped(output) == Clamp(output, WrapperClip)
Limited(action) == Clamp(action, 1)

\* env.step until the physics has advanced: the wrapper clips, the term clips and
\* stores, the observer takes its snapshot, episode_length_buf is incremented
Advance ==
  /\ call.at = "acted" /\ call' = [call EXCEPT !.at = "advanced"]
  /\ term' = [seq |-> call.seq, value |-> Limited(Wrapped(latest.output))]
  /\ snapshot' = term'
  /\ observer' = [observer EXCEPT !.terminal = NoState]
  /\ world' = [world EXCEPT !.age = @ + 1]
  /\ UNCHANGED <<latest, frame>>

\* Seeded defect: a first step is not told apart, the tilt before a reset by hand is used.
SinceAnyTilt(moment) ==
  IF observer.tiltEpisode # observer.episode THEN NoMoment ELSE observer.tilt

\* the earlier tilt that the tilt rate of _capture_state is taken from
Since(moment) ==
  IF observer.tiltEpisode # observer.episode \/ moment.age <= 1
  THEN NoMoment ELSE observer.tilt

StateAt(moment) == [at |-> moment, since |-> Since(moment)]

\* Seeded defect: the wrapper of the terminations does not record the state.
TerminateUnseen(ends) ==
  /\ call.at = "advanced"
  /\ call' = [call EXCEPT !.at = IF ends THEN "ended" ELSE "running"]
  /\ UNCHANGED <<world, term, latest, snapshot, observer, frame>>

\* _observe_termination: the state before a reset can change it
Terminate(ends) ==
  /\ call.at = "advanced"
  /\ call' = [call EXCEPT !.at = IF ends THEN "ended" ELSE "running"]
  /\ observer' = [observer EXCEPT !.terminal = StateAt(world)]
  /\ UNCHANGED <<world, term, latest, snapshot, frame>>

\* _observe_rewards
Reward ==
  /\ call.at \in {"ended", "running"} /\ observer.rewarded # call.seq
  /\ observer' = [observer EXCEPT !.rewarded = call.seq]
  /\ UNCHANGED <<world, term, call, latest, snapshot, frame>>

NextLife == [life |-> world.life + 1, age |-> 0]

\* Seeded defect: the pipeline reads the action term, which a reset has cleared.
PipelineOfTerm(held) ==
  [seq |-> held.seq, clipped |-> <<Wrapped(latest.output) # latest.output,
                                   held.value # Wrapped(latest.output)>>]

\* build_action_pipeline_snapshot: which stage altered the action, read from the
\* snapshot that the observer holds and not from the term
Pipeline(held) ==
  [seq |-> snapshot.seq, clipped |-> <<Wrapped(latest.output) # latest.output,
                                       snapshot.value # Wrapped(latest.output)>>]

\* _build_transition and complete_transition
Frame(state, resets, held) ==
  [seq |-> latest.seq, gen |-> latest.gen, obs |-> latest.obs, output |-> latest.output,
   jacobian |-> latest.jacobian, age |-> latest.seq - latest.jacobian,
   action |-> Pipeline(held), state |-> state, reward |-> observer.rewarded,
   episode |-> observer.episode, reset |-> resets, raised |-> call.raised]

\* the rest of env.step (an ended episode is reset inside it), the tail of
\* _observe_step and of _execute_step
Finish ==
  LET ends == call.at = "ended"
  IN /\ call.at \in {"ended", "running"} /\ observer.rewarded = call.seq
     /\ ends => world.life < MaxLives
     /\ call' = [call EXCEPT !.at = "idle", !.raised = FALSE]
     /\ world' = IF ends THEN NextLife ELSE world
     /\ term' = IF ends THEN Cleared ELSE term
     /\ LET state == IF observer.terminal # NoState THEN observer.terminal ELSE StateAt(world')
        IN /\ frame' = Frame(state, ends, term')
           /\ observer' =
                IF ends
                THEN [observer EXCEPT !.episode = @ + 1, !.tilt = NoMoment, !.tiltEpisode = -1]
                ELSE [observer EXCEPT !.tilt = state.at, !.tiltEpisode = observer.episode]
     /\ UNCHANGED <<latest, snapshot>>

\* env.step or the policy raises: no frame is completed and the next step starts anew
Raise ==
  /\ call.at # "idle" /\ call' = [call EXCEPT !.at = "idle", !.raised = TRUE]
  /\ UNCHANGED <<world, term, latest, snapshot, observer, frame>>

\* the viewer's RESET
UserReset ==
  /\ call.at = "idle" /\ world.life < MaxLives
  /\ world' = NextLife /\ term' = Cleared
  /\ UNCHANGED <<call, latest, snapshot, observer, frame>>

\* a reloaded checkpoint: a policy and an introspector of its own, then RESET
Reload ==
  /\ call.at = "idle" /\ world.life < MaxLives /\ latest.gen < MaxPolicies
  /\ latest' = FreshPolicy(latest.gen + 1)
  /\ world' = NextLife /\ term' = Cleared
  /\ UNCHANGED <<call, snapshot, observer, frame>>

Next ==
  \/ \E output \in Outputs, due \in Due : Act(output, due)
  \/ Advance
  \/ \E ends \in BOOLEAN : Terminate(ends)
  \/ Reward \/ Finish \/ Raise \/ UserReset \/ Reload

Spec == Init /\ [][Next]_vars

(***************************************************************************)
(* Properties                                                              *)
(***************************************************************************)

TypeOK ==
  /\ world \in [life : 1..MaxLives, age : 0..MaxCalls]
  /\ {term.seq, snapshot.seq, latest.seq, latest.jacobian, observer.rewarded} \subseteq 0..call.seq
  /\ call.at \in {"idle", "acted", "advanced", "ended", "running"}
  /\ latest.gen \in 1..MaxPolicies /\ observer.episode \in 0..(MaxLives - 1)

\* A completed frame describes one step of one episode: the state is the one the
\* action of that observation led to, taken before the automatic reset, the action
\* stages and the reward are those of the same call, a tilt rate never spans a
\* reset (also one by hand, which does not advance episode_id), and the Jacobian
\* is the one its age says. A step that raised in the middle leaves the tilt of
\* the step before it for the next rate (ViewerTransitionObserver,
\* StructuredActionObserver, _ViewerPolicy.complete_transition).
FrameIsOfOneStep ==
  frame # NoFrame =>
    /\ frame.state.at = [frame.obs EXCEPT !.age = @ + 1]
    /\ frame.state.since # NoMoment /\ ~frame.raised =>
         frame.state.since.life = frame.obs.life
    /\ frame.reward = frame.seq
    /\ frame.action.seq = frame.seq
    /\ frame.action.clipped[1] <=> frame.output > WrapperClip
    /\ frame.action.clipped[2] <=> Clamp(frame.output, WrapperClip) > 1
    /\ frame.jacobian \in 1..frame.seq /\ frame.age = frame.seq - frame.jacobian

(***************************************************************************)
(* The inductive invariant                                                 *)
(***************************************************************************)

Moment == [life : Nat, age : Nat]
ActionRecord == [seq : Nat, value : Int]
Stepped == {"advanced", "ended", "running"}

Records ==
  /\ world \in Moment /\ world.life >= 1
  /\ call \in [at : {"idle", "acted"} \cup Stepped, seq : Nat, raised : BOOLEAN]
  /\ {term, snapshot} \subseteq ActionRecord
  /\ latest \in [gen : Nat, seq : Nat, obs : Moment, output : Int, jacobian : Nat]
  /\ observer \in [episode : Nat, tilt : Moment, tiltEpisode : Int,
                   terminal : [at : Moment, since : Moment], rewarded : Nat]

\* What the taps hold when the step in progress has come to a point of env.step.
TapsFollowTheStep ==
  /\ call.at # "idle" => latest.seq = call.seq /\ latest.jacobian \in 1..call.seq
  /\ call.at = "acted" => latest.obs = world
  /\ call.at \in Stepped =>
       /\ world = [latest.obs EXCEPT !.age = @ + 1]
       /\ snapshot = [seq |-> call.seq, value |-> Limited(Wrapped(latest.output))]
  /\ call.at \in {"ended", "running"} => observer.terminal = StateAt(world)

\* The tilt is of the robot's life, unless the first step of a life, which does not use
\* it, or a step that raised came after it.
TiltIsOfTheLife ==
  ~call.raised /\ observer.tiltEpisode = observer.episode =>
    \/ observer.tilt.life = world.life
    \/ world.age <= IF call.at \in Stepped THEN 1 ELSE 0

\* Counters are within each other.
Counters ==
  /\ world.life <= MaxLives /\ observer.episode < world.life
  /\ call.seq <= MaxCalls /\ world.age + (IF call.at = "acted" THEN 1 ELSE 0) <= call.seq
  /\ {term.seq, snapshot.seq, latest.seq, latest.jacobian, observer.rewarded} \subseteq 0..call.seq
  /\ latest.gen \in 1..MaxPolicies

IInv == Records /\ TapsFollowTheStep /\ TiltIsOfTheLife /\ Counters /\ FrameIsOfOneStep
=============================================================================
