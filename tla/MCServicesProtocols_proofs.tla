--------------------- MODULE MCServicesProtocols_proofs ---------------------
(***************************************************************************)
(* The protocols of the viewer, the launcher and the host, proved for any  *)
(* number of requests, commands, reloads, launchers and updates.  A        *)
(* behaviour of MCServices is about one protocol, so a property of one     *)
(* part holds when the inductive invariant IInv of its module does: one    *)
(* section proves IInv for each module, in the variables v1, v2, ... that  *)
(* MCServices gives it, and the last one draws the properties of the run   *)
(* from them.                                                              *)
(***************************************************************************)
EXTENDS MCServices, FiniteSetTheorems, SequenceTheorems, TLAPS

-----------------------------------------------------------------------------
\* Reload (PolicyReload): a policy is changed by one assignment of the capture that uses
\* it, so captures and explanations stay of one policy unless a reload was torn.
\* Variables: v1 saved, v2 target, v3 current, v4 live, v5 weights, v6 hooked, v7 active,
\*   v8 rejected, v9 buffer, v10 capture, v11 asked, v12 answer, v13 torn.

LEMMA ReloadInitIInv == Reload!Init => Reload!IInv
<1> SUFFICES ASSUME Reload!Init PROVE Reload!IInv
  OBVIOUS
<1>1. Reload!OnePolicy /\ v9 \in Seq({Reload!Frame})
  BY DEF Reload!Init, Reload!OnePolicy
<1>2. v10.gen = 0
  BY DEF Reload!Init, Reload!NoCapture
<1>3. ~v12.ok
  BY DEF Reload!Init, Reload!NoAnswer
<1> QED
  BY <1>1, <1>2, <1>3 DEF Reload!IInv, Reload!CaptureIsOnePolicy,
     Reload!ExplanationIsOfItsCheckpoint

\* A buffer with one frame more, and with the oldest dropped when it is full, holds
\* nothing but the frame of the step.
LEMMA ReloadAppendedIsOfTheFrame ==
  ASSUME v9 \in Seq({Reload!Frame})
  PROVE  Reload!Appended \in Seq({Reload!Frame}) /\ Reload!ToSet(Reload!Appended) = {Reload!Frame}
<1> DEFINE b == Append(v9, Reload!Frame)
<1>1. b \in Seq({Reload!Frame}) /\ b # <<>> /\ Len(b) = Len(v9) + 1 /\ Len(v9) \in Nat
  BY AppendProperties, LenProperties
<1>2. Tail(b) \in Seq({Reload!Frame}) /\ Len(Tail(b)) = Len(b) - 1
  BY <1>1, HeadTailProperties
<1>3. Reload!Appended \in Seq({Reload!Frame}) /\ Len(Reload!Appended) \in Nat \ {0}
  <2>1. CASE Len(b) > Capacity
    <3>1. Reload!Appended = Tail(b)
      BY <2>1 DEF Reload!Appended
    <3> HIDE DEF b
    <3> QED
      BY <2>1, <3>1, <1>1, <1>2, ReloadParameters
  <2>2. CASE ~(Len(b) > Capacity)
    <3>1. Reload!Appended = b
      BY <2>2 DEF Reload!Appended
    <3> HIDE DEF b
    <3> QED
      BY <3>1, <1>1
  <2> QED
    BY <2>1, <2>2
<1>4. ASSUME NEW s \in Seq({Reload!Frame}), Len(s) \in Nat \ {0} PROVE Reload!ToSet(s) = {Reload!Frame}
  <2>1. DOMAIN s = 1..Len(s) /\ \A i \in 1..Len(s) : s[i] = Reload!Frame
    BY <1>4, ElementOfSeq
  <2>2. 1 \in DOMAIN s
    BY <1>4, <2>1
  <2> QED
    BY <2>1, <2>2 DEF Reload!ToSet
<1> QED
  BY <1>3, <1>4

\* Loads touch neither artifact; a refused one leaves the policy and its frames.
LEMMA ReloadLoadKeeps ==
  ASSUME Reload!IInv,
         \/ \E kind \in Reload!Kinds : Reload!Save(kind)
         \/ \E c, by : Reload!LoadStarts(c, by)
         \/ Reload!Refuse \/ Reload!RefuseLate \/ Reload!Ask
  PROVE  Reload!IInv'
BY DEF Reload!IInv, Reload!OnePolicy, Reload!Frame, Reload!CaptureIsOnePolicy,
   Reload!ExplanationIsOfItsCheckpoint,
       Reload!Save, Reload!LoadStarts, Reload!Refuse, Reload!RefuseLate, Reload!Ask

\* A committed one replaces the policy in all four places and empties the buffer.
LEMMA ReloadCommitKeeps == ASSUME Reload!IInv, Reload!Commit PROVE Reload!IInv'
<1>1. Reload!OnePolicy'
  BY DEF Reload!Commit, Reload!Swapped, Reload!OnePolicy
<1>2. v9' \in Seq({Reload!Frame'})
  BY DEF Reload!Commit, Reload!Swapped
<1> QED
  BY <1>1, <1>2 DEF Reload!IInv, Reload!Commit, Reload!CaptureIsOnePolicy,
     Reload!ExplanationIsOfItsCheckpoint

LEMMA ReloadCommitThenFailKeeps == ASSUME Reload!CommitThenFail PROVE Reload!IInv'
<1>1. v13'
  BY Zenon DEF Reload!CommitThenFail
<1> QED
  BY <1>1 DEF Reload!IInv, Reload!CaptureIsOnePolicy, Reload!ExplanationIsOfItsCheckpoint

\* A step captures, answers and records with the policy that ran it.
LEMMA ReloadStepKeeps ==
  ASSUME Reload!IInv, NEW event \in BOOLEAN, NEW reset \in BOOLEAN, Reload!Step(event, reset)
  PROVE  Reload!IInv'
<1>1. /\ v13' = v13 /\ v4' = v4 /\ v3' = v3 /\ v7' = v7
      /\ v5' = v5 /\ Reload!Frame' = Reload!Frame
  BY DEF Reload!Step, Reload!Frame
<1>2. CASE v13
  <2>1. v13'
    BY <1>1, <1>2, Zenon
  <2> QED
    BY <2>1 DEF Reload!IInv, Reload!CaptureIsOnePolicy, Reload!ExplanationIsOfItsCheckpoint
<1>3. CASE ~v13
  <2>1. Reload!OnePolicy /\ Reload!Appended \in Seq({Reload!Frame}) /\ Reload!ToSet(Reload!Appended) = {Reload!Frame}
    BY <1>3, ReloadAppendedIsOfTheFrame DEF Reload!IInv
  <2>2. Reload!OnePolicy'
    BY <1>1, <2>1 DEF Reload!OnePolicy
  <2>3. v9' \in Seq({Reload!Frame'})
    BY <1>1, <2>1 DEF Reload!Step
  <2>4. Reload!Frame = [ckpt |-> v3, gen |-> v4.gen, weights |-> v3]
    BY <2>1 DEF Reload!OnePolicy, Reload!Frame
  <2>5. Reload!CaptureIsOnePolicy'
    <3>1. CASE event
      <4>1. v10' = [label |-> v3, gen |-> v4.gen, schema |-> v7,
                        frames |-> {Reload!Frame}]
        BY <3>1, <2>1 DEF Reload!Step, Reload!Captured, Reload!Frame
      <4>2. v7 = [ckpt |-> v3, gen |-> v4.gen]
        BY <2>1 DEF Reload!OnePolicy
      <4> QED
        BY <4>1, <4>2, <2>4 DEF Reload!CaptureIsOnePolicy
    <3>2. CASE ~event
      BY <3>2, <1>3 DEF Reload!IInv, Reload!Step, Reload!CaptureIsOnePolicy
    <3> QED
      BY <3>1, <3>2
  <2>6. Reload!ExplanationIsOfItsCheckpoint'
    <3>1. CASE v11 # 0
      <4>1. v12' = Reload!Answer
        BY <3>1 DEF Reload!Step
      <4>2. v12'.ok => v11 = Reload!Frame.ckpt
        BY <4>1, Zenon DEF Reload!Answer
      <4>3. v12'.ckpt = v11 /\ v12'.weights = v5
        BY <4>1 DEF Reload!Answer
      <4> QED
        BY <4>2, <4>3, <2>1, <2>4 DEF Reload!ExplanationIsOfItsCheckpoint, Reload!OnePolicy
    <3>2. CASE v11 = 0
      BY <3>2, <1>3 DEF Reload!IInv, Reload!Step, Reload!ExplanationIsOfItsCheckpoint
    <3> QED
      BY <3>1, <3>2
  <2> QED
    BY <2>2, <2>3, <2>5, <2>6 DEF Reload!IInv
<1> QED
  BY <1>2, <1>3

LEMMA ReloadStepPreserves == ASSUME Reload!IInv, [Reload!Next]_Reload!vars PROVE Reload!IInv'
<1>1. CASE Reload!Commit
  BY <1>1, ReloadCommitKeeps
<1>2. CASE Reload!CommitThenFail
  BY <1>2, ReloadCommitThenFailKeeps
<1>3. ASSUME NEW event \in BOOLEAN, NEW reset \in BOOLEAN, Reload!Step(event, reset) PROVE Reload!IInv'
  BY <1>3, ReloadStepKeeps
<1>4. CASE Reload!Refuse \/ Reload!RefuseLate \/ Reload!Ask \/ \E kind \in Reload!Kinds : Reload!Save(kind)
  BY <1>4, ReloadLoadKeeps
<1>5. CASE Reload!Follow \/ \E c \in 1..Reload!Newest : Reload!Select(c)
  <2>1. \E c, by : Reload!LoadStarts(c, by)
    BY <1>5 DEF Reload!Follow, Reload!Select
  <2> QED
    BY <2>1, ReloadLoadKeeps
<1>6. CASE UNCHANGED Reload!vars
  BY <1>6 DEF Reload!vars, Reload!IInv, Reload!OnePolicy, Reload!Frame,
     Reload!CaptureIsOnePolicy, Reload!ExplanationIsOfItsCheckpoint
<1> QED
  BY <1>1, <1>2, <1>3, <1>4, <1>5, <1>6 DEF Reload!Next

-----------------------------------------------------------------------------
\* Frame (StepFrame): every part of a frame stems from the step the loop has finished.
\* Variables: v1 world, v2 term, v3 call, v4 latest, v5 snapshot, v6 observer, v7 frame.

LEMMA FrameInitIInv == Frame!Init => Frame!IInv
<1> SUFFICES ASSUME Frame!Init PROVE Frame!IInv
  OBVIOUS
<1>1. Frame!Records
  BY DEF Frame!Init, Frame!Records, Frame!Moment, Frame!ActionRecord, Frame!Cleared,
     Frame!NoState, Frame!NoMoment, Frame!FreshPolicy, Frame!Nothing
<1>2. Frame!TapsFollowTheStep /\ Frame!TiltIsOfTheLife
  BY DEF Frame!Init, Frame!TapsFollowTheStep, Frame!TiltIsOfTheLife, Frame!Stepped,
     Frame!NoMoment
<1>3. Frame!Counters
  BY FrameParameters DEF Frame!Init, Frame!Counters, Frame!Cleared, Frame!FreshPolicy,
     Frame!Nothing
<1>4. Frame!FrameIsOfOneStep
  BY DEF Frame!Init, Frame!FrameIsOfOneStep
<1> QED
  BY <1>1, <1>2, <1>3, <1>4 DEF Frame!IInv

LEMMA FrameClampIsInt == ASSUME NEW v \in Int, NEW l \in Int PROVE Frame!Clamp(v, l) \in Int
BY DEF Frame!Clamp

LEMMA FrameActKeeps ==
  ASSUME Frame!IInv, NEW output \in Outputs, NEW due \in Frame!Due, Frame!Act(output, due) PROVE Frame!IInv'
<1>1. /\ v3.at = "idle" /\ v3.seq < MaxCalls
      /\ v3' = [v3 EXCEPT !.at = "acted", !.seq = @ + 1]
      /\ v4' = [v4 EXCEPT !.seq = v3'.seq, !.obs = v1, !.output = output,
                              !.jacobian = IF due THEN v3'.seq ELSE @]
      /\ UNCHANGED <<v1, v2, v5, v6, v7>>
  BY DEF Frame!Act
<1>2. /\ v3'.at = "acted" /\ v3'.seq = v3.seq + 1 /\ v3'.raised = v3.raised
      /\ v3.seq \in Nat
  BY <1>1 DEF Frame!IInv, Frame!Records
<1>3. /\ v4'.seq = v3'.seq /\ v4'.obs = v1
      /\ v4'.jacobian \in 1..v3'.seq
  <2>1. ~due => v4.jacobian # 0
    BY DEF Frame!Due, Frame!Nothing
  <2> QED
    BY <1>1, <1>2, <2>1 DEF Frame!IInv, Frame!Records, Frame!Counters
<1>4. Frame!Records'
  <2>1. v4' \in [gen : Nat, seq : Nat, obs : Frame!Moment, output : Int, jacobian : Nat]
    <3>1. v4' = [gen |-> v4.gen, seq |-> v3'.seq, obs |-> v1, output |-> output,
                     jacobian |-> v4'.jacobian]
      BY <1>1 DEF Frame!IInv, Frame!Records
    <3> QED
      BY <3>1, <1>2, <1>3, FrameParameters DEF Frame!IInv, Frame!Records
  <2>2. v3' \in [at : {"idle", "acted"} \cup Frame!Stepped, seq : Nat, raised : BOOLEAN]
    <3>1. v3' = [at |-> "acted", seq |-> v3.seq + 1, raised |-> v3.raised]
      BY <1>1 DEF Frame!IInv, Frame!Records
    <3> QED
      BY <3>1 DEF Frame!IInv, Frame!Records
  <2> QED
    BY <2>1, <2>2, <1>1 DEF Frame!IInv, Frame!Records
<1>5. Frame!TapsFollowTheStep'
  BY <1>1, <1>2, <1>3 DEF Frame!TapsFollowTheStep, Frame!Stepped
<1>6. Frame!TiltIsOfTheLife'
  BY <1>1, <1>2 DEF Frame!IInv, Frame!TiltIsOfTheLife, Frame!Stepped
<1>7. Frame!Counters'
  BY <1>1, <1>2, <1>3, FrameParameters DEF Frame!IInv, Frame!Records, Frame!Counters,
     Frame!Moment
<1>8. Frame!FrameIsOfOneStep'
  BY <1>1 DEF Frame!IInv, Frame!FrameIsOfOneStep
<1> QED
  BY <1>4, <1>5, <1>7, <1>8, <1>6 DEF Frame!IInv

LEMMA FrameAdvanceKeeps == ASSUME Frame!IInv, Frame!Advance PROVE Frame!IInv'
<1>1. /\ v3.at = "acted" /\ v3' = [v3 EXCEPT !.at = "advanced"]
      /\ v2' = [seq |-> v3.seq, value |-> Frame!Limited(Frame!Wrapped(v4.output))]
      /\ v5' = v2'
      /\ v6' = [v6 EXCEPT !.terminal = Frame!NoState]
      /\ v1' = [v1 EXCEPT !.age = @ + 1]
      /\ UNCHANGED <<v4, v7>>
  BY DEF Frame!Advance
<1>2. Frame!Limited(Frame!Wrapped(v4.output)) \in Int
  BY FrameClampIsInt, FrameParameters DEF Frame!Limited, Frame!Wrapped, Frame!IInv,
     Frame!Records
<1>3. Frame!Records'
  BY <1>1, <1>2 DEF Frame!IInv, Frame!Records, Frame!Moment, Frame!ActionRecord,
     Frame!Stepped, Frame!NoState, Frame!NoMoment
<1>4. Frame!TapsFollowTheStep'
  BY <1>1 DEF Frame!IInv, Frame!Records, Frame!TapsFollowTheStep, Frame!Stepped, Frame!Moment
<1>5. Frame!TiltIsOfTheLife'
  BY <1>1 DEF Frame!IInv, Frame!Records, Frame!TiltIsOfTheLife, Frame!Stepped, Frame!Moment
<1>6. Frame!Counters'
  BY <1>1, FrameParameters DEF Frame!IInv, Frame!Records, Frame!Counters, Frame!Moment,
     Frame!Stepped
<1>7. Frame!FrameIsOfOneStep'
  BY <1>1 DEF Frame!IInv, Frame!FrameIsOfOneStep
<1> QED
  BY <1>3, <1>4, <1>5, <1>6, <1>7 DEF Frame!IInv

LEMMA FrameTerminateKeeps == ASSUME Frame!IInv, NEW ends \in BOOLEAN, Frame!Terminate(ends) PROVE Frame!IInv'
<1>1. /\ v3.at = "advanced" /\ v3'.at \in {"ended", "running"}
      /\ v3' = [v3 EXCEPT !.at = v3'.at]
      /\ v6' = [v6 EXCEPT !.terminal = Frame!StateAt(v1)]
      /\ UNCHANGED <<v1, v2, v4, v5, v7>>
  BY DEF Frame!Terminate, Frame!IInv, Frame!Records
<1>2. Frame!StateAt(v1) \in [at : Frame!Moment, since : Frame!Moment]
  BY DEF Frame!StateAt, Frame!Since, Frame!NoMoment, Frame!Moment, Frame!IInv, Frame!Records
<1>3. Frame!StateAt(v1)' = Frame!StateAt(v1)
  BY <1>1 DEF Frame!StateAt, Frame!Since, Frame!IInv, Frame!Records
<1>4. Frame!Records'
  BY <1>1, <1>2 DEF Frame!IInv, Frame!Records, Frame!Stepped
<1>5. Frame!TapsFollowTheStep'
  BY <1>1, <1>3 DEF Frame!IInv, Frame!Records, Frame!TapsFollowTheStep, Frame!Stepped
<1>6. Frame!TiltIsOfTheLife' /\ Frame!Counters'
  BY <1>1 DEF Frame!IInv, Frame!Records, Frame!TiltIsOfTheLife, Frame!Counters, Frame!Stepped
<1>7. Frame!FrameIsOfOneStep'
  BY <1>1 DEF Frame!IInv, Frame!FrameIsOfOneStep
<1> QED
  BY <1>4, <1>5, <1>6, <1>7 DEF Frame!IInv

LEMMA FrameRewardKeeps == ASSUME Frame!IInv, Frame!Reward PROVE Frame!IInv'
<1>1. /\ v3.at \in {"ended", "running"}
      /\ v6' = [v6 EXCEPT !.rewarded = v3.seq]
      /\ UNCHANGED <<v1, v2, v3, v4, v5, v7>>
  BY DEF Frame!Reward
<1>2. Frame!StateAt(v1)' = Frame!StateAt(v1)
  BY <1>1 DEF Frame!StateAt, Frame!Since, Frame!IInv, Frame!Records
<1>3. Frame!Records'
  BY <1>1 DEF Frame!IInv, Frame!Records
<1>4. Frame!TapsFollowTheStep'
  BY <1>1, <1>2 DEF Frame!IInv, Frame!Records, Frame!TapsFollowTheStep
<1>5. Frame!TiltIsOfTheLife' /\ Frame!Counters'
  BY <1>1 DEF Frame!IInv, Frame!Records, Frame!TiltIsOfTheLife, Frame!Counters
<1>6. Frame!FrameIsOfOneStep'
  BY <1>1 DEF Frame!IInv, Frame!FrameIsOfOneStep
<1> QED
  BY <1>3, <1>4, <1>5, <1>6 DEF Frame!IInv

LEMMA FrameRaiseKeeps == ASSUME Frame!IInv, Frame!Raise PROVE Frame!IInv'
<1>1. /\ v3' = [v3 EXCEPT !.at = "idle", !.raised = TRUE]
      /\ UNCHANGED <<v1, v2, v4, v5, v6, v7>>
  BY DEF Frame!Raise
<1>2. v3'.at = "idle" /\ v3'.raised /\ v3'.seq = v3.seq
  BY <1>1 DEF Frame!IInv, Frame!Records
<1>3. Frame!Records'
  BY <1>1 DEF Frame!IInv, Frame!Records
<1>4. Frame!TapsFollowTheStep' /\ Frame!TiltIsOfTheLife' /\ Frame!Counters'
  BY <1>1, <1>2 DEF Frame!IInv, Frame!Records, Frame!Moment, Frame!TapsFollowTheStep,
     Frame!TiltIsOfTheLife, Frame!Counters, Frame!Stepped
<1>5. Frame!FrameIsOfOneStep'
  BY <1>1 DEF Frame!IInv, Frame!FrameIsOfOneStep
<1> QED
  BY <1>3, <1>4, <1>5 DEF Frame!IInv

\* A reset by hand and a reload start a life between two steps.
LEMMA FrameResetKeeps == ASSUME Frame!IInv, Frame!UserReset \/ Frame!Reload PROVE Frame!IInv'
<1>1. /\ v3.at = "idle" /\ v1.life < MaxLives
      /\ v1' = Frame!NextLife /\ v2' = Frame!Cleared
      /\ UNCHANGED <<v3, v5, v6, v7>>
      /\ \/ v4' = v4
         \/ v4' = Frame!FreshPolicy(v4.gen + 1) /\ v4.gen < MaxPolicies
  BY DEF Frame!UserReset, Frame!Reload
<1>2. v1'.life = v1.life + 1 /\ v1'.age = 0 /\ v1' \in Frame!Moment /\ v1.life \in Nat
  BY <1>1 DEF Frame!NextLife, Frame!IInv, Frame!Records, Frame!Moment
<1>3. Frame!Records'
  BY <1>1, <1>2 DEF Frame!IInv, Frame!Records, Frame!Cleared, Frame!Nothing,
     Frame!FreshPolicy, Frame!NoMoment, Frame!Moment, Frame!ActionRecord
<1>4. Frame!TapsFollowTheStep' /\ Frame!TiltIsOfTheLife'
  BY <1>1, <1>2 DEF Frame!IInv, Frame!TapsFollowTheStep, Frame!TiltIsOfTheLife, Frame!Stepped
<1>5. Frame!Counters'
  BY <1>1, <1>2, FrameParameters
  DEF Frame!IInv, Frame!Records, Frame!Counters, Frame!Cleared, Frame!Nothing,
     Frame!FreshPolicy, Frame!Stepped
<1>6. Frame!FrameIsOfOneStep'
  BY <1>1 DEF Frame!IInv, Frame!FrameIsOfOneStep
<1> QED
  BY <1>3, <1>4, <1>5, <1>6 DEF Frame!IInv

\* The frame is put together from what the taps hold: all of the step that ends.
LEMMA FrameFinishKeeps == ASSUME Frame!IInv, Frame!Finish PROVE Frame!IInv'
<1> DEFINE ends == v3.at = "ended"
<1>1. /\ v3.at \in {"ended", "running"} /\ v6.rewarded = v3.seq
      /\ ends => v1.life < MaxLives
      /\ v3' = [v3 EXCEPT !.at = "idle", !.raised = FALSE]
      /\ v1' = IF ends THEN Frame!NextLife ELSE v1
      /\ v2' = IF ends THEN Frame!Cleared ELSE v2
      /\ UNCHANGED <<v4, v5>>
  BY DEF Frame!Finish
<1>2. v6.terminal = Frame!StateAt(v1) /\ Frame!StateAt(v1) # Frame!NoState
  BY <1>1 DEF Frame!IInv, Frame!TapsFollowTheStep, Frame!StateAt, Frame!NoState,
     Frame!NoMoment, Frame!Records, Frame!Moment
<1>3. /\ v7' = Frame!Frame(Frame!StateAt(v1), ends, v2')
      /\ v6' =
           IF ends
           THEN [v6 EXCEPT !.episode = @ + 1, !.tilt = Frame!NoMoment, !.tiltEpisode = -1]
           ELSE [v6 EXCEPT !.tilt = v1, !.tiltEpisode = v6.episode]
  BY <1>2 DEF Frame!Finish, Frame!StateAt
<1> HIDE DEF ends
<1>4. v3'.at = "idle" /\ v3'.raised = FALSE /\ v3'.seq = v3.seq /\ v3.seq \in Nat
  BY <1>1 DEF Frame!IInv, Frame!Records
<1>5. v1' = v1 \/ (v1'.life = v1.life + 1 /\ v1'.age = 0 /\ v1' \in Frame!Moment)
  BY <1>1 DEF Frame!NextLife, Frame!IInv, Frame!Records, Frame!Moment
<1>6. Frame!Records'
  <2>1. CASE ends
    <3>1. v6' \in [episode : Nat, tilt : Frame!Moment, tiltEpisode : Int,
                         terminal : [at : Frame!Moment, since : Frame!Moment], rewarded : Nat]
      <4>1. v6' = [episode |-> v6.episode + 1, tilt |-> Frame!NoMoment, tiltEpisode |-> -1,
                         terminal |-> v6.terminal, rewarded |-> v6.rewarded]
        BY <2>1, <1>3 DEF Frame!IInv, Frame!Records
      <4> QED
        BY <4>1 DEF Frame!IInv, Frame!Records, Frame!NoMoment, Frame!Moment
    <3>2. v1' \in Frame!Moment /\ v1'.life >= 1 /\ v2' \in Frame!ActionRecord
      BY <2>1, <1>1 DEF Frame!IInv, Frame!Records, Frame!NextLife, Frame!Cleared,
         Frame!Nothing, Frame!Moment, Frame!ActionRecord
    <3>3. v3' \in [at : {"idle", "acted"} \cup Frame!Stepped, seq : Nat, raised : BOOLEAN]
      BY <1>1 DEF Frame!IInv, Frame!Records
    <3> QED
      BY <3>1, <3>2, <3>3, <1>1 DEF Frame!IInv, Frame!Records
  <2>2. CASE ~ends
    <3>1. v6' \in [episode : Nat, tilt : Frame!Moment, tiltEpisode : Int,
                         terminal : [at : Frame!Moment, since : Frame!Moment], rewarded : Nat]
      <4>1. v6' = [episode |-> v6.episode, tilt |-> v1,
                         tiltEpisode |-> v6.episode, terminal |-> v6.terminal,
                         rewarded |-> v6.rewarded]
        BY <2>2, <1>3 DEF Frame!IInv, Frame!Records
      <4> QED
        BY <4>1 DEF Frame!IInv, Frame!Records
    <3>2. v1' = v1 /\ v2' = v2
      BY <2>2, <1>1
    <3>3. v3' \in [at : {"idle", "acted"} \cup Frame!Stepped, seq : Nat, raised : BOOLEAN]
      BY <1>1 DEF Frame!IInv, Frame!Records
    <3> QED
      BY <3>1, <3>2, <3>3, <1>1 DEF Frame!IInv, Frame!Records
  <2> QED
    BY <2>1, <2>2
<1>7. Frame!TapsFollowTheStep'
  BY <1>4 DEF Frame!TapsFollowTheStep, Frame!Stepped
<1>8. Frame!TiltIsOfTheLife'
  <2>1. CASE ends
    BY <2>1, <1>3 DEF Frame!IInv, Frame!Records, Frame!TiltIsOfTheLife
  <2>2. CASE ~ends
    BY <2>2, <1>1, <1>3 DEF Frame!IInv, Frame!Records, Frame!TiltIsOfTheLife
  <2> QED
    BY <2>1, <2>2
<1>9. Frame!Counters'
  <2>1. CASE ends
    BY <2>1, <1>1, <1>3, <1>4, FrameParameters
    DEF Frame!IInv, Frame!Records, Frame!Counters, Frame!NextLife, Frame!Cleared,
       Frame!Nothing, Frame!Moment
  <2>2. CASE ~ends
    BY <2>2, <1>1, <1>3, <1>4 DEF Frame!IInv, Frame!Records, Frame!Counters
  <2> QED
    BY <2>1, <2>2
<1>10. Frame!FrameIsOfOneStep'
  <2> DEFINE f == Frame!Frame(Frame!StateAt(v1), ends, v2')
  <2>1. /\ v4.seq = v3.seq /\ v4.jacobian \in 1..v3.seq
        /\ v1 = [v4.obs EXCEPT !.age = @ + 1]
        /\ v5 = [seq |-> v3.seq, value |-> Frame!Limited(Frame!Wrapped(v4.output))]
        /\ v4.output \in Int /\ v4.obs \in Frame!Moment
    BY <1>1 DEF Frame!IInv, Frame!Records, Frame!TapsFollowTheStep, Frame!Stepped
  <2>2. f.state.at = [f.obs EXCEPT !.age = @ + 1]
    BY <2>1 DEF Frame!Frame, Frame!StateAt
  <2>3. f.state.since # Frame!NoMoment /\ ~f.raised => f.state.since.life = f.obs.life
    <3>1. f.state.since = Frame!Since(v1) /\ f.raised = v3.raised /\ f.obs = v4.obs
      BY DEF Frame!Frame, Frame!StateAt
    <3>2. ASSUME Frame!Since(v1) # Frame!NoMoment, ~v3.raised PROVE Frame!Since(v1).life = v1.life
      <4>1. ~(v6.tiltEpisode # v6.episode) /\ ~(v1.age <= 1)
            /\ Frame!Since(v1) = v6.tilt
        BY <3>2 DEF Frame!Since
      <4> QED
        BY <4>1, <3>2, <1>1 DEF Frame!IInv, Frame!TiltIsOfTheLife, Frame!Stepped
    <3>3. v1.life = v4.obs.life
      BY <2>1 DEF Frame!Moment
    <3> HIDE DEF f
    <3> QED
      BY <3>1, <3>2, <3>3
  <2>4. f.reward = f.seq /\ f.jacobian \in 1..f.seq /\ f.age = f.seq - f.jacobian
    BY <2>1, <1>1 DEF Frame!Frame
  <2>5. /\ f.action.seq = f.seq
        /\ f.action.clipped[1] <=> Frame!Wrapped(v4.output) # v4.output
        /\ f.action.clipped[2]
             <=> Frame!Limited(Frame!Wrapped(v4.output)) # Frame!Wrapped(v4.output)
        /\ f.output = v4.output
    BY <2>1 DEF Frame!Frame, Frame!Pipeline
  <2>6. /\ Frame!Wrapped(v4.output) # v4.output <=> v4.output > WrapperClip
        /\ Frame!Limited(Frame!Wrapped(v4.output)) # Frame!Wrapped(v4.output)
             <=> Frame!Clamp(v4.output, WrapperClip) > 1
    BY <2>1, FrameParameters DEF Frame!Wrapped, Frame!Limited, Frame!Clamp
  <2> HIDE DEF f
  <2> QED
    BY <1>3, <2>2, <2>3, <2>4, <2>5, <2>6 DEF Frame!FrameIsOfOneStep, f
<1> QED
  BY <1>6, <1>7, <1>8, <1>9, <1>10 DEF Frame!IInv

LEMMA FrameStepPreserves == ASSUME Frame!IInv, [Frame!Next]_Frame!vars PROVE Frame!IInv'
<1>1. CASE UNCHANGED Frame!vars
  <2>1. Frame!Records' /\ Frame!Counters' /\ Frame!FrameIsOfOneStep'
    BY <1>1 DEF Frame!vars, Frame!IInv, Frame!Records, Frame!Counters, Frame!FrameIsOfOneStep
  <2>2. Frame!TapsFollowTheStep' /\ Frame!TiltIsOfTheLife'
    BY <1>1 DEF Frame!vars, Frame!IInv, Frame!TapsFollowTheStep, Frame!TiltIsOfTheLife,
       Frame!StateAt, Frame!Since
  <2> QED
    BY <2>1, <2>2 DEF Frame!IInv
<1> QED
  BY <1>1, FrameActKeeps, FrameAdvanceKeeps, FrameTerminateKeeps, FrameRewardKeeps,
     FrameFinishKeeps, FrameRaiseKeeps,
     FrameResetKeeps
  DEF Frame!Next

-----------------------------------------------------------------------------
\* Capture (EventCapture): the marks of the detector point at frames of this episode.
\* Variables: v1 frames, v2 since, v3 buffer, v4 event, v5 artifacts, v6 summaries,
\*   v7 recorder.

\* Finite sets, in the instance and in the library.
LEMMA CaptureFinite ==
  \A S : (Capture!IsFiniteSet(S) <=> IsFiniteSet(S)) /\ Capture!Cardinality(S) = Cardinality(S)
BY Zenon DEF Capture!IsFiniteSet, IsFiniteSet, Capture!Cardinality, Cardinality

LEMMA CaptureInitIInv == Capture!Init => Capture!IInv
<1> SUFFICES ASSUME Capture!Init PROVE Capture!IInv
  OBVIOUS
<1>1. /\ v1 = <<>> /\ v2 = Capture!Calm /\ v3 = <<>> /\ v4 = "none"
      /\ v5 = {} /\ v6 = {} /\ v7 = Capture!Idle
      /\ Capture!Now = 0 /\ Len(v3) = 0
  BY DEF Capture!Init, Capture!Now
<1>2. Capture!TypeOK
  BY <1>1, CaptureParameters DEF Capture!TypeOK, Capture!Calm, Capture!Idle
<1> QED
  BY <1>1, <1>2 DEF Capture!IInv, Capture!Marks, Capture!EpisodesAreCounted,
     Capture!RecoveryIsReal, Capture!NewestIsKept, Capture!WorksOnAFrame,
     Capture!Calm, Capture!Idle

\* What the detector makes of a frame, by cases.
LEMMA CaptureDetectCases ==
  ASSUME Capture!IInv, NEW f \in Capture!FrameRecord, NEW n \in Nat \ {0}, f.state = "fallen" => f.ends
  PROVE  /\ Capture!Detect(f, n).event \in {"none", "fall", "recovery"}
         /\ Capture!Detect(f, n).event = "recovery" =>
              /\ ~f.ends /\ v2.unstable # 0 /\ f.state = "stable"
              /\ Capture!Held([v2 EXCEPT !.stable = IF @ = 0 THEN n ELSE @], n)
         /\ ~f.ends =>
              \/ Capture!Detect(f, n).since = Capture!Calm
              \/ Capture!Detect(f, n).since = [Capture!Calm EXCEPT !.unstable = n] /\ f.state = "unstable"
              \/ v2.unstable # 0 /\ Capture!Detect(f, n).since = [v2 EXCEPT !.stable = 0]
              \/ /\ v2.unstable # 0 /\ f.state = "stable"
                 /\ Capture!Detect(f, n).since = [v2 EXCEPT !.stable = IF @ = 0 THEN n ELSE @]
<1> DEFINE state == f.state
           ends == f.ends
           d == Capture!Detect(f, n)
<1>1. state \in Capture!States /\ ends \in BOOLEAN
  BY DEF Capture!FrameRecord
<1>2. CASE state = "fallen"
  <2>1. d = [since |-> Capture!Calm, event |-> "fall"]
    BY <1>2 DEF Capture!Detect
  <2> QED
    BY <2>1, <1>2
<1>3. CASE state # "fallen" /\ ends
  <2>1. d = [since |-> Capture!Calm, event |-> "none"]
    BY <1>3 DEF Capture!Detect
  <2> QED
    BY <2>1, <1>3
<1>4. CASE state # "fallen" /\ ~ends
  <2> DEFINE s == [v2 EXCEPT !.stable = IF @ = 0 THEN n ELSE @]
  <2>1. d = IF v2.unstable = 0
            THEN [since |-> [Capture!Calm EXCEPT !.unstable = IF state = "unstable" THEN n ELSE 0],
                  event |-> "none"]
            ELSE IF state # "stable"
            THEN [since |-> [v2 EXCEPT !.stable = 0], event |-> "none"]
            ELSE IF Capture!Held(s, n) THEN [since |-> Capture!Calm, event |-> "recovery"]
                 ELSE [since |-> s, event |-> "none"]
    BY <1>4 DEF Capture!Detect
  <2>2. [Capture!Calm EXCEPT !.unstable = 0] = Capture!Calm
    BY DEF Capture!Calm
  <2>3. CASE v2.unstable = 0
    <3>1. CASE state = "unstable"
      <4>1. d = [since |-> [Capture!Calm EXCEPT !.unstable = n], event |-> "none"]
        BY <2>1, <2>3, <3>1
      <4> QED
        BY <4>1, <3>1
    <3>2. CASE state # "unstable"
      <4>1. d = [since |-> Capture!Calm, event |-> "none"]
        BY <2>1, <2>2, <2>3, <3>2
      <4> QED
        BY <4>1
    <3> QED
      BY <3>1, <3>2
  <2>4. CASE v2.unstable # 0 /\ state # "stable"
    <3>1. d = [since |-> [v2 EXCEPT !.stable = 0], event |-> "none"]
      BY <2>1, <2>4
    <3> QED
      BY <3>1, <2>4
  <2>5. CASE v2.unstable # 0 /\ state = "stable"
    <3>1. CASE Capture!Held(s, n)
      <4>1. d = [since |-> Capture!Calm, event |-> "recovery"]
        BY <2>1, <2>5, <3>1
      <4> QED
        BY <4>1, <2>5, <1>4, <3>1
    <3>2. CASE ~Capture!Held(s, n)
      <4>1. d = [since |-> s, event |-> "none"]
        BY <2>1, <2>5, <3>2
      <4> QED
        BY <4>1, <2>5
    <3> QED
      BY <3>1, <3>2
  <2> QED
    BY <2>3, <2>4, <2>5
<1> QED
  BY <1>2, <1>3, <1>4

\* The buffer takes the new frame and stays within its capacity.
LEMMA CaptureKeptTypes ==
  ASSUME Capture!IInv
  PROVE  Capture!Kept(Capture!Now + 1) \in Seq(1..Capture!Now + 1) /\ Len(Capture!Kept(Capture!Now + 1)) <= Capacity
<1> DEFINE n == Capture!Now + 1
           b == Append(v3, n)
<1>1. n \in 1..n /\ v3 \in Seq(1..n) /\ Len(v3) \in Nat /\ Len(v3) <= Capacity
  <2>1. v3 \in Seq(1..Capture!Now) /\ Capture!Now \in Nat /\ Len(v3) <= Capacity
    BY DEF Capture!IInv, Capture!TypeOK, Capture!Now
  <2>2. 1..Capture!Now \subseteq 1..n
    BY <2>1
  <2> QED
    BY <2>1, <2>2
<1> HIDE DEF n
<1>2. b \in Seq(1..n) /\ b # <<>> /\ Len(b) = Len(v3) + 1
  BY <1>1
<1>3. Tail(b) \in Seq(1..n) /\ Len(Tail(b)) = Len(v3)
  BY <1>1, <1>2
<1>4. Capture!Kept(n) \in Seq(1..n) /\ Len(Capture!Kept(n)) <= Capacity
  <2> HIDE DEF b
  <2>1. Capture!Kept(n) = IF Len(b) > Capacity THEN Tail(b) ELSE b
    BY DEF Capture!Kept, b
  <2>2. CASE Len(b) > Capacity
    BY <2>1, <2>2, <1>1, <1>3
  <2>3. CASE ~(Len(b) > Capacity)
    <3>1. Capture!Kept(n) = b
      BY <2>1, <2>3
    <3>2. Len(b) <= Capacity
      BY <2>3, <1>1, <1>2, CaptureParameters
    <3> QED
      BY <3>1, <3>2, <1>2
  <2> QED
    BY <2>2, <2>3
<1> QED
  BY <1>4 DEF n

LEMMA CaptureStepKeeps ==
  ASSUME Capture!IInv, NEW state \in Capture!States, NEW ends \in BOOLEAN, state = "fallen" => ends,
         Capture!Step(state, ends)
  PROVE  Capture!IInv'
<1> DEFINE n == Capture!Now + 1
           f == [state |-> state, ends |-> ends, episode |-> Capture!Episode]
           d == Capture!Detect(f, n)
<1>1. /\ v7 = Capture!Idle /\ Capture!Now < MaxFrames /\ Capture!Now \in Nat /\ n \in Nat \ {0}
      /\ v1 \in Seq(Capture!FrameRecord) /\ Len(v1) = Capture!Now
      /\ \A i \in 1..Capture!Now : v1[i] \in Capture!FrameRecord
      /\ v2 \in [unstable : 0..Capture!Now, stable : 0..Capture!Now]
  BY DEF Capture!Step, Capture!IInv, Capture!TypeOK, Capture!Now
<1>2. Capture!Episode \in 1..n /\ Capture!Episode \in 1..MaxFrames
  BY <1>1, CaptureParameters DEF Capture!Episode, Capture!FrameRecord, Capture!IInv,
     Capture!EpisodesAreCounted
<1>3. /\ v1' = Append(v1, f) /\ v4' = d.event
      /\ v2' = IF ends THEN Capture!Calm ELSE d.since
      /\ v3' = IF ends THEN <<>> ELSE Capture!Kept(n)
      /\ \/ v5' = v5 /\ v7' = v7
         \/ v5' = v5 \cup {n} /\ v7' = [at |-> "summary", frame |-> n]
      /\ v6' = v6
  BY DEF Capture!Step
<1>4. f \in Capture!FrameRecord /\ f.state = state /\ f.ends = ends /\ f.episode = Capture!Episode
  BY <1>2 DEF Capture!FrameRecord
<1> HIDE DEF f
<1>5. /\ d.event \in {"none", "fall", "recovery"}
      /\ d.event = "recovery" =>
           /\ ~ends /\ v2.unstable # 0 /\ state = "stable"
           /\ Capture!Held([v2 EXCEPT !.stable = IF @ = 0 THEN n ELSE @], n)
      /\ ~ends =>
           \/ d.since = Capture!Calm
           \/ d.since = [Capture!Calm EXCEPT !.unstable = n] /\ state = "unstable"
           \/ v2.unstable # 0 /\ d.since = [v2 EXCEPT !.stable = 0]
           \/ /\ v2.unstable # 0 /\ state = "stable"
              /\ d.since = [v2 EXCEPT !.stable = IF @ = 0 THEN n ELSE @]
  <2> HIDE DEF n
  <2>1. d = Capture!Detect(f, n)
    OBVIOUS
  <2> HIDE DEF d
  <2> QED
    BY <2>1, <1>1, <1>4, CaptureDetectCases
<1> HIDE DEF d
<1>6. /\ v1' \in Seq(Capture!FrameRecord) /\ Capture!Now' = n /\ Len(v1') = n
      /\ \A i \in 1..Capture!Now : v1'[i] = v1[i]
      /\ v1'[n] = f
  BY <1>1, <1>3, <1>4 DEF Capture!Now
<1>7. ~ends => Capture!Episode' = Capture!Episode
  <2>1. Capture!Episode' = v1'[n].episode + (IF v1'[n].ends THEN 1 ELSE 0)
    BY <1>1, <1>6 DEF Capture!Episode
  <2> QED
    BY <2>1, <1>2, <1>4, <1>6
<1>8. v2' \in [unstable : 0..n, stable : 0..n]
  <2>1. Capture!Calm \in [unstable : 0..n, stable : 0..n]
    BY <1>1 DEF Capture!Calm
  <2>2. [Capture!Calm EXCEPT !.unstable = n] \in [unstable : 0..n, stable : 0..n]
    BY <1>1 DEF Capture!Calm
  <2>3. v2 \in [unstable : 0..n, stable : 0..n]
    BY <1>1
  <2>4. [v2 EXCEPT !.stable = 0] \in [unstable : 0..n, stable : 0..n]
    BY <1>1, <2>3
  <2>5. [v2 EXCEPT !.stable = IF @ = 0 THEN n ELSE @] \in [unstable : 0..n, stable : 0..n]
    BY <1>1, <2>3
  <2> HIDE DEF n
  <2> QED
    BY <2>1, <2>2, <2>4, <2>5, <1>3, <1>5
<1>9. Capture!TypeOK'
  <2>1. v3' \in Seq(1..n) /\ Len(v3') <= Capacity
    <3>1. Capture!Kept(n) \in Seq(1..n) /\ Len(Capture!Kept(n)) <= Capacity
      BY CaptureKeptTypes
    <3>2. <<>> \in Seq(1..n) /\ Len(<<>>) <= Capacity
      BY CaptureParameters
    <3> HIDE DEF n
    <3> QED
      BY <3>1, <3>2, <1>3
  <2>2. v5' \cup v6' \subseteq 1..n
    BY <1>1, <1>3 DEF Capture!IInv, Capture!TypeOK
  <2>3. v7' \in [at : {"idle", "summary", "retention", "unlink"}, frame : 0..n]
    BY <1>1, <1>3 DEF Capture!Idle
  <2> QED
    <3>1. v4' \in {"none", "fall", "recovery"} /\ n <= MaxFrames
      BY <1>1, <1>3, <1>5, CaptureParameters
    <3> HIDE DEF n
    <3> QED
      BY <1>6, <1>8, <2>1, <2>2, <2>3, <3>1 DEF Capture!TypeOK
<1>10. Capture!Marks'
  <2>1. CASE v2' = Capture!Calm
    BY <2>1 DEF Capture!Marks, Capture!Calm
  <2>2. CASE v2' = [Capture!Calm EXCEPT !.unstable = n] /\ state = "unstable" /\ ~ends
    BY <2>2, <1>1, <1>4, <1>6, <1>7 DEF Capture!Marks, Capture!Calm
  <2>3. CASE v2.unstable # 0 /\ v2' = [v2 EXCEPT !.stable = 0] /\ ~ends
    <3>1. v2'.unstable = v2.unstable /\ v2'.stable = 0 /\ v2.unstable \in 1..Capture!Now
      BY <2>3, <1>1
    <3> QED
      BY <3>1, <2>3, <1>6, <1>7 DEF Capture!Marks, Capture!IInv
  <2>4. CASE /\ v2.unstable # 0 /\ state = "stable" /\ ~ends
             /\ v2' = [v2 EXCEPT !.stable = IF @ = 0 THEN n ELSE @]
    <3>1. /\ v2'.unstable = v2.unstable /\ v2.unstable \in 1..Capture!Now
          /\ v2'.stable = IF v2.stable = 0 THEN n ELSE v2.stable
      BY <2>4, <1>1
    <3>2. /\ v1'[v2'.unstable].state = "unstable"
          /\ v1'[v2'.unstable].episode = Capture!Episode'
      BY <3>1, <2>4, <1>6, <1>7 DEF Capture!Marks, Capture!IInv
    <3>3. v2'.unstable < v2'.stable
      BY <3>1, <1>1 DEF Capture!Marks, Capture!IInv
    <3>4. ASSUME NEW i \in v2'.stable..n PROVE v1'[i].state = "stable"
      <4>1. CASE i = n
        BY <4>1, <1>4, <1>6, <2>4
      <4>2. CASE i # n
        BY <4>2, <3>1, <1>1, <1>6 DEF Capture!Marks, Capture!IInv
      <4> QED
        BY <4>1, <4>2
    <3> QED
      BY <3>1, <3>2, <3>3, <3>4, <2>4, <1>6 DEF Capture!Marks
  <2> QED
    BY <2>1, <2>2, <2>3, <2>4, <1>3, <1>5
<1>11. Capture!EpisodesAreCounted'
  BY <1>1, <1>2, <1>4, <1>6 DEF Capture!EpisodesAreCounted, Capture!IInv
<1>12. Capture!RecoveryIsReal'
  <2> SUFFICES ASSUME d.event = "recovery"
               PROVE  \E u \in 1..n :
                        /\ v1'[u].state = "unstable"
                        /\ v1'[u].episode = v1'[n].episode
                        /\ \A i \in (n - DwellFrames)..n : u < i /\ v1'[i].state = "stable"
    BY <1>3, <1>6 DEF Capture!RecoveryIsReal
  <2> DEFINE s == IF v2.stable = 0 THEN n ELSE v2.stable
  <2>1. /\ v2.unstable # 0 /\ state = "stable" /\ v2.unstable \in 1..Capture!Now
        /\ n - s >= DwellFrames /\ v2.unstable < s /\ s \in Nat
    BY <1>1, <1>5 DEF Capture!Held, Capture!Marks, Capture!IInv
  <2>2. /\ v1'[v2.unstable].state = "unstable"
        /\ v1'[v2.unstable].episode = v1'[n].episode
    BY <2>1, <1>4, <1>6 DEF Capture!Marks, Capture!IInv
  <2>3. ASSUME NEW i \in (n - DwellFrames)..n
        PROVE  v2.unstable < i /\ v1'[i].state = "stable"
    <3>1. i >= s
      BY <2>1, <1>1, CaptureParameters
    <3>2. CASE i = n
      BY <3>1, <3>2, <2>1, <1>4, <1>6
    <3>3. CASE i # n
      BY <3>1, <3>3, <2>1, <1>1, <1>6, CaptureParameters DEF Capture!Marks, Capture!IInv
    <3> QED
      BY <3>2, <3>3
  <2> QED
    BY <2>1, <2>2, <2>3, <1>1
<1>13. Capture!NewestIsKept'
  BY <1>1, <1>3 DEF Capture!NewestIsKept, Capture!Idle
<1>14. Capture!WorksOnAFrame'
  BY <1>1, <1>3 DEF Capture!WorksOnAFrame, Capture!Idle
<1> QED
  BY <1>9, <1>10, <1>11, <1>12, <1>13, <1>14 DEF Capture!IInv

LEMMA CaptureRecorderKeeps ==
  ASSUME Capture!IInv, Capture!WriteSummary \/ Capture!Retain \/ Capture!UnlinkSummary \/ Capture!PersistFails PROVE Capture!IInv'
<1>1. UNCHANGED <<v1, v2, v3, v4>>
  BY DEF Capture!WriteSummary, Capture!Retain, Capture!UnlinkSummary, Capture!PersistFails
<1>2. Capture!Now' = Capture!Now /\ Capture!Episode' = Capture!Episode /\ Capture!Now \in Nat
  BY <1>1 DEF Capture!Now, Capture!Episode, Capture!IInv, Capture!TypeOK
<1>3. Capture!Marks' /\ Capture!EpisodesAreCounted' /\ Capture!RecoveryIsReal'
  BY <1>1, <1>2 DEF Capture!IInv, Capture!Marks, Capture!EpisodesAreCounted,
     Capture!RecoveryIsReal
<1>4. /\ v5 \cup v6 \subseteq 1..Capture!Now
      /\ v7 \in [at : {"idle", "summary", "retention", "unlink"}, frame : 0..Capture!Now]
      /\ v7.at # "idle" => v7.frame \in 1..Capture!Now
  BY <1>2 DEF Capture!IInv, Capture!TypeOK, Capture!WorksOnAFrame
<1>5. /\ v5' \cup v6' \subseteq 1..Capture!Now
      /\ v7' \in [at : {"idle", "summary", "retention", "unlink"}, frame : 0..Capture!Now]
      /\ v7'.at # "idle" => v7'.frame > 0
  <2>1. Capture!Idle \in [at : {"idle", "summary", "retention", "unlink"}, frame : 0..Capture!Now]
    BY <1>2 DEF Capture!Idle
  <2>2. /\ [v7 EXCEPT !.at = "retention"]
             \in [at : {"idle", "summary", "retention", "unlink"}, frame : 0..Capture!Now]
        /\ [v7 EXCEPT !.at = "retention"].frame = v7.frame
    BY <1>4
  <2>3. CASE Capture!WriteSummary
    <3>1. v7.frame \in 1..Capture!Now /\ v6' = v6 \cup {v7.frame}
      BY <2>3, <1>4 DEF Capture!WriteSummary
    <3>2. v5' = v5 /\ v7' = [v7 EXCEPT !.at = "retention"]
      BY <2>3 DEF Capture!WriteSummary
    <3>3. v5' \cup v6' \subseteq 1..Capture!Now
      BY <3>1, <3>2, <1>4
    <3> QED
      BY <3>1, <3>2, <3>3, <2>2, <1>2
  <2>4. CASE Capture!Retain
    <3>1. v6' = v6
      BY <2>4 DEF Capture!Retain
    <3>2. CASE v7' = Capture!Idle /\ UNCHANGED v5
      BY <3>1, <3>2, <2>1, <1>4 DEF Capture!Idle
    <3>3. CASE \E a \in Capture!Stale :
                 v5' = v5 \ {a} /\ v7' = [at |-> "unlink", frame |-> a]
      <4>1. PICK a \in v5 :
              v5' = v5 \ {a} /\ v7' = [at |-> "unlink", frame |-> a]
        BY <3>3 DEF Capture!Stale
      <4>2. a \in 1..Capture!Now /\ a \in 0..Capture!Now /\ a > 0
        BY <1>2, <1>4
      <4>3. v5' \cup v6' \subseteq 1..Capture!Now
        BY <4>1, <3>1, <1>4
      <4> QED
        BY <4>1, <4>2, <4>3
    <3> QED
      BY <2>4, <3>2, <3>3 DEF Capture!Retain
  <2>5. CASE Capture!UnlinkSummary
    <3>1. v7.frame \in 1..Capture!Now /\ v6' = v6 \ {v7.frame}
      BY <2>5, <1>4 DEF Capture!UnlinkSummary
    <3>2. v5' = v5 /\ v7' = [v7 EXCEPT !.at = "retention"]
      BY <2>5 DEF Capture!UnlinkSummary
    <3>3. v5' \cup v6' \subseteq 1..Capture!Now
      BY <3>1, <3>2, <1>4
    <3> QED
      BY <3>1, <3>2, <3>3, <2>2, <1>2
  <2>6. CASE Capture!PersistFails
    BY <2>6, <2>1, <1>4 DEF Capture!PersistFails, Capture!Idle
  <2> QED
    BY <2>3, <2>4, <2>5, <2>6
<1>6. Capture!TypeOK'
  BY <1>1, <1>2, <1>5 DEF Capture!IInv, Capture!TypeOK
<1>7. Capture!NewestIsKept'
  <2>1. CASE Capture!Retain /\ v7'.at = "unlink"
    <3>1. PICK a \in Capture!Stale :
            v5' = v5 \ {a} /\ v7' = [at |-> "unlink", frame |-> a]
      BY <2>1 DEF Capture!Retain, Capture!Idle
    <3> DEFINE newer == {b \in v5 : b > a}
    <3>2. Capture!Cardinality(newer) >= MaxEvents /\ a \in 1..Capture!Now
      BY <3>1 DEF Capture!Stale, Capture!IInv, Capture!TypeOK
    <3>3. newer # {}
      <4>1. Capture!Cardinality({}) = 0
        BY FS_EmptySet, CaptureFinite
      <4> HIDE DEF newer
      <4> QED
        BY <3>2, <4>1, CaptureParameters
    <3>4. PICK b \in v5 : b > a
      BY <3>3
    <3> QED
      BY <3>1, <3>2, <3>4 DEF Capture!NewestIsKept
  <2>2. CASE v7'.at # "unlink"
    BY <2>2 DEF Capture!NewestIsKept
  <2>3. CASE ~Capture!Retain
    <3>1. v7'.at # "unlink"
      BY <2>3 DEF Capture!WriteSummary, Capture!UnlinkSummary, Capture!PersistFails,
         Capture!Idle, Capture!IInv, Capture!TypeOK
    <3> QED
      BY <3>1 DEF Capture!NewestIsKept
  <2> QED
    BY <2>1, <2>2, <2>3
<1> QED
  BY <1>3, <1>5, <1>6, <1>7 DEF Capture!IInv, Capture!WorksOnAFrame

LEMMA CaptureStepPreserves == ASSUME Capture!IInv, [Capture!Next]_Capture!vars PROVE Capture!IInv'
<1>1. CASE UNCHANGED Capture!vars
  <2>1. UNCHANGED <<v1, v2, v3, v4, v5, v6, v7>>
    BY <1>1 DEF Capture!vars
  <2>2. Capture!Now' = Capture!Now /\ Capture!Episode' = Capture!Episode
    BY <2>1 DEF Capture!Now, Capture!Episode
  <2> QED
    BY <2>1, <2>2
    DEF Capture!IInv, Capture!TypeOK, Capture!Marks, Capture!EpisodesAreCounted,
       Capture!RecoveryIsReal, Capture!NewestIsKept,
        Capture!WorksOnAFrame
<1> QED
  BY <1>1, CaptureStepKeeps, CaptureRecorderKeeps DEF Capture!Next

-----------------------------------------------------------------------------
\* Route (WaypointRoute): what the policy drives to, and that a queue is never left
\* behind.
\* Variables: v1 place, v2 active, v3 queued, v4 paused, v5 arrived, v6 dwell, v7 target,
\*   v8 robot, v9 held.

\* How the queue changes: one at the end, or one from its front.
LEMMA RouteAppended ==
  ASSUME NEW S, NEW q \in Seq(S), NEW w
  PROVE  /\ Append(q, w) \in Seq(S \cup {w}) /\ Len(Append(q, w)) = Len(q) + 1
         /\ Len(q) \in Nat /\ Append(q, w)[Len(q) + 1] = w
         /\ \A i \in 1..Len(q) : Append(q, w)[i] = q[i] /\ q[i] \in S
<1>1. q \in Seq(S \cup {w})
  OBVIOUS
<1> QED
  BY <1>1

LEMMA RouteShortened ==
  ASSUME NEW S, NEW q \in Seq(S), q # <<>>
  PROVE  /\ Tail(q) \in Seq(S) /\ Len(Tail(q)) = Len(q) - 1
         /\ Len(q) \in Nat \ {0} /\ Head(q) = q[1] /\ Head(q) \in S
         /\ \A i \in 1..Len(Tail(q)) : Tail(q)[i] = q[i + 1]
OBVIOUS

LEMMA RouteInitIInv == Route!Init => Route!IInv
<1> SUFFICES ASSUME Route!Init PROVE Route!IInv
  OBVIOUS
<1>1. v1 \in Seq(Route!Position) /\ v3 \in Seq(Route!Issued) /\ Len(v3) = 0 /\ Len(v1) = 0
  BY DEF Route!Init
<1>2. {v4, v5} \subseteq BOOLEAN
  BY Zenon DEF Route!Init
<1>3. Route!TypeOK
  BY <1>1, <1>2, RouteParameters DEF Route!Init, Route!TypeOK
<1> QED
  BY <1>1, <1>3 DEF Route!Init, Route!IInv, Route!TargetFollowsTheRoute, Route!RouteIsAlive

\* The waypoint that becomes active is what the policy is told to reach.
LEMMA RouteActivateKeeps ==
  ASSUME Route!IInv, v1' \in Seq(Route!Position), v8' \in Route!Position,
         NEW w \in 1..Len(v1'), Route!Activate(w),
         v3' \in Seq(1..Len(v1')), Len(v3') <= MaxQueued,
         \A i \in 1..Len(v3') : (IF i = 1 THEN w ELSE v3'[i - 1]) < v3'[i]
  PROVE  Route!IInv'
<1>1. v1'[w] \in Route!Position
  BY ElementOfSeq
<1>2. {v4', v5'} \subseteq BOOLEAN
  BY Zenon DEF Route!Activate
<1>3. Route!TypeOK'
  BY <1>1, <1>2, RouteParameters DEF Route!Activate, Route!IInv, Route!TypeOK, Route!Issued
<1>4. Route!TargetFollowsTheRoute' /\ Route!RouteIsAlive'
  BY DEF Route!Activate, Route!TargetFollowsTheRoute, Route!RouteIsAlive
<1> QED
  BY <1>3, <1>4 DEF Route!IInv

\* An accepted waypoint is a position of the arena and gets the next number.
LEMMA RouteIssueTypes ==
  ASSUME Route!IInv, NEW op, NEW p, Route!Issue(op, p)
  PROVE  /\ v1' \in Seq(Route!Position) /\ Len(v1') = Len(v1) + 1 /\ Len(v1) \in Nat
         /\ v8' \in Route!Position
         /\ \A i \in 1..Len(v1) : v1'[i] = v1[i]
<1>1. p \in Route!Position /\ v1 \in Seq(Route!Position) /\ v8 \in Route!Position
  BY DEF Route!Issue, Route!Accepted, Route!IInv, Route!TypeOK
<1> QED
  BY <1>1 DEF Route!Issue

LEMMA RouteSetKeeps == ASSUME Route!IInv, NEW p, Route!Set(p) PROVE Route!IInv'
<1>1. Route!Issue("set", p) /\ Route!Activate(Len(v1')) /\ v3' = <<>>
  BY DEF Route!Set
<1>2. Len(v1') \in 1..Len(v1') /\ v1' \in Seq(Route!Position) /\ v8' \in Route!Position
  BY <1>1, RouteIssueTypes
<1>3. v3' \in Seq(1..Len(v1')) /\ Len(v3') = 0 /\ 0 <= MaxQueued
  BY <1>1, RouteParameters
<1> QED
  BY <1>1, <1>2, <1>3, RouteActivateKeeps

LEMMA RouteQueueKeeps == ASSUME Route!IInv, NEW p, Route!Queue(p) PROVE Route!IInv'
<1>1. Route!Issue("queue", p)
  BY DEF Route!Queue
<1>2. /\ v1' \in Seq(Route!Position) /\ Len(v1') = Len(v1) + 1 /\ Len(v1) \in Nat
      /\ v8' \in Route!Position /\ \A i \in 1..Len(v1) : v1'[i] = v1[i]
  BY <1>1, RouteIssueTypes
<1>3. v3 \in Seq(1..Len(v1)) /\ Len(v3) <= MaxQueued
  BY DEF Route!IInv, Route!TypeOK, Route!Issued
<1>4. CASE v2 = 0 \/ (v5 /\ ~v4)
  <2>1. Route!Activate(Len(v1')) /\ v3' = v3
    BY <1>4, Zenon DEF Route!Queue
  <2>2. v3 = <<>>
    BY <1>4, Zenon DEF Route!IInv, Route!RouteIsAlive
  <2>3. v3' \in Seq(1..Len(v1')) /\ Len(v3') = 0 /\ 0 <= MaxQueued
    BY <2>1, <2>2, RouteParameters
  <2> QED
    BY <2>1, <2>3, <1>2, RouteActivateKeeps
<1>5. CASE ~(v2 = 0 \/ (v5 /\ ~v4))
  <2> DEFINE n == Len(v1) + 1
  <2>1. /\ Len(v3) < MaxQueued /\ v3' = Append(v3, n)
        /\ UNCHANGED <<v2, v4, v5, v6, v7, v9>>
    BY <1>5, <1>2 DEF Route!Queue
  <2>2. /\ v3' \in Seq(1..Len(v1) \cup {n}) /\ Len(v3') = Len(v3) + 1
        /\ Len(v3) \in Nat /\ v3'[Len(v3) + 1] = n
        /\ \A i \in 1..Len(v3) : v3'[i] = v3[i] /\ v3[i] \in 1..Len(v1)
    <3> HIDE DEF n
    <3> QED
      BY <2>1, <1>3, RouteAppended, SMTT(30)
  <2>3. 1..Len(v1) \cup {n} = 1..Len(v1')
    BY <1>2
  <2>4. Route!TypeOK'
    <3>1. v3' \in Seq(Route!Issued') /\ Len(v3') <= MaxQueued
      BY <2>1, <2>2, <2>3, RouteParameters DEF Route!Issued
    <3>2. v2' \in {0} \cup Route!Issued'
      BY <2>1, <1>2 DEF Route!IInv, Route!TypeOK, Route!Issued
    <3> QED
      BY <2>1, <1>2, <3>1, <3>2 DEF Route!IInv, Route!TypeOK
  <2>5. Route!TargetFollowsTheRoute'
    BY <2>1, <1>2 DEF Route!IInv, Route!TypeOK, Route!Issued, Route!TargetFollowsTheRoute
  <2>6. ASSUME NEW i \in 1..Len(v3')
        PROVE  (IF i = 1 THEN v2' ELSE v3'[i - 1]) < v3'[i]
    <3>1. CASE i \in 1..Len(v3)
      BY <3>1, <2>1, <2>2 DEF Route!IInv, Route!RouteIsAlive
    <3>2. CASE i = Len(v3) + 1
      BY <3>2, <2>1, <2>2, <1>2 DEF Route!IInv, Route!TypeOK, Route!Issued
    <3> QED
      BY <3>1, <3>2, <2>2
  <2>7. v2' # 0 /\ (v4' \/ ~v5')
    BY <1>5, <2>1
  <2> QED
    BY <2>4, <2>5, <2>6, <2>7 DEF Route!IInv, Route!RouteIsAlive
<1> QED
  BY <1>4, <1>5

LEMMA RouteCommandsKeep == ASSUME Route!IInv, Route!Hold \/ Route!Resume \/ Route!Cancel \/ Route!Reset PROVE Route!IInv'
<1>1. CASE Route!Hold
  BY <1>1, RouteParameters
  DEF Route!Hold, Route!HoldHere, Route!IInv, Route!TypeOK, Route!Issued,
     Route!TargetFollowsTheRoute, Route!RouteIsAlive
<1>2. CASE Route!Resume
  <2>1. v1[v2] \in Route!Position
    BY <1>2 DEF Route!Resume, Route!IInv, Route!TypeOK, Route!Issued
  <2>2. {v4', v5'} \subseteq BOOLEAN
    BY <1>2, Zenon DEF Route!Resume
  <2> QED
    BY <1>2, <2>1, <2>2, RouteParameters
    DEF Route!Resume, Route!IInv, Route!TypeOK, Route!Issued, Route!TargetFollowsTheRoute,
       Route!RouteIsAlive
<1>3. CASE Route!Cancel \/ Route!Reset
  <2>1. Route!Dropped /\ v8' \in Route!Position
    BY <1>3 DEF Route!Cancel, Route!Reset, Route!IInv, Route!TypeOK
  <2>2. v3' \in Seq(Route!Issued') /\ Len(v3') = 0 /\ 0 <= MaxQueued /\ 0 \in 0..DwellSteps
    BY <2>1, RouteParameters DEF Route!Dropped
  <2>3. v1' = v1 /\ v1 \in Seq(Route!Position)
    BY <2>1 DEF Route!Dropped, Route!IInv, Route!TypeOK
  <2>4. {v4', v5'} \subseteq BOOLEAN
    BY <2>1, Zenon DEF Route!Dropped
  <2>5. Route!TypeOK'
    BY <2>1, <2>2, <2>3, <2>4 DEF Route!Dropped, Route!HoldHere, Route!TypeOK
  <2> QED
    BY <2>1, <2>2, <2>5 DEF Route!Dropped, Route!HoldHere, Route!IInv,
       Route!TargetFollowsTheRoute, Route!RouteIsAlive
<1> QED
  BY <1>1, <1>2, <1>3

\* The dwell is complete: the route goes on with the first of its queue or ends.
LEMMA RouteArriveKeeps ==
  ASSUME Route!IInv, Route!Driving, Route!Arrive, v1' = v1, v8' \in Route!Position PROVE Route!IInv'
<1>1. v3 \in Seq(1..Len(v1)) /\ Len(v3) <= MaxQueued /\ v1' \in Seq(Route!Position)
  BY DEF Route!IInv, Route!TypeOK, Route!Issued
<1>2. CASE v3 # <<>>
  <2>1. Route!Activate(Head(v3)) /\ v3' = Tail(v3)
    BY <1>2, Zenon DEF Route!Arrive
  <2>2. /\ v3' \in Seq(1..Len(v1)) /\ Len(v3') = Len(v3) - 1
        /\ Len(v3) \in Nat \ {0} /\ Head(v3) = v3[1]
        /\ Head(v3) \in 1..Len(v1)
        /\ \A i \in 1..Len(v3') : v3'[i] = v3[i + 1]
    BY <1>1, <1>2, <2>1, RouteShortened
  <2>3. ASSUME NEW i \in 1..Len(v3')
        PROVE  (IF i = 1 THEN Head(v3) ELSE v3'[i - 1]) < v3'[i]
    <3>1. i + 1 \in 1..Len(v3) /\ i + 1 # 1 /\ (i + 1) - 1 = i
      BY <2>2
    <3>2. v3[i] < v3[i + 1]
      BY <3>1 DEF Route!IInv, Route!RouteIsAlive
    <3>3. i # 1 => i - 1 \in 1..Len(v3') /\ (i - 1) + 1 = i
      BY <2>2
    <3> QED
      BY <2>2, <3>2, <3>3
  <2>4. Len(v3') <= MaxQueued
    BY <1>1, <2>2, RouteParameters
  <2> QED
    BY <1>1, <2>1, <2>2, <2>3, <2>4, RouteActivateKeeps
<1>3. CASE v3 = <<>>
  <2>1. /\ v5' = TRUE /\ UNCHANGED <<v2, v3, v4, v7, v9>>
        /\ v6' = DwellSteps /\ v3' = <<>>
    BY <1>3 DEF Route!Arrive
  <2>2. Route!TypeOK'
    BY <1>1, <2>1, RouteParameters DEF Route!IInv, Route!TypeOK, Route!Issued
  <2>3. Len(v3') = 0
    BY <2>1
  <2> QED
    BY <2>1, <2>2, <2>3 DEF Route!IInv, Route!TargetFollowsTheRoute, Route!RouteIsAlive
<1> QED
  BY <1>2, <1>3

LEMMA RouteStepKeeps ==
  ASSUME Route!IInv, NEW p \in Route!Position, NEW still \in BOOLEAN, Route!Step(p, still) PROVE Route!IInv'
<1> DEFINE d == Route!Dwelt(still /\ p = v1[v2])
<1>1. d \in Nat
  BY DEF Route!Dwelt, Route!IInv, Route!TypeOK
<1>2. v8' = p /\ v1' = v1
  BY DEF Route!Step
<1>3. CASE Route!Driving /\ d >= DwellSteps
  <2>1. Route!Arrive
    BY <1>3 DEF Route!Step
  <2> QED
    BY <2>1, <1>2, <1>3, RouteArriveKeeps
<1>4. CASE ~(Route!Driving /\ d >= DwellSteps)
  <2>1. /\ UNCHANGED <<v2, v3, v4, v5, v7, v9>>
        /\ v6' = v6 \/ (v6' = d /\ ~(d >= DwellSteps))
    BY <1>4 DEF Route!Step
  <2>2. v6' \in 0..DwellSteps
    BY <2>1, <1>1, RouteParameters DEF Route!IInv, Route!TypeOK
  <2> HIDE DEF d
  <2> QED
    BY <2>1, <2>2, <1>2
    DEF Route!IInv, Route!TypeOK, Route!Issued, Route!TargetFollowsTheRoute,
       Route!RouteIsAlive
<1> QED
  BY <1>3, <1>4

LEMMA RouteStepPreserves == ASSUME Route!IInv, [Route!Next]_Route!vars PROVE Route!IInv'
<1>1. CASE UNCHANGED Route!vars
  BY <1>1 DEF Route!vars, Route!IInv, Route!TypeOK, Route!Issued,
     Route!TargetFollowsTheRoute, Route!RouteIsAlive
<1> QED
  BY <1>1, RouteSetKeeps, RouteQueueKeeps, RouteCommandsKeep, RouteStepKeeps DEF Route!Next

-----------------------------------------------------------------------------
\* Ipc (ViewerIpc): a slot belongs to the request that made its lock.
\* Variables: v1 lock, v2 made, v3 queueing, v4 files, v5 claimed, v6 served, v7 leaked,
\*   v8 paused.

LEMMA IpcInitIInv == Ipc!Init => Ipc!IInv
<1> SUFFICES ASSUME Ipc!Init PROVE Ipc!IInv
  OBVIOUS
<1>1. /\ v1 = [s \in Ipc!Slots |-> Ipc!None] /\ v2 = [s \in Ipc!Slots |-> 0] /\ v3 = Ipc!AtRest
      /\ v4 = [s \in Ipc!Slots |-> {}] /\ v5 = v4 /\ v6 = v4
      /\ v7 = {} /\ v8 = FALSE
  BY DEF Ipc!Init
<1>2. Ipc!TypeOK
  <2>1. v8 \in BOOLEAN
    BY <1>1, Zenon
  <2> QED
    BY <1>1, <2>1, IpcParameters DEF Ipc!TypeOK, Ipc!AtRest
<1>3. \A s \in Ipc!Slots : v3.slot # s
  BY <1>1 DEF Ipc!AtRest, Ipc!Slots
<1> QED
  BY <1>1, <1>2, <1>3 DEF Ipc!IInv, Ipc!SlotInv

\* A step at one slot leaves the parts of the other slots alone.
LEMMA IpcOtherSlots ==
  ASSUME Ipc!IInv, NEW s \in Ipc!Slots, NEW t \in Ipc!Slots \ {s},
         /\ v1'[t] = v1[t] /\ v2'[t] = v2[t] /\ v4'[t] = v4[t]
         /\ v5'[t] = v5[t],
         v3.slot # t => v3'.slot # t,
         v3.slot \in {s, "none"} \/ v3' = v3
  PROVE  Ipc!SlotInv(t)'
<1>1. v3'.slot = t => v3' = v3
  BY DEF Ipc!Slots
<1> QED
  BY <1>1 DEF Ipc!IInv, Ipc!SlotInv

\* A slot is taken, or refused, by one request at a time.
LEMMA IpcDashboardKeeps ==
  ASSUME Ipc!IInv, NEW s \in Ipc!Slots,
         Ipc!Take(s) \/ Ipc!Name(s) \/ Ipc!NameFails(s) \/ Ipc!Post(s) \/ Ipc!PostFails(s)
  PROVE  Ipc!IInv'
<1>1. Ipc!TypeOK'
  BY IpcParameters
  DEF Ipc!IInv, Ipc!SlotInv, Ipc!TypeOK, Ipc!Take, Ipc!Name, Ipc!NameFails, Ipc!Post,
     Ipc!PostFails, Ipc!AtRest, Ipc!Slots, Ipc!None,
      Ipc!Blank, Ipc!Requests
<1>2. Ipc!SlotInv(s)'
  BY IpcParameters
  DEF Ipc!IInv, Ipc!SlotInv, Ipc!TypeOK, Ipc!Take, Ipc!Name, Ipc!NameFails, Ipc!Post,
     Ipc!PostFails, Ipc!AtRest, Ipc!Slots, Ipc!None,
      Ipc!Blank, Ipc!Requests
<1>3. ASSUME NEW t \in Ipc!Slots \ {s} PROVE Ipc!SlotInv(t)'
  <2>1. /\ v1'[t] = v1[t] /\ v2'[t] = v2[t] /\ v4'[t] = v4[t]
        /\ v5'[t] = v5[t]
    BY DEF Ipc!Take, Ipc!Name, Ipc!NameFails, Ipc!Post, Ipc!PostFails, Ipc!IInv, Ipc!TypeOK
  <2>2. v3.slot # t => v3'.slot # t
    BY DEF Ipc!Take, Ipc!Name, Ipc!NameFails, Ipc!Post, Ipc!PostFails, Ipc!IInv, Ipc!TypeOK,
       Ipc!AtRest, Ipc!Slots
  <2>3. v3.slot \in {s, "none"}
    BY DEF Ipc!Take, Ipc!Name, Ipc!NameFails, Ipc!Post, Ipc!PostFails, Ipc!AtRest
  <2> QED
    BY <2>1, <2>2, <2>3, IpcOtherSlots
<1> QED
  BY <1>1, <1>2, <1>3 DEF Ipc!IInv

\* The worker claims the one request there is, and frees the slot it names.
LEMMA IpcClaimKeeps == ASSUME Ipc!IInv, NEW s \in Ipc!Slots, Ipc!Claim(s) PROVE Ipc!IInv'
<1>1. PICK r \in v4[s] :
        /\ v4' = [v4 EXCEPT ![s] = @ \ {r}]
        /\ v5' = [v5 EXCEPT ![s] = {r}]
  BY DEF Ipc!Claim
<1>2. /\ UNCHANGED <<v1, v2, v3, v6, v7, v8>>
      /\ v4[s] = {r}
  BY <1>1 DEF Ipc!Claim, Ipc!IInv, Ipc!SlotInv
<1> QED
  BY <1>1, <1>2 DEF Ipc!IInv, Ipc!SlotInv, Ipc!TypeOK, Ipc!Slots

LEMMA IpcServeKeeps == ASSUME Ipc!IInv, NEW s \in Ipc!Slots, Ipc!Serve(s) PROVE Ipc!IInv'
<1>1. PICK r \in v5[s] :
        /\ Ipc!Free(s, r)
        /\ v5' = [v5 EXCEPT ![s] = {}]
        /\ v6' = [v6 EXCEPT ![s] = @ \cup {r}]
        /\ UNCHANGED <<v2, v3, v4, v7, v8>>
  BY DEF Ipc!Serve
<1>2. v4[s] = {} /\ v1[s] = r /\ v3.slot # s
  BY <1>1 DEF Ipc!IInv, Ipc!SlotInv
<1> QED
  BY <1>1, <1>2 DEF Ipc!Free, Ipc!IInv, Ipc!SlotInv, Ipc!TypeOK, Ipc!Slots, Ipc!None,
     Ipc!Blank

LEMMA IpcWorkerStopsKeeps == ASSUME Ipc!IInv, Ipc!PublishFails \/ Ipc!Pause PROVE Ipc!IInv'
<1>1. CASE Ipc!PublishFails
  BY <1>1 DEF Ipc!PublishFails, Ipc!IInv, Ipc!SlotInv, Ipc!TypeOK, Ipc!Slots
<1>2. CASE Ipc!Pause
  BY <1>2 DEF Ipc!Pause, Ipc!IInv, Ipc!SlotInv, Ipc!TypeOK
<1> QED
  BY <1>1, <1>2

LEMMA IpcStepPreserves == ASSUME Ipc!IInv, [Ipc!Next]_Ipc!vars PROVE Ipc!IInv'
<1>1. CASE UNCHANGED Ipc!vars
  BY <1>1 DEF Ipc!vars, Ipc!IInv, Ipc!SlotInv, Ipc!TypeOK
<1> QED
  BY <1>1, IpcDashboardKeeps, IpcClaimKeeps, IpcServeKeeps, IpcWorkerStopsKeeps DEF Ipc!Next

-----------------------------------------------------------------------------
\* Inbox (WaypointInbox): the stamps of one queuer's commands grow with their numbers.
\* Variables: v1 clock, v2 stamp, v3 inbox, v4 sent, v5 applied.

\* Finite sets, in the instance and in the library.
LEMMA InboxFinite ==
  \A S : (Inbox!IsFiniteSet(S) <=> IsFiniteSet(S)) /\ Inbox!Cardinality(S) = Cardinality(S)
BY Zenon DEF Inbox!IsFiniteSet, IsFiniteSet, Inbox!Cardinality, Cardinality

LEMMA InboxInitIInv == Inbox!Init => Inbox!IInv
<1> SUFFICES ASSUME Inbox!Init PROVE Inbox!IInv
  OBVIOUS
<1>1. v5 \in Seq(Inbox!Command) /\ Len(v5) = 0 /\ v3 = {}
  BY DEF Inbox!Init
<1>2. v4 \in [Queuers -> 0..MaxCommands] /\ \A q \in Queuers : v4[q] = 0 /\ v2[q] = 0
  BY InboxParameters DEF Inbox!Init
<1> QED
  BY <1>1, <1>2, FS_EmptySet, InboxFinite DEF Inbox!Init, Inbox!IInv, Inbox!TypeOK,
     Inbox!Numbered, Inbox!Stamped, Inbox!CommandsInOrder

LEMMA InboxFields ==
  ASSUME Inbox!TypeOK
  PROVE  /\ \A c \in v3 : c.by \in Queuers /\ c.nth \in Nat \ {0} /\ c.at \in Nat
         /\ \A i \in 1..Len(v5) :
              /\ v5[i] \in Inbox!Command /\ v5[i].by \in Queuers
              /\ v5[i].nth \in Nat \ {0} /\ v5[i].at \in Nat
         /\ \A q \in Queuers : v4[q] \in Nat /\ v2[q] \in Nat
<1>1. \A i \in 1..Len(v5) : v5[i] \in Inbox!Command
  BY DEF Inbox!TypeOK
<1> QED
  BY <1>1, InboxParameters DEF Inbox!TypeOK, Inbox!Command

LEMMA InboxReadClockKeeps == ASSUME Inbox!IInv, NEW q \in Queuers, Inbox!ReadClock(q) PROVE Inbox!IInv'
<1>1. /\ v1' = v1 + 1 /\ v2' = [v2 EXCEPT ![q] = v1]
      /\ UNCHANGED <<v3, v4, v5>>
  BY DEF Inbox!ReadClock, Inbox!Tick
<1>2. Inbox!TypeOK'
  BY <1>1 DEF Inbox!IInv, Inbox!TypeOK
<1>3. Inbox!Numbered' /\ Inbox!CommandsInOrder'
  BY <1>1 DEF Inbox!IInv, Inbox!Numbered, Inbox!CommandsInOrder, Inbox!Earlier
<1>4. Inbox!Stamped'
  <2>1. v4[q] < MaxCommands
    BY DEF Inbox!ReadClock
  <2> QED
    BY <1>1, <2>1, InboxFields DEF Inbox!IInv, Inbox!TypeOK, Inbox!Stamped
<1> QED
  BY <1>1, <1>2, <1>4, <1>3 DEF Inbox!IInv

\* The new file has the next number of its queuer and the latest of its names.
LEMMA InboxSendKeeps == ASSUME Inbox!IInv, NEW q \in Queuers, Inbox!Send(q) PROVE Inbox!IInv'
<1> DEFINE new == [by |-> q, nth |-> v4[q] + 1, at |-> v2[q]]
<1>1. /\ v2[q] # 0 /\ v3' = v3 \cup {new}
      /\ v4' = [v4 EXCEPT ![q] = @ + 1] /\ v2' = [v2 EXCEPT ![q] = 0]
      /\ UNCHANGED <<v1, v5>>
  BY DEF Inbox!Send
<1>2. new \in Inbox!Command /\ new.by = q /\ new.nth = v4[q] + 1 /\ new.at = v2[q]
  <2>1. v4[q] + 1 \in 1..MaxCommands
    BY <1>1, InboxParameters DEF Inbox!IInv, Inbox!TypeOK, Inbox!Stamped
  <2> QED
    BY <1>1, <2>1 DEF Inbox!IInv, Inbox!TypeOK, Inbox!Command
<1> HIDE DEF new
<1>3. Inbox!TypeOK'
  <2>1. v4[q] + 1 \in 0..MaxCommands
    BY <1>1, InboxParameters DEF Inbox!IInv, Inbox!TypeOK, Inbox!Stamped
  <2> QED
    BY <1>1, <1>2, <2>1 DEF Inbox!IInv, Inbox!TypeOK
<1>4. Inbox!Numbered'
  <2>1. \A c \in v3' : c.nth <= v4'[c.by]
    BY <1>1, <1>2, InboxFields DEF Inbox!IInv, Inbox!TypeOK, Inbox!Numbered
  <2>2. \A i \in 1..Len(v5') : v5'[i].nth <= v4'[v5'[i].by]
    BY <1>1, InboxFields DEF Inbox!IInv, Inbox!TypeOK, Inbox!Numbered
  <2>3. ASSUME NEW r \in Queuers, NEW n \in 1..v4'[r]
        PROVE  \/ \E c \in v3' : c.by = r /\ c.nth = n
               \/ \E i \in 1..Len(v5') : v5'[i].by = r /\ v5'[i].nth = n
    <3>1. CASE r = q /\ n = v4[q] + 1
      BY <3>1, <1>1, <1>2
    <3>2. CASE n \in 1..v4[r]
      BY <3>2, <1>1 DEF Inbox!IInv, Inbox!Numbered
    <3> QED
      BY <3>1, <3>2, <1>1 DEF Inbox!IInv, Inbox!TypeOK
  <2>4. \A i \in 1..Len(v5'), c \in v3' :
          v5'[i].by = c.by => v5'[i].nth < c.nth
    BY <1>1, <1>2, InboxFields DEF Inbox!IInv, Inbox!TypeOK, Inbox!Numbered
  <2> QED
    BY <2>1, <2>2, <2>3, <2>4 DEF Inbox!Numbered
<1>5. Inbox!Stamped'
  <2>1. \A r \in Queuers : v2'[r] < v1' /\ (v2'[r] # 0 => v4'[r] < MaxCommands)
    BY <1>1 DEF Inbox!IInv, Inbox!TypeOK, Inbox!Stamped
  <2>2. \A c \in v3' : c.at < v1' /\ (v2'[c.by] # 0 => c.at < v2'[c.by])
    BY <1>1, <1>2, InboxFields DEF Inbox!IInv, Inbox!TypeOK, Inbox!Stamped
  <2>3. \A c \in v3 : c.by = q => c.nth < new.nth /\ c.at < new.at
    BY <1>1, <1>2, InboxFields DEF Inbox!IInv, Inbox!Numbered, Inbox!Stamped
  <2>4. ASSUME NEW c \in v3', NEW d \in v3', c.by = d.by
        PROVE  (c.nth < d.nth => c.at < d.at) /\ (c.nth = d.nth => c = d)
    BY <2>3, <2>4, <1>1, <1>2, InboxFields DEF Inbox!IInv, Inbox!Stamped
  <2> QED
    BY <2>1, <2>2, <2>4 DEF Inbox!Stamped
<1>6. Inbox!CommandsInOrder'
  BY <1>1 DEF Inbox!IInv, Inbox!CommandsInOrder, Inbox!Earlier
<1> QED
  BY <1>1, <1>3, <1>4, <1>5, <1>6, FS_AddElement, InboxFinite DEF Inbox!IInv

\* Where a command is after the directory was taken.
LEMMA InboxConcatenated ==
  ASSUME NEW S, NEW a \in Seq(S), NEW m \in Nat, NEW s \in [1..m -> S]
  PROVE  /\ a \o s \in Seq(S) /\ Len(a \o s) = Len(a) + m /\ Len(a) \in Nat
         /\ \A i \in 1..Len(a) : (a \o s)[i] = a[i]
         /\ \A i \in 1..m : (a \o s)[Len(a) + i] = s[i]
<1>1. s \in Seq(S) /\ Len(s) = m
  OBVIOUS
<1> QED
  BY <1>1

\* The listing comes after what was applied before it, and is itself in order.
LEMMA InboxApplyKeeps == ASSUME Inbox!IInv, Inbox!Apply PROVE Inbox!IInv'
<1> DEFINE m == Inbox!Cardinality(v3)
<1>1. PICK s \in [1..m -> v3] : Inbox!Sorted(s) /\ v5' = v5 \o s
  BY DEF Inbox!Apply
<1>2. Inbox!IsFiniteSet(v3) /\ m \in Nat
  BY FS_CardinalityType, InboxFinite DEF Inbox!IInv
<1>3. /\ v5 \in Seq(Inbox!Command) /\ v3 \subseteq Inbox!Command /\ s \in [1..m -> Inbox!Command]
      /\ m \in Nat /\ DOMAIN s = 1..m /\ \A i \in 1..m : s[i] \in v3
  BY <1>1, <1>2 DEF Inbox!IInv, Inbox!TypeOK
<1> HIDE DEF m
<1> DEFINE k == Len(v5)
<1>4. /\ v5' \in Seq(Inbox!Command) /\ Len(v5') = k + m /\ k \in Nat
      /\ \A i \in 1..k : v5'[i] = v5[i]
      /\ \A i \in 1..m : v5'[k + i] = s[i]
  BY <1>1, <1>3, InboxConcatenated
<1>5. /\ v3' = {} /\ UNCHANGED <<v1, v2, v4>>
      /\ \A c \in v3 : \E i \in 1..m : s[i] = c
      /\ \A i, j \in 1..m : i < j => s[i].at < s[j].at
  BY <1>1, <1>3 DEF Inbox!Apply, Inbox!Sorted
<1>6. \A i \in 1..k + m : i \notin 1..k => i - k \in 1..m /\ k + (i - k) = i
  BY <1>3, <1>4
<1>7. \A c \in v3 : c.by \in Queuers /\ c.nth \in Nat \ {0} /\ c.at \in Nat
  BY InboxFields DEF Inbox!IInv
<1>8. \A i \in 1..k + m : i \notin 1..k => v5'[i] = s[i - k] /\ s[i - k] \in v3
  BY <1>3, <1>4, <1>6
<1>9. \A i \in 1..k :
        v5[i].by \in Queuers /\ v5[i].nth \in Nat \ {0} /\ v5[i].nth <= v4[v5[i].by]
  BY InboxFields DEF Inbox!IInv, Inbox!Numbered
<1> HIDE DEF k
<1>10. Inbox!TypeOK'
  BY <1>4, <1>5 DEF Inbox!IInv, Inbox!TypeOK
<1>11. Inbox!Stamped'
  BY <1>5 DEF Inbox!IInv, Inbox!Stamped
<1>12. Inbox!Numbered'
  <2>1. \A i \in 1..Len(v5') : v5'[i].nth <= v4'[v5'[i].by]
    <3> SUFFICES ASSUME NEW i \in 1..k + m PROVE v5'[i].nth <= v4[v5'[i].by]
      BY <1>4, <1>5
    <3>1. CASE i \in 1..k
      BY <3>1, <1>4, <1>9
    <3>2. CASE i \notin 1..k
      <4>1. v5'[i] \in v3
        BY <3>2, <1>8
      <4> QED
        BY <4>1 DEF Inbox!IInv, Inbox!Numbered
    <3> QED
      BY <3>1, <3>2
  <2>2. ASSUME NEW q \in Queuers, NEW n \in 1..v4[q]
        PROVE  \E i \in 1..k + m : v5'[i].by = q /\ v5'[i].nth = n
    <3>1. CASE \E c \in v3 : c.by = q /\ c.nth = n
      <4>1. PICK i \in 1..m : s[i].by = q /\ s[i].nth = n
        BY <3>1, <1>5
      <4>2. k + i \in 1..k + m
        BY <1>3, <1>4
      <4> QED
        BY <4>1, <4>2, <1>4
    <3>2. CASE \E i \in 1..k : v5[i].by = q /\ v5[i].nth = n
      <4>1. 1..k \subseteq 1..k + m
        BY <1>3, <1>4
      <4> QED
        BY <3>2, <4>1, <1>4
    <3> QED
      BY <3>1, <3>2 DEF Inbox!IInv, Inbox!Numbered, k
  <2> QED
    BY <2>1, <2>2, <1>4, <1>5 DEF Inbox!Numbered
<1>13. \A c, d \in v3 : c.by = d.by /\ c.at < d.at => c.nth < d.nth
  BY <1>7 DEF Inbox!IInv, Inbox!Stamped
<1>14. ASSUME NEW i \in 1..k + m, NEW j \in 1..k + m, i < j, v5'[i].by = v5'[j].by
       PROVE  v5'[i].nth < v5'[j].nth
  <2>1. CASE i \in 1..k /\ j \in 1..k
    BY <2>1, <1>4, <1>14 DEF Inbox!IInv, Inbox!CommandsInOrder, Inbox!Earlier, k
  <2>2. CASE i \in 1..k /\ j \notin 1..k
    <3>1. v5'[i] = v5[i] /\ v5'[j] \in v3
      BY <2>2, <1>4, <1>8
    <3>2. \A c \in v3 : v5[i].by = c.by => v5[i].nth < c.nth
      BY <2>2 DEF Inbox!IInv, Inbox!Numbered, k
    <3> QED
      BY <3>1, <3>2, <1>14
  <2>3. CASE i \notin 1..k
    <3>1. i - k \in 1..m /\ j - k \in 1..m /\ i - k < j - k
      BY <2>3, <1>3, <1>4, <1>6, <1>14
    <3>2. v5'[i] = s[i - k] /\ v5'[j] = s[j - k]
      BY <3>1, <1>4, <1>6, <2>3
    <3>3. s[i - k] \in v3 /\ s[j - k] \in v3 /\ s[i - k].at < s[j - k].at
      BY <3>1, <1>3, <1>5
    <3> QED
      BY <3>2, <3>3, <1>14, <1>13
  <2> QED
    BY <2>1, <2>2, <2>3
<1>15. ASSUME NEW i \in 1..k + m, NEW n \in 1..v5'[i].nth - 1
       PROVE  \E j \in 1..k + m :
                j < i /\ v5'[j].by = v5'[i].by /\ v5'[j].nth = n
  <2>1. /\ v5'[i].by \in Queuers /\ v5'[i].nth \in Nat \ {0}
        /\ v5'[i].nth <= v4[v5'[i].by]
    <3>1. v5'[i] \in Inbox!Command
      BY <1>4
    <3> QED
      BY <3>1, <1>12, <1>4, <1>5, InboxParameters DEF Inbox!Command, Inbox!Numbered
  <2>2. n \in 1..v4[v5'[i].by] /\ n < v5'[i].nth
    BY <2>1, InboxFields DEF Inbox!IInv
  <2>3. PICK j \in 1..k + m : v5'[j].by = v5'[i].by /\ v5'[j].nth = n
    BY <2>1, <2>2, <1>12, <1>4, <1>5 DEF Inbox!Numbered
  <2>4. j < i
    <3>1. i = j \/ i < j \/ j < i
      OBVIOUS
    <3>2. i < j => v5'[i].nth < v5'[j].nth
      BY <2>3, <1>14
    <3> QED
      BY <3>1, <3>2, <2>1, <2>2, <2>3
  <2> QED
    BY <2>3, <2>4
<1>16. Inbox!CommandsInOrder'
  BY <1>4, <1>14, <1>15 DEF Inbox!CommandsInOrder, Inbox!Earlier
<1>17. Inbox!IsFiniteSet(v3')
  <2>1. Inbox!IsFiniteSet({})
    BY FS_EmptySet, InboxFinite
  <2> QED
    BY <1>5, <2>1
<1> QED
  BY <1>10, <1>11, <1>12, <1>16, <1>17 DEF Inbox!IInv

LEMMA InboxStepPreserves == ASSUME Inbox!IInv, [Inbox!Next]_Inbox!vars PROVE Inbox!IInv'
<1>1. CASE UNCHANGED Inbox!vars
  <2>1. UNCHANGED <<v1, v2, v3, v4, v5>>
    BY <1>1 DEF Inbox!vars
  <2>2. Inbox!TypeOK' /\ Inbox!Stamped'
    BY <2>1 DEF Inbox!IInv, Inbox!TypeOK, Inbox!Stamped
  <2>3. Inbox!Numbered' /\ Inbox!CommandsInOrder'
    BY <2>1 DEF Inbox!IInv, Inbox!Numbered, Inbox!CommandsInOrder, Inbox!Earlier
  <2> QED
    BY <2>1, <2>2, <2>3 DEF Inbox!IInv
<1> QED
  BY <1>1, InboxApplyKeeps, InboxReadClockKeeps, InboxSendKeeps DEF Inbox!Next

-----------------------------------------------------------------------------
\* Host (HostUpdate): the record of the update and the one script that may work under it.
\* Variables: v1 updater, v2 reaped, v3 stateFile, v4 request, v5 waiter, v6 reader,
\*   v7 training, v8 containers, v9 crashes, v10 forgotten.

\* Finite sets, in the instance and in the library.
LEMMA HostFinite ==
  \A S : (Host!IsFiniteSet(S) <=> IsFiniteSet(S)) /\ Host!Cardinality(S) = Cardinality(S)
BY Zenon DEF Host!IsFiniteSet, IsFiniteSet, Host!Cardinality, Cardinality

LEMMA HostBounded == ASSUME MaxUpdates \in Nat PROVE Host!Updates \subseteq Nat \ {0}
BY DEF Host!Updates

\* Which steps an update works in.
LEMMA HostStagesAre == Host!Stages = {"checkout", "sync", "down", "up", "verify"}
BY DEF Host!Stages, Host!Steps

LEMMA HostAliveHasNotEnded == \A u \in Host!Alive : u \in Host!Updates /\ v1[u] \notin Host!Ends
BY HostStagesAre DEF Host!Alive, Host!Ends

LEMMA HostInitIInv == ASSUME MaxUpdates \in Nat, Host!Init PROVE Host!IInv
BY HostStagesAre
DEF Host!Init, Host!IInv, Host!Types, Host!Ended, Host!OneHandler, Host!Past,
   Host!CheckStands, Host!SawTheRecorded, Host!Accounted,
   Host!OutcomeIsTrue, Host!Alive, Host!AtRest, Host!State, Host!Nobody, Host!Ends

\* At most one update that is not forgotten is at work.
LEMMA HostAtMostOne == ASSUME Host!IInv PROVE Host!OneUpdate
<1> DEFINE S == Host!Alive \ v10
<1>1. ASSUME NEW u \in S, NEW v \in S PROVE u = v
  <2>1. (Host!Recorded(u) \/ Host!Starting(u)) /\ (Host!Recorded(v) \/ Host!Starting(v))
    BY DEF Host!IInv, Host!Accounted
  <2>2. CASE Host!Recorded(u) /\ Host!Recorded(v)
    BY <2>2 DEF Host!Recorded
  <2>3. CASE Host!Starting(u) /\ Host!Starting(v)
    BY <2>3 DEF Host!Starting, Host!IInv, Host!OneHandler
  <2>4. ASSUME NEW x, NEW y, Host!Recorded(x), Host!Starting(y) PROVE FALSE
    BY <2>4 DEF Host!Recorded, Host!Starting, Host!IInv, Host!CheckStands, Host!Past
  <2> QED
    BY <2>1, <2>2, <2>3, <2>4
<1>2. CASE S = {}
  BY <1>2, FS_EmptySet, HostFinite DEF Host!OneUpdate
<1>3. CASE S # {}
  <2>1. PICK u : u \in S
    BY <1>3
  <2>2. S = {u}
    BY <2>1, <1>1
  <2> QED
    BY <2>2, FS_Singleton, HostFinite DEF Host!OneUpdate
<1> QED
  BY <1>2, <1>3

\* What a reader writes: the record of an update that has ended, or nothing.
LEMMA HostCorrected ==
  ASSUME MaxUpdates \in Nat, Host!IInv, Host!Correct
  PROVE  /\ v3' \in [status : {"idle", "running", "unknown"} \cup Host!Ends, pid : Nat]
         /\ \A u \in Host!Alive : Host!Recorded(u) => Host!Recorded(u)'
         /\ v3'.status = "running" => v3' = v3
         /\ v3'.status \in Host!Ends => v3' = v3
<1>1. CASE v6.saw \in v2
  <2>1. v3' = [status |-> "unknown", pid |-> v6.saw]
    BY <1>1 DEF Host!Correct, Host!State
  <2>2. v6.saw \in Host!Updates /\ v6.saw # 0 /\ v1[v6.saw] \in Host!Ends
    BY <1>1, HostBounded DEF Host!IInv, Host!Ended
  <2>3. \A u \in Host!Alive : ~Host!Recorded(u)
    BY <2>2, HostAliveHasNotEnded DEF Host!Recorded, Host!IInv, Host!SawTheRecorded
  <2> QED
    BY <2>1, <2>2, <2>3, HostBounded DEF Host!Ends
<1>2. CASE v6.saw \notin v2
  BY <1>2 DEF Host!Correct, Host!IInv, Host!Types, Host!Recorded
<1> QED
  BY <1>1, <1>2

-----------------------------------------------------------------------------
(* Readers and handlers.                                                   *)

LEMMA HostLooksKeep ==
  ASSUME MaxUpdates \in Nat, Host!IInv,
         Host!StatusLooks \/ \E r \in Requesters : Host!Ask(r)
  PROVE  Host!IInv'
<1>1. /\ Host!SawTheRecorded' /\ v3' = v3
      /\ v3.status # "running" => v6'.saw = 0
  BY DEF Host!StatusLooks, Host!Ask, Host!Look, Host!SawTheRecorded
<1>2. CASE Host!StatusLooks
  BY <1>1, <1>2 DEF Host!StatusLooks, Host!IInv, Host!Types, Host!Ended, Host!OneHandler,
     Host!Past, Host!CheckStands, Host!Accounted,
     Host!OutcomeIsTrue, Host!Alive, Host!Recorded, Host!Starting
<1>3. ASSUME NEW r \in Requesters, Host!Ask(r) PROVE Host!IInv'
  <2>1. /\ v4' = [v4 EXCEPT ![r].at = "checking"]
        /\ \A s \in Requesters : v4[s].at = "idle"
    BY <1>3 DEF Host!Ask, Host!Locked
  <2>2. Host!Types' /\ Host!OneHandler' /\ \A s \in Requesters : v4'[s].at \notin {"allowed", "started"}
    BY <2>1, <1>3 DEF Host!Ask, Host!IInv, Host!Types, Host!OneHandler
  <2>3. Host!Accounted'
    BY <2>1, <1>1, <1>3 DEF Host!Ask, Host!IInv, Host!Accounted, Host!Alive, Host!Recorded,
       Host!Starting
  <2> QED
    BY <2>2, <2>3, <1>1, <1>3 DEF Host!Ask, Host!IInv, Host!Ended, Host!CheckStands,
       Host!Past, Host!OutcomeIsTrue
<1> QED
  BY <1>2, <1>3

LEMMA HostAnswersKeep == ASSUME MaxUpdates \in Nat, Host!IInv, Host!StatusAnswers PROVE Host!IInv'
<1>1. /\ UNCHANGED <<v1, v2, v4, v5, v10>>
      /\ Host!Correct /\ v6' = Host!Nobody
  BY DEF Host!StatusAnswers
<1> QED
  BY <1>1, HostCorrected DEF Host!IInv, Host!Types, Host!Ended, Host!OneHandler,
     Host!CheckStands, Host!Past, Host!SawTheRecorded,
     Host!Accounted, Host!OutcomeIsTrue, Host!Nobody, Host!Alive, Host!Recorded, Host!Starting

\* The handler goes on only if the file it has just corrected names no running update.
LEMMA HostDecideKeeps ==
  ASSUME MaxUpdates \in Nat, Host!IInv, NEW r \in Requesters, Host!Decide(r)
  PROVE  Host!IInv'
<1>1. /\ UNCHANGED <<v1, v2, v5, v10>> /\ Host!Correct /\ v6' = Host!Nobody
      /\ v4[r].at = "checking"
  BY DEF Host!Decide
<1>2. \/ v3'.status # "running" /\ v4' = [v4 EXCEPT ![r].at = "allowed"]
      \/ v4' = [v4 EXCEPT ![r] = Host!AtRest]
  BY DEF Host!Decide, Host!Blocked
<1>3. Host!Types' /\ Host!OneHandler'
  BY <1>1, <1>2, HostCorrected DEF Host!IInv, Host!Types, Host!OneHandler, Host!AtRest
<1>4. Host!CheckStands'
  <2>1. \A s \in Requesters : s # r => ~Host!Past(s)'
    BY <1>1, <1>2 DEF Host!IInv, Host!Types, Host!OneHandler, Host!Past
  <2>2. Host!Past(r)' => v3'.status # "running"
    BY <1>2 DEF Host!IInv, Host!Types, Host!Past, Host!AtRest
  <2> QED
    BY <2>1, <2>2, <1>1 DEF Host!CheckStands, Host!Nobody
<1>5. Host!Accounted'
  <2>1. \A u : Host!Starting(u) => Host!Starting(u)'
    BY <1>1, <1>2 DEF Host!IInv, Host!Types, Host!Starting
  <2> QED
    BY <2>1, <1>1, HostCorrected DEF Host!IInv, Host!Accounted, Host!Alive
<1>6. Host!SawTheRecorded' /\ Host!OutcomeIsTrue' /\ Host!Ended'
  BY <1>1, HostCorrected DEF Host!IInv, Host!SawTheRecorded, Host!OutcomeIsTrue,
     Host!Nobody, Host!Ended
<1> QED
  BY <1>3, <1>4, <1>5, <1>6 DEF Host!IInv

LEMMA HostStartKeeps ==
  ASSUME MaxUpdates \in Nat, Host!IInv, NEW r \in Requesters, Host!Start(r)
  PROVE  Host!IInv'
<1>1. PICK u \in Host!Updates :
         /\ v1[u] = "none"
         /\ v1' = [v1 EXCEPT ![u] = "checkout"]
         /\ v4' = [v4 EXCEPT ![r] = [at |-> "started", update |-> u]]
  BY DEF Host!Start, Host!Unstarted
<1>2. /\ UNCHANGED <<v2, v3, v5, v6, v10>>
      /\ v4[r].at = "allowed"
  BY DEF Host!Start
<1>3. Host!Types'
  <2>1. u \in 0..MaxUpdates
    BY DEF Host!Updates
  <2> QED
    BY <2>1, <1>1, <1>2, HostStagesAre DEF Host!IInv, Host!Types
<1>4. Host!OneHandler' /\ Host!CheckStands' /\ Host!SawTheRecorded'
  BY <1>1, <1>2 DEF Host!IInv, Host!Types, Host!OneHandler, Host!Past, Host!CheckStands,
     Host!SawTheRecorded
<1>5. Host!Ended' /\ Host!OutcomeIsTrue'
  BY <1>1, <1>2 DEF Host!IInv, Host!Types, Host!Ended, Host!OutcomeIsTrue, Host!Ends
<1>6. Host!Accounted'
  <2>1. Host!Starting(u)' /\ \A v : Host!Starting(v) => Host!Starting(v)'
    BY <1>1, <1>2 DEF Host!IInv, Host!Types, Host!Starting, Host!OneHandler
  <2>2. Host!Alive' \subseteq Host!Alive \cup {u}
    BY <1>1 DEF Host!IInv, Host!Types, Host!Alive
  <2> QED
    BY <2>1, <2>2, <1>2 DEF Host!IInv, Host!Accounted, Host!Recorded
<1> QED
  BY <1>3, <1>4, <1>5, <1>6 DEF Host!IInv

LEMMA HostRecordKeeps ==
  ASSUME MaxUpdates \in Nat, Host!IInv, NEW r \in Requesters, Host!Record(r)
  PROVE  Host!IInv'
<1> DEFINE u == v4[r].update
<1>1. /\ v4[r].at = "started"
      /\ v3' = [status |-> "running", pid |-> u]
      /\ v5' = [v5 EXCEPT ![u] = "waiting"]
      /\ v4' = [v4 EXCEPT ![r] = [at |-> "idle", update |-> 0]]
      /\ UNCHANGED <<v1, v2, v6, v10>>
  BY DEF Host!Record, Host!State, Host!AtRest
<1>2. Host!Types'
  <2>1. v4[r].update \in Nat
    BY DEF Host!IInv, Host!Types
  <2>2. v4' \in [Requesters -> [at : {"idle", "checking", "allowed", "started"},
                                    update : 0..MaxUpdates]]
    BY <1>1 DEF Host!IInv, Host!Types
  <2>3. v5' \in [Host!Updates -> {"none", "waiting", "returned"}]
    BY <1>1 DEF Host!IInv, Host!Types
  <2> QED
    BY <2>1, <2>2, <2>3, <1>1 DEF Host!IInv, Host!Types
<1>3. Host!OneHandler' /\ \A s \in Requesters : ~Host!Past(s)'
  BY <1>1 DEF Host!IInv, Host!Types, Host!OneHandler, Host!Past
<1>4. v6'.saw = 0 /\ v3.status # "running"
  BY <1>1 DEF Host!IInv, Host!CheckStands, Host!Past
<1>5. Host!Accounted'
  <2>1. ASSUME NEW v \in Host!Alive \ v10 PROVE v = u
    <3>1. Host!Starting(v)
      BY <1>4, <2>1 DEF Host!IInv, Host!Accounted, Host!Recorded
    <3> QED
      BY <3>1, <1>1 DEF Host!Starting, Host!IInv, Host!OneHandler
  <2> QED
    BY <2>1, <1>1 DEF Host!Accounted, Host!Alive, Host!Recorded
<1>6. Host!Ended' /\ Host!OutcomeIsTrue'
  BY <1>1 DEF Host!IInv, Host!Types, Host!Ended, Host!OutcomeIsTrue, Host!Ends
<1> QED
  BY <1>2, <1>3, <1>4, <1>5, <1>6 DEF Host!IInv, Host!CheckStands, Host!SawTheRecorded

-----------------------------------------------------------------------------
(* The waiters and the end of the supervisor.                              *)

LEMMA HostWaitReturnsKeeps ==
  ASSUME Host!IInv, NEW u \in Host!Updates, Host!WaitReturns(u)
  PROVE  Host!IInv'
<1>1. Host!Types' /\ Host!Ended'
  BY DEF Host!WaitReturns, Host!IInv, Host!Types, Host!Ended
<1> QED
  BY <1>1 DEF Host!WaitReturns, Host!IInv, Host!OneHandler, Host!Past, Host!CheckStands,
     Host!SawTheRecorded, Host!Accounted,
     Host!OutcomeIsTrue, Host!Alive, Host!Recorded, Host!Starting

\* The outcome of an older update may replace the record of a newer one, which is
\* then forgotten.
LEMMA HostFinishKeeps ==
  ASSUME MaxUpdates \in Nat, Host!IInv, NEW u \in Host!Updates, Host!Finish(u)
  PROVE  Host!IInv'
<1>1. /\ v3' = [status |-> v1[u], pid |-> u]
      /\ v5' = [v5 EXCEPT ![u] = "none"]
      /\ v10' = v10 \cup Host!Overwritten(u)
      /\ UNCHANGED <<v1, v2, v4, v6>>
      /\ v1[u] \in Host!Ends
  BY DEF Host!Finish, Host!State, Host!IInv, Host!Ended
<1>2. Host!Types' /\ Host!Ended'
  BY <1>1, HostBounded DEF Host!IInv, Host!Types, Host!Ended
<1>3. v3'.status # "running"
  BY <1>1 DEF Host!Ends
<1>4. Host!OneHandler' /\ Host!CheckStands' /\ Host!SawTheRecorded' /\ Host!OutcomeIsTrue'
  BY <1>1, <1>3 DEF Host!IInv, Host!OneHandler, Host!Past, Host!CheckStands,
     Host!SawTheRecorded, Host!OutcomeIsTrue
<1>5. Host!Accounted'
  <2>1. ASSUME NEW v \in Host!Alive, v \notin v10' PROVE Host!Starting(v)
    <3>1. v # u
      BY <2>1, <1>1, HostAliveHasNotEnded
    <3>2. ~Host!Recorded(v)
      BY <2>1, <3>1, <1>1 DEF Host!Overwritten, Host!Recorded
    <3> QED
      BY <2>1, <3>2, <1>1 DEF Host!IInv, Host!Accounted
  <2> QED
    BY <2>1, <1>1 DEF Host!Accounted, Host!Alive, Host!Starting
<1> QED
  BY <1>2, <1>4, <1>5 DEF Host!IInv

\* What a dying supervisor had started and not recorded is forgotten.
LEMMA HostCrashKeeps == ASSUME MaxUpdates \in Nat, Host!IInv, Host!Crash PROVE Host!IInv'
<1>1. /\ v10' = v10 \cup ({v4[r].update : r \in Requesters} \ {0})
      /\ v4' = [r \in Requesters |-> [at |-> "idle", update |-> 0]]
      /\ v5' = [u \in Host!Updates |-> "none"] /\ v6'.saw = 0
      /\ UNCHANGED <<v1, v2, v3>>
  BY DEF Host!Crash, Host!AtRest, Host!Nobody
<1>2. Host!Types' /\ Host!Ended' /\ Host!OneHandler' /\ Host!CheckStands' /\ Host!SawTheRecorded' /\ Host!OutcomeIsTrue'
  BY <1>1 DEF Host!IInv, Host!Types, Host!Ended, Host!OneHandler, Host!Past,
     Host!CheckStands, Host!SawTheRecorded, Host!OutcomeIsTrue
<1>3. Host!Accounted'
  <2>1. ASSUME NEW v \in Host!Alive, v \notin v10' PROVE Host!Recorded(v)
    <3>1. v # 0
      BY HostBounded, HostAliveHasNotEnded
    <3>2. ~Host!Starting(v)
      BY <2>1, <3>1, <1>1 DEF Host!Starting
    <3> QED
      BY <2>1, <3>2, <1>1 DEF Host!IInv, Host!Accounted
  <2> QED
    BY <2>1, <1>1 DEF Host!Accounted, Host!Alive, Host!Recorded
<1> QED
  BY <1>2, <1>3 DEF Host!IInv

-----------------------------------------------------------------------------
(* The script and the runs.                                                *)

LEMMA HostFollowingIsAStage == \A stage \in Host!Stages \ {"verify"} : Host!Following(stage) \in Host!Stages
<1>1. ASSUME NEW stage \in Host!Stages \ {"verify"} PROVE \E i \in 1..4 : Host!Steps[i] = stage
  BY <1>1, HostStagesAre DEF Host!Steps
<1> QED
  BY <1>1 DEF Host!Following, Host!Stages

LEMMA HostScriptKeeps ==
  ASSUME Host!IInv, NEW u \in Host!Updates, Host!Advance(u) \/ Host!Fail(u)
  PROVE  Host!IInv'
<1>1. /\ u \in Host!Alive /\ \E s \in Host!Stages \cup Host!Ends : v1' = [v1 EXCEPT ![u] = s]
      /\ UNCHANGED <<v2, v3, v4, v5, v6, v10>>
  <2>1. CASE Host!Fail(u)
    BY <2>1 DEF Host!Fail, Host!Ends
  <2>2. CASE Host!Advance(u)
    <3>1. v1[u] \in Host!Stages
      BY <2>2 DEF Host!Advance, Host!Alive
    <3> QED
      BY <2>2, <3>1, HostFollowingIsAStage DEF Host!Advance, Host!Ends
  <2> QED
    BY <2>1, <2>2
<1>2. v1[u] \notin Host!Ends
  BY <1>1, HostAliveHasNotEnded
<1>3. Host!Types' /\ Host!Ended' /\ Host!OutcomeIsTrue'
  BY <1>1, <1>2 DEF Host!IInv, Host!Types, Host!Ended, Host!OutcomeIsTrue
<1>4. Host!Alive' \subseteq Host!Alive
  BY <1>1 DEF Host!IInv, Host!Types, Host!Alive
<1> QED
  BY <1>1, <1>3, <1>4 DEF Host!IInv, Host!OneHandler, Host!Past, Host!CheckStands,
     Host!SawTheRecorded, Host!Accounted,
     Host!Recorded, Host!Starting

LEMMA HostOthersKeep ==
  ASSUME Host!IInv, (\E u \in Host!Updates : Host!ReapOrphan(u)) \/ Host!Train \/ UNCHANGED Host!vars
  PROVE  Host!IInv'
<1>1. UNCHANGED <<v1, v3, v4, v5, v6, v10>>
  BY DEF Host!ReapOrphan, Host!Train, Host!vars
<1>2. Host!Ended'
  BY DEF Host!ReapOrphan, Host!Train, Host!vars, Host!IInv, Host!Ended
<1> QED
  BY <1>1, <1>2 DEF Host!IInv, Host!Types, Host!OneHandler, Host!Past, Host!CheckStands,
     Host!SawTheRecorded, Host!Accounted,
     Host!OutcomeIsTrue, Host!Alive, Host!Recorded, Host!Starting

LEMMA HostStepPreserves == ASSUME MaxUpdates \in Nat, Host!IInv, [Host!Next]_Host!vars PROVE Host!IInv'
<1>1. CASE Host!StatusLooks \/ \E r \in Requesters : Host!Ask(r)
  BY <1>1, HostLooksKeep
<1>2. CASE Host!StatusAnswers
  BY <1>2, HostAnswersKeep
<1>3. ASSUME NEW r \in Requesters, Host!Decide(r) \/ Host!Start(r) \/ Host!Record(r) PROVE Host!IInv'
  BY <1>3, HostDecideKeeps, HostStartKeeps, HostRecordKeeps
<1>4. ASSUME NEW u \in Host!Updates, Host!WaitReturns(u) \/ Host!Finish(u) \/ Host!Advance(u) \/ Host!Fail(u) PROVE Host!IInv'
  BY <1>4, HostWaitReturnsKeeps, HostFinishKeeps, HostScriptKeeps
<1>5. CASE Host!Crash
  BY <1>5, HostCrashKeeps
<1>6. CASE (\E u \in Host!Updates : Host!ReapOrphan(u)) \/ Host!Train \/ UNCHANGED Host!vars
  BY <1>6, HostOthersKeep
<1> QED
  BY <1>1, <1>2, <1>3, <1>4, <1>5, <1>6 DEF Host!Next

-----------------------------------------------------------------------------
(* The types of the rest.                                                  *)

LEMMA HostInitTypes == ASSUME MaxUpdates \in Nat, Host!Init PROVE Host!TypeOK /\ Host!Named
<1>1. Host!IInv /\ v6 = Host!Nobody /\ v3 = Host!State("idle", 0) /\ v2 = {} /\ v10 = {}
  BY HostInitIInv DEF Host!Init
<1>2. v7 \in BOOLEAN /\ v8 \in BOOLEAN
  BY DEF Host!Init
<1>3. {v7, v8} \subseteq BOOLEAN
  BY <1>2, Zenon
<1> QED
  BY <1>1, <1>3 DEF Host!Init, Host!IInv, Host!Types, Host!TypeOK, Host!Named, Host!Nobody,
     Host!AtRest, Host!State

\* Where the types could go wrong: what a reader saw and what it writes, what is
\* recorded and what is forgotten.
LEMMA HostTypesAreKept ==
  ASSUME MaxUpdates \in Nat, Host!IInv, Host!TypeOK, Host!Named, [Host!Next]_Host!vars, Host!IInv'
  PROVE  Host!TypeOK' /\ Host!Named'
<1> DEFINE Pid == 0..MaxUpdates
           Reading == [by : {"nobody", "status"} \cup Requesters, saw : Pid]
<1>1. /\ v3.pid \in Pid /\ v6 \in Reading /\ v10 \subseteq Host!Updates
      /\ v7 \in BOOLEAN /\ v8 \in BOOLEAN
      /\ \A r \in Requesters : v4[r].update \in Pid
      /\ 0 \in Pid /\ Host!Updates \subseteq Pid
  <2>1. v7 \in BOOLEAN /\ v8 \in BOOLEAN
    BY Zenon DEF Host!TypeOK
  <2> QED
    BY <2>1 DEF Host!TypeOK, Host!Updates
<1> HIDE DEF Pid
<1>2. \/ UNCHANGED Host!vars \/ Host!StatusLooks \/ Host!StatusAnswers \/ Host!Crash \/ Host!Train
      \/ \E r \in Requesters : Host!Ask(r) \/ Host!Decide(r) \/ Host!Start(r) \/ Host!Record(r)
      \/ \E u \in Host!Updates : Host!WaitReturns(u) \/ Host!Finish(u) \/ Host!Advance(u) \/ Host!Fail(u) \/ Host!ReapOrphan(u)
  BY DEF Host!Next
<1>3. v3'.pid \in Pid
  <2>1. Host!Correct => v3'.pid \in Pid
    BY <1>1 DEF Host!Correct, Host!State
  <2>2. \A r \in Requesters : Host!Record(r) => v3'.pid \in Pid
    BY <1>1 DEF Host!Record, Host!State
  <2>3. \A u \in Host!Updates : Host!Finish(u) => v3'.pid \in Pid
    BY <1>1 DEF Host!Finish, Host!State
  <2>4. \/ v3' = v3 \/ Host!Correct \/ \E r \in Requesters : Host!Record(r)
        \/ \E u \in Host!Updates : Host!Finish(u)
    BY <1>2 DEF Host!vars, Host!StatusLooks, Host!StatusAnswers, Host!Crash, Host!Train,
       Host!Ask, Host!Decide, Host!Start,
       Host!WaitReturns, Host!Advance, Host!Fail, Host!ReapOrphan
  <2> QED
    BY <2>1, <2>2, <2>3, <2>4, <1>1
<1>4. v6' \in Reading
  <2>1. Host!Nobody \in Reading
    BY <1>1 DEF Host!Nobody
  <2>2. \A who \in {"nobody", "status"} \cup Requesters : Host!Look(who) => v6' \in Reading
    BY <1>1 DEF Host!Look
  <2>3. \/ v6' = v6 \/ v6' = Host!Nobody
        \/ \E who \in {"nobody", "status"} \cup Requesters : Host!Look(who)
    BY <1>2 DEF Host!vars, Host!StatusLooks, Host!StatusAnswers, Host!Crash, Host!Train,
       Host!Ask, Host!Decide, Host!Start, Host!Record,
       Host!WaitReturns, Host!Finish, Host!Advance, Host!Fail, Host!ReapOrphan
  <2> QED
    BY <2>1, <2>2, <2>3, <1>1
<1>5. v10' \subseteq Host!Updates
  <2>1. \A u \in Host!Updates : Host!Finish(u) => v10' \subseteq Host!Updates
    <3>1. v3.pid # 0 => v3.pid \in Host!Updates
      BY DEF Host!TypeOK, Host!Updates
    <3>2. v3.pid = 0 => v3.status # "running"
      BY <1>1 DEF Host!Named, Host!Updates
    <3> QED
      BY <3>1, <3>2, <1>1 DEF Host!Finish, Host!Overwritten
  <2>2. Host!Crash => v10' \subseteq Host!Updates
    <3>1. Pid \ {0} \subseteq Host!Updates
      BY DEF Pid, Host!Updates
    <3>2. {v4[r].update : r \in Requesters} \ {0} \subseteq Host!Updates
      BY <3>1, <1>1
    <3> QED
      BY <3>2, <1>1 DEF Host!Crash
  <2>3. v10' = v10 \/ Host!Crash \/ \E u \in Host!Updates : Host!Finish(u)
    BY <1>2 DEF Host!vars, Host!StatusLooks, Host!StatusAnswers, Host!Train, Host!Ask,
       Host!Decide, Host!Start, Host!Record,
       Host!WaitReturns, Host!Advance, Host!Fail, Host!ReapOrphan
  <2> QED
    BY <2>1, <2>2, <2>3, <1>1
<1>6. v7' \in BOOLEAN /\ v8' \in BOOLEAN
  <2>1. \A u \in Host!Updates : Host!Advance(u) => v7' \in BOOLEAN /\ v8' \in BOOLEAN
    BY <1>1, Zenon DEF Host!Advance
  <2>2. Host!Train => v7' \in BOOLEAN /\ v8' = v8
    BY Zenon DEF Host!Train
  <2>3. \/ v7' = v7 /\ v8' = v8
        \/ Host!Train
        \/ \E u \in Host!Updates : Host!Advance(u)
    BY <1>2 DEF Host!vars, Host!StatusLooks, Host!StatusAnswers, Host!Crash, Host!Ask,
       Host!Decide, Host!Start, Host!Record,
       Host!WaitReturns, Host!Finish, Host!Fail, Host!ReapOrphan
  <2> QED
    BY <2>1, <2>2, <2>3, <1>1, Zenon
<1>7. {v7', v8'} \subseteq BOOLEAN
  BY <1>6, Zenon
<1>8. Host!TypeOK'
  BY <1>3, <1>4, <1>5, <1>7 DEF Host!IInv, Host!Types, Host!Ended, Host!TypeOK, Pid
<1>9. ASSUME NEW r \in Requesters, v4'[r].at = "started"
      PROVE  v4'[r].update \in Host!Updates
  <2>1. v4 \in [Requesters -> [at : {"idle", "checking", "allowed", "started"},
                                   update : 0..MaxUpdates]]
    BY DEF Host!TypeOK
  <2>2. \A s \in Requesters : Host!Ask(s) \/ Host!Decide(s) \/ Host!Record(s) =>
          v4'[r] = v4[r] \/ v4'[r].at # "started"
    BY <2>1 DEF Host!Ask, Host!Decide, Host!Record, Host!AtRest
  <2>3. ASSUME NEW s \in Requesters, Host!Start(s)
        PROVE  v4'[r] = v4[r] \/ v4'[r].update \in Host!Updates
    <3>1. PICK u \in Host!Updates :
            v4' = [v4 EXCEPT ![s] = [at |-> "started", update |-> u]]
      BY <2>3 DEF Host!Start, Host!Unstarted
    <3> QED
      BY <3>1, <2>1
  <2>4. Host!Crash => v4'[r].at # "started"
    BY DEF Host!Crash, Host!AtRest
  <2>5. \/ v4' = v4
        \/ Host!Crash
        \/ \E s \in Requesters : Host!Ask(s) \/ Host!Decide(s) \/ Host!Record(s) \/ Host!Start(s)
    BY <1>2 DEF Host!vars, Host!StatusLooks, Host!StatusAnswers, Host!Train,
       Host!WaitReturns, Host!Finish, Host!Advance, Host!Fail,
       Host!ReapOrphan
  <2> QED
    BY <1>9, <2>2, <2>3, <2>4, <2>5 DEF Host!Named
<1>10. v3'.status = "running" => v3'.pid \in Host!Updates
  <2>1. Host!Correct => v3' = v3 \/ v3'.status # "running"
    BY DEF Host!Correct, Host!State
  <2>2. \A r \in Requesters : Host!Record(r) => v3'.pid \in Host!Updates
    BY DEF Host!Record, Host!State, Host!Named
  <2>3. \A u \in Host!Updates : Host!Finish(u) => v3'.pid \in Host!Updates
    BY DEF Host!Finish, Host!State
  <2>4. \/ v3' = v3 \/ Host!Correct \/ \E r \in Requesters : Host!Record(r)
        \/ \E u \in Host!Updates : Host!Finish(u)
    BY <1>2 DEF Host!vars, Host!StatusLooks, Host!StatusAnswers, Host!Crash, Host!Train,
       Host!Ask, Host!Decide, Host!Start,
       Host!WaitReturns, Host!Advance, Host!Fail, Host!ReapOrphan
  <2> QED
    BY <2>1, <2>2, <2>3, <2>4 DEF Host!Named
<1> QED
  BY <1>8, <1>9, <1>10 DEF Host!Named

-----------------------------------------------------------------------------
\* Bundle (SourceBundle): what agrees with both readings of the tree is what it was in
\* between.
\* Variables: v1 origin, v2 allow, v3 tree, v4 instants, v5 reverted, v6 edits, v7 stage,
\*   v8 pc, v9 look, v10 state, v11 patch, v12 hashes, v13 archive, v14 patchAfter,
\*   v15 hashesAfter, v16 outcome.

LEMMA BundleInitIInv == Bundle!Init => Bundle!IInv
<1> SUFFICES ASSUME Bundle!Init PROVE Bundle!IInv
  OBVIOUS
<1>1. ~Bundle!Captured /\ ~Bundle!Patched /\ ~Bundle!Hashed /\ v11 = Bundle!Empty /\ DOMAIN v12 = {}
  BY DEF Bundle!Init, Bundle!Captured, Bundle!Patched, Bundle!Hashed, Bundle!CaptureAt,
     Bundle!NoFiles
<1>2. /\ v9 = [tracked |-> v9.tracked, paths |-> v9.paths, commit |-> v9.commit]
      /\ v9.paths = {} /\ v10.paths = {}
  BY DEF Bundle!Init, Bundle!NoLook
<1>3. Bundle!Shapes
  BY <1>1, <1>2 DEF Bundle!Init, Bundle!Shapes
<1>4. Bundle!FirstReadings /\ Bundle!OneInstant /\ Bundle!BundleIsASnapshot
  BY <1>1 DEF Bundle!Init, Bundle!FirstReadings, Bundle!OneInstant, Bundle!BundleIsASnapshot
<1> QED
  BY <1>3, <1>4 DEF Bundle!IInv

\* A part of the tree that had come to differ from its first reading stays different, or
\* somebody has changed it back.
LEMMA BundleEditKeeps ==
  ASSUME Bundle!IInv, NEW t, Bundle!Changed(t)
  PROVE  Bundle!IInv'
<1>1. /\ v3' = t /\ v4' = v4 \cup {t} /\ v16 = ""
      /\ UNCHANGED <<v7, v8, v9, v10, v11, v12, v13, v14, v15,
                     v16>>
  BY DEF Bundle!Changed, Bundle!capture
<1>2. Bundle!Shapes'
  BY <1>1 DEF Bundle!IInv, Bundle!Shapes, Bundle!Captured, Bundle!Patched, Bundle!Hashed,
     Bundle!CaptureAt
<1>3. Bundle!FirstReadings'
  <2>1. /\ \A c : Bundle!HeadWas(c) => Bundle!HeadWas(c)'
        /\ \A c : Bundle!WorkWas(c) => Bundle!WorkWas(c)'
    BY <1>1 DEF Bundle!HeadWas, Bundle!WorkWas
  <2>2. \A f, c : Bundle!ExtraWas(f, c) => Bundle!ExtraWas(f, c)'
    BY <1>1 DEF Bundle!ExtraWas
  <2>3. /\ Bundle!Captured' = Bundle!Captured /\ (v7 = "capture")' = (v7 = "capture")
        /\ (v8 = "commit")' = (v8 = "commit")
    BY <1>1 DEF Bundle!Captured, Bundle!CaptureAt
  <2>4. /\ Bundle!Captured' => Bundle!HeadWas(v10.commit)' /\ \A f \in Paths \ v10.paths : Bundle!ExtraWas(f, Bundle!Absent)'
    BY <1>1, <2>1, <2>2, <2>3 DEF Bundle!IInv, Bundle!FirstReadings
  <2>5. v7' = "capture" /\ v8' = "commit" => \A f \in Paths \ v9.paths : Bundle!ExtraWas(f, Bundle!Absent)'
    BY <1>1, <2>2 DEF Bundle!IInv, Bundle!FirstReadings
  <2>6. v11 # Bundle!Empty => Bundle!HeadWas(v11.from)' /\ Bundle!WorkWas(v11.to)'
    BY <1>1, <2>1 DEF Bundle!IInv, Bundle!FirstReadings
  <2>7. \A f \in DOMAIN v12 : Bundle!ExtraWas(f, v12[f])'
    BY <1>1, <2>2 DEF Bundle!IInv, Bundle!FirstReadings
  <2> QED
    BY <1>1, <2>4, <2>5, <2>6, <2>7 DEF Bundle!FirstReadings
<1>4. Bundle!OneInstant'
  <2> SUFFICES ASSUME v7 = "after", ~v5' PROVE \E m \in v4' : Bundle!Between(m)'
    BY <1>1 DEF Bundle!OneInstant
  <2>1. /\ ~v5
        /\ t.head # v3.head => ~Bundle!HeadWas(t.head)
        /\ t.work # v3.work => ~Bundle!WorkWas(t.work)
        /\ \A f \in Paths : t.extra[f] # v3.extra[f] => ~Bundle!ExtraWas(f, t.extra[f])
    BY DEF Bundle!Changed, Bundle!HeadWas, Bundle!WorkWas, Bundle!ExtraWas
  <2>2. PICK m \in v4 : Bundle!Between(m)
    BY <2>1 DEF Bundle!IInv, Bundle!OneInstant
  <2>3. /\ v11 # Bundle!Empty /\ DOMAIN v12 = v10.paths
        /\ Bundle!HeadWas(v10.commit) /\ Bundle!HeadWas(v11.from) /\ Bundle!WorkWas(v11.to)
        /\ \A f \in Paths \ v10.paths : Bundle!ExtraWas(f, Bundle!Absent)
        /\ \A f \in v10.paths : Bundle!ExtraWas(f, v12[f])
    BY DEF Bundle!IInv, Bundle!Shapes, Bundle!FirstReadings, Bundle!Captured,
       Bundle!Patched, Bundle!Hashed
  <2>4. /\ v3.head # v10.commit => t.head # v10.commit
        /\ v3.head # v11.from => t.head # v11.from
        /\ v3.work # v11.to => t.work # v11.to
    BY <2>1, <2>3
  <2>5. /\ \A f \in Paths \cap v10.paths :
              v3.extra[f] # v12[f] => t.extra[f] # v12[f]
        /\ v10.paths \subseteq Paths
        /\ \A f \in Paths \ v10.paths : v3.extra[f] # Bundle!Absent => t.extra[f] # Bundle!Absent
    BY <2>1, <2>3 DEF Bundle!IInv, Bundle!Shapes
  <2>6. Bundle!Between(m)'
    BY <1>1, <2>2, <2>4, <2>5 DEF Bundle!Between
  <2> QED
    BY <1>1, <2>2, <2>6
<1>5. Bundle!BundleIsASnapshot'
  BY <1>1 DEF Bundle!BundleIsASnapshot
<1> QED
  BY <1>2, <1>3, <1>4, <1>5 DEF Bundle!IInv

\* The looks before the capture, and the first three reads of each.
LEMMA BundleLookKeeps ==
  ASSUME Bundle!IInv, Bundle!ImageState \/ Bundle!ReadTracked \/ Bundle!ReadPaths \/ Bundle!ReadCommit
  PROVE  Bundle!IInv'
<1>1. CASE Bundle!ImageState
  <2>1. /\ v7' = v7 \/ (v7' = "validate" /\ v7 = "admit")
        /\ v8' = v8 /\ v16' # "published" /\ v8 = "tracked"
        /\ UNCHANGED <<v3, v4, v5, v9, v10, v11, v12, v13,
                       v14, v15>>
    BY <1>1 DEF Bundle!ImageState, Bundle!capture, Bundle!End, Bundle!Continue, Bundle!Goto
  <2>2. Bundle!Captured' = Bundle!Captured /\ Bundle!Patched' = Bundle!Patched /\ Bundle!Hashed' = Bundle!Hashed
        /\ ~Bundle!CaptureAt({"patch"})' /\ ~Bundle!CaptureAt({"patch", "check"})'
    BY <2>1 DEF Bundle!Captured, Bundle!Patched, Bundle!Hashed, Bundle!CaptureAt
  <2>3. Bundle!Shapes'
    BY <2>1, <2>2 DEF Bundle!IInv, Bundle!Shapes
  <2>4. Bundle!FirstReadings'
    BY <2>1, <2>2 DEF Bundle!IInv, Bundle!FirstReadings, Bundle!HeadWas, Bundle!WorkWas,
       Bundle!ExtraWas
  <2>5. Bundle!OneInstant' /\ Bundle!BundleIsASnapshot'
    BY <2>1 DEF Bundle!IInv, Bundle!OneInstant, Bundle!BundleIsASnapshot, Bundle!Between
  <2> QED
    BY <2>3, <2>4, <2>5 DEF Bundle!IInv
<1>2. CASE Bundle!ReadTracked
  <2>1. /\ v8 = "tracked" /\ v8' = "paths" /\ v16' = ""
        /\ v9' = [v9 EXCEPT !.tracked = v3.work # v3.head]
        /\ v7 = "capture" => v4' = {v3}
        /\ v7 # "capture" => UNCHANGED <<v4, v5>>
        /\ UNCHANGED <<v7, v3, v10, v11, v12, v13, v14, v15>>
    BY <1>2 DEF Bundle!ReadTracked, Bundle!capture, Bundle!Continue, Bundle!Goto
  <2>2. /\ v9' = [tracked |-> v9'.tracked, paths |-> v9'.paths, commit |-> v9'.commit]
        /\ v9'.paths = v9.paths
    BY <2>1 DEF Bundle!IInv, Bundle!Shapes
  <2>3. Bundle!Captured' = Bundle!Captured /\ Bundle!Patched' = Bundle!Patched /\ Bundle!Hashed' = Bundle!Hashed
        /\ ~Bundle!CaptureAt({"patch"})' /\ ~Bundle!CaptureAt({"patch", "check"})'
    BY <2>1 DEF Bundle!Captured, Bundle!Patched, Bundle!Hashed, Bundle!CaptureAt
  <2>4. Bundle!Shapes'
    BY <2>1, <2>2, <2>3 DEF Bundle!IInv, Bundle!Shapes
  <2>5. Bundle!FirstReadings'
    <3>1. CASE v7 = "capture"
      <4>1. ~Bundle!Captured /\ v11 = Bundle!Empty /\ DOMAIN v12 = {}
        BY <2>1, <3>1 DEF Bundle!Captured, Bundle!CaptureAt, Bundle!IInv, Bundle!Shapes,
           Bundle!NoFiles
      <4> QED
        BY <4>1, <2>1, <2>3 DEF Bundle!FirstReadings
    <3>2. CASE v7 # "capture"
      BY <2>1, <2>3, <3>2 DEF Bundle!IInv, Bundle!FirstReadings, Bundle!HeadWas,
         Bundle!WorkWas, Bundle!ExtraWas
    <3> QED
      BY <3>1, <3>2
  <2>6. Bundle!OneInstant'
    <3> SUFFICES ASSUME v7 = "after", ~v5' PROVE \E m \in v4' : Bundle!Between(m)'
      BY <2>1 DEF Bundle!OneInstant
    <3>0. ~v5
      BY <2>1, Zenon
    <3>1. PICK m \in v4 : Bundle!Between(m)
      BY <3>0 DEF Bundle!IInv, Bundle!OneInstant
    <3>2. Bundle!Between(m)'
      BY <2>1, <3>1 DEF Bundle!Between
    <3> QED
      BY <2>1, <3>1, <3>2
  <2>7. Bundle!BundleIsASnapshot'
    BY <2>1 DEF Bundle!BundleIsASnapshot
  <2> QED
    BY <2>4, <2>5, <2>6, <2>7 DEF Bundle!IInv
<1>3. CASE Bundle!ReadPaths
  <2> DEFINE paths == {f \in Paths : v3.extra[f] # Bundle!Absent}
  <2>1. /\ v8 = "paths" /\ v8' = "commit" /\ v16' = ""
        /\ v9' = [v9 EXCEPT !.paths = paths]
        /\ UNCHANGED <<v7, v3, v4, v5, v10, v11, v12, v13,
                       v14, v15>>
    BY <1>3 DEF Bundle!ReadPaths, Bundle!capture, Bundle!Continue, Bundle!Goto
  <2>2. /\ v9' = [tracked |-> v9'.tracked, paths |-> v9'.paths, commit |-> v9'.commit]
        /\ v9'.paths = paths
    <3> HIDE DEF paths
    <3> QED
      BY <2>1 DEF Bundle!IInv, Bundle!Shapes
  <2>3. Bundle!Captured' = Bundle!Captured /\ Bundle!Patched' = Bundle!Patched /\ Bundle!Hashed' = Bundle!Hashed
        /\ ~Bundle!CaptureAt({"patch"})' /\ ~Bundle!CaptureAt({"patch", "check"})'
    BY <2>1 DEF Bundle!Captured, Bundle!Patched, Bundle!Hashed, Bundle!CaptureAt
  <2>4. Bundle!Shapes'
    BY <2>1, <2>2, <2>3 DEF Bundle!IInv, Bundle!Shapes
  <2>5. Bundle!FirstReadings'
    <3>1. \A f \in Paths \ paths : Bundle!ExtraWas(f, Bundle!Absent)
      BY DEF Bundle!IInv, Bundle!Shapes, Bundle!ExtraWas
    <3> QED
      BY <2>1, <2>2, <2>3, <3>1 DEF Bundle!IInv, Bundle!FirstReadings, Bundle!HeadWas,
         Bundle!WorkWas, Bundle!ExtraWas
  <2>6. Bundle!OneInstant'
    <3> SUFFICES ASSUME v7 = "after", ~v5 PROVE \E m \in v4 : Bundle!Between(m)'
      BY <2>1 DEF Bundle!OneInstant
    <3>1. PICK m \in v4 : Bundle!Between(m)
      BY <2>1 DEF Bundle!IInv, Bundle!OneInstant
    <3>2. \A f \in Paths : v3.extra[f] # Bundle!Absent => f \in paths
      OBVIOUS
    <3> HIDE DEF paths
    <3>3. Bundle!Between(m)'
      BY <2>1, <2>2, <3>1, <3>2 DEF Bundle!Between
    <3> QED
      BY <3>1, <3>3
  <2>7. Bundle!BundleIsASnapshot'
    BY <2>1 DEF Bundle!BundleIsASnapshot
  <2> QED
    BY <2>4, <2>5, <2>6, <2>7 DEF Bundle!IInv
<1>4. CASE Bundle!ReadCommit
  <2> DEFINE seen == [v9 EXCEPT !.commit = v3.head]
  <2>1. /\ v8 = "commit" /\ v9' = seen /\ v16' # "published"
        /\ UNCHANGED <<v3, v4, v5, v11, v12, v13, v14,
                       v15>>
    BY <1>4 DEF Bundle!ReadCommit, Bundle!capture, Bundle!Continue, Bundle!Goto, Bundle!End
  <2>2. \/ /\ v7 \in {"admit", "validate"} /\ v10' = v10 /\ v7' = v7 /\ v8' = v8
        \/ /\ v7 \in {"admit", "validate"} /\ v10' = v10
           /\ v7' \in {"validate", "capture"} /\ v8' = "tracked"
        \/ v7 = "capture" /\ v7' = "capture" /\ v8' = "patch" /\ v10' = seen
        \/ v7 = "after" /\ v7' = "after" /\ v8' = "patch" /\ v10' = v10
    BY <1>4 DEF Bundle!ReadCommit, Bundle!Continue, Bundle!Goto, Bundle!End
  <2>3. /\ seen = [tracked |-> v9.tracked, paths |-> v9.paths, commit |-> v3.head]
        /\ v9.paths \subseteq Paths
    BY DEF Bundle!IInv, Bundle!Shapes
  <2>4. /\ seen.paths = v9.paths /\ seen.commit = v3.head
        /\ seen = [tracked |-> seen.tracked, paths |-> seen.paths, commit |-> seen.commit]
    BY <2>3
  <2> HIDE DEF seen
  <2>5. CASE v7 \in {"admit", "validate"}
    <3>1. /\ ~Bundle!Captured /\ ~Bundle!Captured' /\ ~Bundle!Patched' /\ ~Bundle!Hashed' /\ ~(v7' = "after")
          /\ ~Bundle!CaptureAt({"patch"})' /\ ~Bundle!CaptureAt({"patch", "check"})'
          /\ ~(v7' = "capture" /\ v8' = "commit") /\ v8' \in {"commit", "tracked"}
          /\ v10' = v10
      BY <2>1, <2>2, <2>5 DEF Bundle!Captured, Bundle!Patched, Bundle!Hashed, Bundle!CaptureAt
    <3>2. v11 = Bundle!Empty /\ v12 = Bundle!NoFiles /\ DOMAIN v12 = {}
      BY <3>1 DEF Bundle!IInv, Bundle!Shapes, Bundle!NoFiles
    <3> QED
      BY <2>1, <2>4, <2>5, <3>1, <3>2 DEF Bundle!IInv, Bundle!Shapes, Bundle!FirstReadings,
         Bundle!OneInstant, Bundle!BundleIsASnapshot
  <2>6. CASE v7 = "capture"
    <3>1. /\ v7' = "capture" /\ v8' = "patch" /\ v10' = seen
          /\ ~Bundle!Captured /\ Bundle!Captured' /\ ~Bundle!Patched' /\ ~Bundle!Hashed'
      BY <2>1, <2>2, <2>6 DEF Bundle!Captured, Bundle!Patched, Bundle!Hashed, Bundle!CaptureAt
    <3>2. v11 = Bundle!Empty /\ v12 = Bundle!NoFiles /\ DOMAIN v12 = {}
      BY <3>1 DEF Bundle!IInv, Bundle!Shapes, Bundle!NoFiles
    <3>3. Bundle!Shapes'
      BY <2>1, <2>3, <2>4, <2>6, <3>1, <3>2 DEF Bundle!IInv, Bundle!Shapes
    <3>4. Bundle!HeadWas(v3.head) /\ \A f \in Paths \ v9.paths : Bundle!ExtraWas(f, Bundle!Absent)
      BY <2>1, <2>6 DEF Bundle!IInv, Bundle!Shapes, Bundle!FirstReadings, Bundle!HeadWas
    <3>5. Bundle!FirstReadings'
      BY <2>1, <2>4, <3>1, <3>2, <3>4 DEF Bundle!FirstReadings, Bundle!HeadWas,
         Bundle!ExtraWas
    <3> QED
      BY <2>1, <3>1, <3>3, <3>5 DEF Bundle!IInv, Bundle!OneInstant, Bundle!BundleIsASnapshot
  <2>7. CASE v7 = "after"
    <3>1. /\ v7' = "after" /\ v8' = "patch" /\ v10' = v10
          /\ Bundle!Captured /\ Bundle!Patched /\ Bundle!Hashed /\ Bundle!Captured' /\ Bundle!Patched' /\ Bundle!Hashed'
          /\ ~Bundle!CaptureAt({"patch"})' /\ ~Bundle!CaptureAt({"patch", "check"})'
      BY <2>1, <2>2, <2>7 DEF Bundle!Captured, Bundle!Patched, Bundle!Hashed, Bundle!CaptureAt
    <3>2. Bundle!Shapes'
      BY <2>1, <2>3, <2>4, <2>7, <3>1 DEF Bundle!IInv, Bundle!Shapes
    <3>3. Bundle!FirstReadings'
      BY <2>1, <3>1 DEF Bundle!IInv, Bundle!FirstReadings, Bundle!HeadWas, Bundle!WorkWas,
         Bundle!ExtraWas
    <3>4. Bundle!OneInstant'
      BY <2>1, <2>4, <2>7, <3>1 DEF Bundle!IInv, Bundle!OneInstant, Bundle!Between
    <3> QED
      BY <2>1, <3>2, <3>3, <3>4 DEF Bundle!IInv, Bundle!BundleIsASnapshot
  <2> QED
    BY <2>2, <2>5, <2>6, <2>7
<1> QED
  BY <1>1, <1>2, <1>3, <1>4

\* The readings of the capture find what the tree is at one of its instants.
LEMMA BundleCaptureKeeps ==
  ASSUME Bundle!IInv, v7 = "capture", Bundle!ReadPatch \/ Bundle!CheckPatch \/ Bundle!HashFile \/ Bundle!ArchiveFile
  PROVE  Bundle!IInv'
<1>1. CASE Bundle!ReadPatch
  <2>1. /\ v8 = "patch" /\ v8' = "check" /\ v7' = "capture" /\ v16' = "" /\ v11' = Bundle!Diff
        /\ UNCHANGED <<v3, v4, v9, v10, v12, v13, v15>>
    BY <1>1 DEF Bundle!ReadPatch, Bundle!Continue, Bundle!Goto
  <2>2. /\ Bundle!Captured /\ Bundle!Captured' /\ ~Bundle!Patched' /\ ~Bundle!Hashed' /\ v12 = Bundle!NoFiles
    BY <2>1 DEF Bundle!Captured, Bundle!Patched, Bundle!Hashed, Bundle!CaptureAt,
       Bundle!IInv, Bundle!Shapes
  <2>3. Bundle!Shapes'
    BY <2>1, <2>2 DEF Bundle!IInv, Bundle!Shapes, Bundle!CaptureAt
  <2>4. v11' # Bundle!Empty => Bundle!HeadWas(v11'.from) /\ Bundle!WorkWas(v11'.to)
    BY <2>1 DEF Bundle!Diff, Bundle!IInv, Bundle!Shapes, Bundle!HeadWas, Bundle!WorkWas
  <2>5. Bundle!FirstReadings'
    BY <2>1, <2>2, <2>4 DEF Bundle!IInv, Bundle!FirstReadings, Bundle!HeadWas,
       Bundle!WorkWas, Bundle!ExtraWas
  <2> QED
    BY <2>1, <2>3, <2>5 DEF Bundle!IInv, Bundle!OneInstant, Bundle!BundleIsASnapshot
<1>2. CASE Bundle!CheckPatch
  <2>1. /\ v8 = "check" /\ v7' = "capture" /\ v16' # "published"
        /\ v8' = v8 \/ (v8' = "hash" /\ v11 # Bundle!Empty)
        /\ UNCHANGED <<v3, v4, v9, v10, v11, v12, v13, v15>>
    BY <1>2 DEF Bundle!CheckPatch, Bundle!Continue, Bundle!Goto, Bundle!End, Bundle!capture
  <2>2. Bundle!Captured /\ Bundle!Captured' /\ ~Bundle!Hashed' /\ (Bundle!Patched' => v11 # Bundle!Empty) /\ v12 = Bundle!NoFiles
        /\ ~Bundle!CaptureAt({"patch"})'
    BY <2>1 DEF Bundle!Captured, Bundle!Patched, Bundle!Hashed, Bundle!CaptureAt,
       Bundle!IInv, Bundle!Shapes
  <2>3. Bundle!Shapes'
    BY <2>1, <2>2 DEF Bundle!IInv, Bundle!Shapes
  <2>4. Bundle!FirstReadings'
    BY <2>1, <2>2 DEF Bundle!IInv, Bundle!FirstReadings, Bundle!HeadWas, Bundle!WorkWas,
       Bundle!ExtraWas
  <2> QED
    BY <2>1, <2>3, <2>4 DEF Bundle!IInv, Bundle!OneInstant, Bundle!BundleIsASnapshot
<1>3. CASE Bundle!HashFile
  <2>1. /\ v8 = "hash" /\ v7' = "capture" /\ v16' # "published"
        /\ UNCHANGED <<v3, v4, v9, v10, v11, v13, v15>>
    BY <1>3 DEF Bundle!HashFile, Bundle!Continue, Bundle!Goto, Bundle!End
  <2>2. \/ v12' = v12 /\ v8' = v8
        \/ v12' = v12 /\ v8' = "archive" /\ v10.paths = DOMAIN v12
        \/ \E f \in v10.paths :
             /\ v8' = v8
             /\ v12' = [g \in DOMAIN v12 \cup {f} |->
                             IF g = f THEN v3.extra[f] ELSE v12[g]]
    BY <1>3 DEF Bundle!HashFile, Bundle!Continue, Bundle!Goto, Bundle!End
  <2>3. v8' \in {"hash", "archive"} /\ (v8' = "archive" => DOMAIN v12' = v10.paths)
    BY <2>1, <2>2
  <2>4. /\ Bundle!Captured /\ Bundle!Captured' /\ Bundle!Patched /\ Bundle!Patched' /\ (Bundle!Hashed' => DOMAIN v12' = v10.paths)
        /\ ~Bundle!CaptureAt({"patch"})' /\ ~Bundle!CaptureAt({"patch", "check"})'
    BY <2>1, <2>3 DEF Bundle!Captured, Bundle!Patched, Bundle!Hashed, Bundle!CaptureAt
  <2>5. Bundle!Shapes'
    BY <2>1, <2>3, <2>4 DEF Bundle!IInv, Bundle!Shapes
  <2>6. \A f \in DOMAIN v12' : Bundle!ExtraWas(f, v12'[f])
    BY <2>2 DEF Bundle!IInv, Bundle!Shapes, Bundle!FirstReadings, Bundle!ExtraWas
  <2>7. Bundle!FirstReadings'
    BY <2>1, <2>3, <2>4, <2>6 DEF Bundle!IInv, Bundle!FirstReadings, Bundle!HeadWas,
       Bundle!WorkWas, Bundle!ExtraWas
  <2> QED
    BY <2>1, <2>5, <2>7 DEF Bundle!IInv, Bundle!OneInstant, Bundle!BundleIsASnapshot
<1>4. CASE Bundle!ArchiveFile
  <2>1. /\ v8 = "archive" /\ v16' # "published"
        /\ UNCHANGED <<v3, v4, v5, v9, v10, v11, v12, v14,
                       v15>>
        /\ \/ v7' = v7 /\ v8' = v8
           \/ v7' = "after" /\ v8' = "tracked" /\ v13' = v12
    BY <1>4 DEF Bundle!ArchiveFile, Bundle!Continue, Bundle!Goto, Bundle!End
  <2>2. /\ Bundle!Captured /\ Bundle!Captured' /\ Bundle!Patched /\ Bundle!Patched' /\ Bundle!Hashed /\ Bundle!Hashed'
        /\ ~Bundle!CaptureAt({"patch"})' /\ ~Bundle!CaptureAt({"patch", "check"})'
    BY <2>1 DEF Bundle!Captured, Bundle!Patched, Bundle!Hashed, Bundle!CaptureAt
  <2>3. Bundle!Shapes'
    BY <2>1, <2>2 DEF Bundle!IInv, Bundle!Shapes
  <2>4. Bundle!FirstReadings'
    BY <2>1, <2>2 DEF Bundle!IInv, Bundle!FirstReadings, Bundle!HeadWas, Bundle!WorkWas,
       Bundle!ExtraWas
  <2>5. Bundle!OneInstant'
    <3> SUFFICES ASSUME v7' = "after" PROVE \E m \in v4 : Bundle!Between(m)'
      BY <2>1 DEF Bundle!OneInstant
    <3>1. v8' = "tracked" /\ v3 \in v4 /\ DOMAIN v15 = {}
      BY <2>1 DEF Bundle!IInv, Bundle!Shapes, Bundle!NoFiles
    <3>2. PICK m \in v4 : m = v3
      BY <3>1
    <3>3. Bundle!Between(m)'
      BY <2>1, <3>1, <3>2 DEF Bundle!Between
    <3> QED
      BY <3>3
  <2> QED
    BY <2>1, <2>3, <2>4, <2>5 DEF Bundle!IInv, Bundle!BundleIsASnapshot
<1> QED
  BY <1>1, <1>2, <1>3, <1>4

\* The second reading finds every part as it is by then.
LEMMA BundleSecondReadingKeeps ==
  ASSUME Bundle!IInv, v7 = "after", Bundle!ReadPatch \/ Bundle!HashFile
  PROVE  Bundle!IInv'
<1>1. CASE Bundle!ReadPatch
  <2>1. /\ v8 = "patch" /\ v8' = "hash" /\ v7' = "after" /\ v16' = ""
        /\ v14' = Bundle!Diff
        /\ UNCHANGED <<v3, v4, v5, v9, v10, v11, v12, v13,
                       v15>>
    BY <1>1 DEF Bundle!ReadPatch, Bundle!Continue, Bundle!Goto
  <2>2. /\ Bundle!Captured /\ Bundle!Captured' /\ Bundle!Patched /\ Bundle!Patched' /\ Bundle!Hashed /\ Bundle!Hashed'
        /\ ~Bundle!CaptureAt({"patch"})' /\ ~Bundle!CaptureAt({"patch", "check"})'
    BY <2>1 DEF Bundle!Captured, Bundle!Patched, Bundle!Hashed, Bundle!CaptureAt
  <2>3. Bundle!Shapes'
    BY <2>1, <2>2 DEF Bundle!IInv, Bundle!Shapes
  <2>4. Bundle!FirstReadings'
    BY <2>1, <2>2 DEF Bundle!IInv, Bundle!FirstReadings, Bundle!HeadWas, Bundle!WorkWas,
       Bundle!ExtraWas
  <2>5. Bundle!OneInstant'
    <3> SUFFICES ASSUME ~v5 PROVE \E m \in v4 : Bundle!Between(m)'
      BY <2>1 DEF Bundle!OneInstant
    <3>1. PICK m \in v4 : Bundle!Between(m)
      BY DEF Bundle!IInv, Bundle!OneInstant
    <3>2. v11 # Bundle!Empty
      BY <2>2 DEF Bundle!IInv, Bundle!Shapes
    <3>3. /\ v3.head # v11.from => v14' # v11
          /\ v3.work # v11.to => v14' # v11
      <4>1. v14' = Bundle!Empty \/ v14' = [from |-> v3.head, to |-> v3.work]
        BY <2>1 DEF Bundle!Diff
      <4> QED
        BY <3>2, <4>1
    <3>4. Bundle!Between(m)'
      BY <2>1, <3>1, <3>3 DEF Bundle!Between
    <3> QED
      BY <3>4
  <2> QED
    BY <2>1, <2>3, <2>4, <2>5 DEF Bundle!IInv, Bundle!BundleIsASnapshot
<1>2. CASE Bundle!HashFile
  <2>1. /\ v8 = "hash" /\ v8' \in {"hash", "again"} /\ v7' = "after"
        /\ v16' # "published"
        /\ UNCHANGED <<v3, v4, v5, v9, v10, v11, v12, v13,
                       v14>>
    BY <1>2 DEF Bundle!HashFile, Bundle!Continue, Bundle!Goto, Bundle!End
  <2>2. \/ v15' = v15
        \/ \E f : v15' = [g \in DOMAIN v15 \cup {f} |->
                                    IF g = f THEN v3.extra[f] ELSE v15[g]]
    BY <1>2 DEF Bundle!HashFile, Bundle!Continue, Bundle!Goto, Bundle!End
  <2>3. /\ Bundle!Captured /\ Bundle!Captured' /\ Bundle!Patched /\ Bundle!Patched' /\ Bundle!Hashed /\ Bundle!Hashed'
        /\ ~Bundle!CaptureAt({"patch"})' /\ ~Bundle!CaptureAt({"patch", "check"})'
    BY <2>1 DEF Bundle!Captured, Bundle!Patched, Bundle!Hashed, Bundle!CaptureAt
  <2>4. Bundle!Shapes'
    BY <2>1, <2>3 DEF Bundle!IInv, Bundle!Shapes
  <2>5. Bundle!FirstReadings'
    BY <2>1, <2>3 DEF Bundle!IInv, Bundle!FirstReadings, Bundle!HeadWas, Bundle!WorkWas,
       Bundle!ExtraWas
  <2>6. Bundle!OneInstant'
    <3> SUFFICES ASSUME ~v5 PROVE \E m \in v4 : Bundle!Between(m)'
      BY <2>1 DEF Bundle!OneInstant
    <3>1. PICK m \in v4 : Bundle!Between(m)
      BY DEF Bundle!IInv, Bundle!OneInstant
    <3>2. \A g \in DOMAIN v15' :
            \/ v15'[g] = v3.extra[g]
            \/ g \in DOMAIN v15 /\ v15'[g] = v15[g]
      BY <2>2
    <3>3. Bundle!Between(m)'
      BY <2>1, <3>1, <3>2 DEF Bundle!Between
    <3> QED
      BY <3>3
  <2> QED
    BY <2>1, <2>4, <2>5, <2>6 DEF Bundle!IInv, Bundle!BundleIsASnapshot
<1> QED
  BY <1>1, <1>2

\* What agrees with both readings is what the tree was in between.
LEMMA BundlePublishKeeps ==
  ASSUME Bundle!IInv, Bundle!Publish
  PROVE  Bundle!IInv'
<1>1. /\ v8 = "again" /\ v7 = "after"
      /\ v16' = IF Bundle!SameSource THEN "published" ELSE "refused"
      /\ UNCHANGED <<v7, v8, v3, v4, v5, v9, v10, v11, v12, v13,
                     v14, v15>>
  BY DEF Bundle!Publish, Bundle!End, Bundle!capture, Bundle!IInv, Bundle!Shapes
<1>2. Bundle!Shapes' /\ Bundle!FirstReadings' /\ Bundle!OneInstant'
  BY <1>1 DEF Bundle!IInv, Bundle!Shapes, Bundle!FirstReadings, Bundle!OneInstant,
     Bundle!Between, Bundle!HeadWas, Bundle!WorkWas, Bundle!ExtraWas,
     Bundle!Captured, Bundle!Patched, Bundle!Hashed, Bundle!CaptureAt
<1>3. Bundle!BundleIsASnapshot'
  <2> SUFFICES ASSUME Bundle!SameSource, ~v5
               PROVE  /\ v11.from = v10.commit
                      /\ \E t \in v4 :
                           /\ t.head = v10.commit /\ t.work = v11.to
                           /\ \A f \in Paths : t.extra[f] = IF f \in DOMAIN v13
                                                            THEN v13[f] ELSE Bundle!Absent
    BY <1>1 DEF Bundle!BundleIsASnapshot
  <2>1. PICK m \in v4 : Bundle!Between(m)
    BY <1>1 DEF Bundle!IInv, Bundle!OneInstant
  <2>2. /\ v9 = v10 /\ v14 = v11 /\ v15 = v12 /\ v13 = v12
        /\ DOMAIN v12 = v10.paths
    BY <1>1 DEF Bundle!SameSource, Bundle!IInv, Bundle!Shapes, Bundle!Hashed
  <2>3. m.head = v10.commit /\ m.head = v11.from /\ m.work = v11.to
    BY <1>1, <2>1, <2>2 DEF Bundle!Between
  <2>4. /\ \A f \in v10.paths : m.extra[f] = v13[f]
        /\ \A f \in Paths \ v10.paths : m.extra[f] = Bundle!Absent
    BY <1>1, <2>1, <2>2 DEF Bundle!Between
  <2> QED
    BY <2>2, <2>3, <2>4
<1> QED
  BY <1>2, <1>3 DEF Bundle!IInv

LEMMA BundleStepPreserves ==
  ASSUME Bundle!IInv, [Bundle!Next]_Bundle!vars
  PROVE  Bundle!IInv'
<1>1. CASE Bundle!EditTracked \/ Bundle!EditUntracked \/ Bundle!Commit
  BY <1>1, BundleEditKeeps DEF Bundle!EditTracked, Bundle!EditUntracked, Bundle!Commit
<1>2. CASE Bundle!ReadPatch \/ Bundle!CheckPatch \/ Bundle!HashFile \/ Bundle!ArchiveFile
  <2>1. v7 \in {"capture", "after"} /\ (Bundle!CheckPatch \/ Bundle!ArchiveFile => v7 = "capture")
    BY <1>2 DEF Bundle!ReadPatch, Bundle!CheckPatch, Bundle!HashFile, Bundle!ArchiveFile,
       Bundle!IInv, Bundle!Shapes
  <2> QED
    BY <1>2, <2>1, BundleCaptureKeeps, BundleSecondReadingKeeps
<1>3. CASE UNCHANGED Bundle!vars
  BY <1>3 DEF Bundle!vars, Bundle!capture, Bundle!IInv, Bundle!Shapes, Bundle!FirstReadings,
     Bundle!OneInstant, Bundle!Between, Bundle!HeadWas,
     Bundle!WorkWas, Bundle!ExtraWas, Bundle!Captured, Bundle!Patched, Bundle!Hashed,
        Bundle!CaptureAt, Bundle!BundleIsASnapshot
<1> QED
  BY <1>1, <1>2, <1>3, BundleLookKeeps, BundlePublishKeeps DEF Bundle!Next

-----------------------------------------------------------------------------
\* Ancestry (RunLineage): what a launcher has recorded in its directory stays its own.
\* Variables: v1 code, v2 parent, v3 launcher, v4 metadata, v5 recorded, v6 sidecar,
\*   v7 manifest, v8 link, v9 saved, v10 edit.

LEMMA AncestryInitIInv == Ancestry!Init => Ancestry!IInv
<1> SUFFICES ASSUME Ancestry!Init PROVE Ancestry!IInv
  OBVIOUS
<1>1. Ancestry!Types
  BY LineageParameters DEF Ancestry!Init, Ancestry!Types, Ancestry!Versions,
     Ancestry!Progress, Ancestry!Stages, Ancestry!None
<1>2. \A l \in Launchers : Ancestry!At(l, "idle") /\ Ancestry!Dir(l) = Ancestry!None /\ v3[l].began = Ancestry!None
        /\ v3[l].trainer = Ancestry!None /\ v3[l].saves = 0
  BY DEF Ancestry!Init, Ancestry!At, Ancestry!Dir
<1>3. Ancestry!Names /\ Ancestry!Unused
  BY DEF Ancestry!Init, Ancestry!Names, Ancestry!Unused
<1>4. ASSUME NEW l \in Launchers PROVE Ancestry!Account(l)
  BY <1>2 DEF Ancestry!Account, Ancestry!Stands, Ancestry!Identified, Ancestry!Linked,
     Ancestry!SavedByItself, Ancestry!LaunchManifest, Ancestry!LeftManifest,
       Ancestry!At, Ancestry!Underway, Ancestry!Described, Ancestry!Recorded
<1> QED
  BY <1>1, <1>3, <1>4 DEF Ancestry!IInv

\* What follows for the properties.
LEMMA AncestryTruthful ==
  ASSUME Ancestry!IInv
  PROVE  Ancestry!ResumesItsParent /\ Ancestry!ManifestIsOfTheRun /\ Ancestry!CommitIsTheLaunchers
<1>1. Ancestry!ResumesItsParent /\ Ancestry!ManifestIsOfTheRun
  BY DEF Ancestry!IInv, Ancestry!Account, Ancestry!Stands, Ancestry!LeftManifest,
     Ancestry!ResumesItsParent, Ancestry!ManifestIsOfTheRun
<1>2. Ancestry!CommitIsTheLaunchers
  BY DEF Ancestry!IInv, Ancestry!Account, Ancestry!Stands, Ancestry!Identified,
     Ancestry!CommitIsTheLaunchers, Ancestry!Provenance, Ancestry!Began, Ancestry!Described,
     Ancestry!Recorded
<1> QED
  BY <1>1, <1>2

\* A step of one launcher in the directory it has, or takes, leaves the account of the
\* others true.
LEMMA AncestryOthersKeepTheirAccount ==
  ASSUME Ancestry!IInv, NEW l \in Launchers, NEW w \in Ancestry!Progress,
         v3' = [v3 EXCEPT ![l] = w], Ancestry!At(l, "idle") \/ w.dir = Ancestry!Dir(l),
         \A d \in Dirs \ {w.dir} : v4'[d] = v4[d] /\ v9'[d] = v9[d]
                                   /\ v7'[d] = v7[d],
         \A d \in Dirs : v5[d] # Ancestry!None => v5'[d] # Ancestry!None,
         \A d \in Dirs : v8[d] # Ancestry!None => v8'[d] = v8[d],
         NEW m \in Launchers \ {l}
  PROVE  Ancestry!Account(m)'
<1>1. v3'[m] = v3[m] /\ v3'[l] = w /\ Ancestry!Account(m)
  BY DEF Ancestry!IInv, Ancestry!Types
<1>2. ASSUME ~Ancestry!At(m, "idle")
      PROVE  Ancestry!Dir(m) \in Dirs /\ Ancestry!Dir(m) # Ancestry!None
  BY <1>1, <1>2 DEF Ancestry!Account, Ancestry!Stands, Ancestry!IInv, Ancestry!Types,
     Ancestry!Progress, Ancestry!Dir
<1>3. ASSUME ~Ancestry!At(m, "idle"), Ancestry!Alone(m)'
      PROVE  Ancestry!Alone(m) /\ w.dir # Ancestry!Dir(m)
  BY <1>1, <1>2, <1>3 DEF Ancestry!Alone, Ancestry!Dir, Ancestry!IInv, Ancestry!Types,
     Ancestry!Account, Ancestry!Stands
<1>4. ASSUME ~Ancestry!At(m, "idle"), Ancestry!Alone(m)'
      PROVE  /\ Ancestry!Alone(m) /\ v4'[Ancestry!Dir(m)] = v4[Ancestry!Dir(m)]
             /\ v9'[Ancestry!Dir(m)] = v9[Ancestry!Dir(m)] /\ v7'[Ancestry!Dir(m)] = v7[Ancestry!Dir(m)]
  BY <1>2, <1>3, <1>4
<1>5. Ancestry!Stands(m)'
  BY <1>1 DEF Ancestry!Account, Ancestry!Stands, Ancestry!At, Ancestry!Dir, Ancestry!Resumes
<1>6. Ancestry!Identified(m)'
  BY <1>1, <1>2, <1>4 DEF Ancestry!Account, Ancestry!Identified, Ancestry!At, Ancestry!Dir,
     Ancestry!Described, Ancestry!Recorded
<1>7. Ancestry!Linked(m)'
  BY <1>1, <1>2 DEF Ancestry!Account, Ancestry!Linked, Ancestry!At, Ancestry!Dir,
     Ancestry!Underway, Ancestry!Resumes
<1>8. Ancestry!SavedByItself(m)'
  BY <1>1, <1>4 DEF Ancestry!Account, Ancestry!SavedByItself, Ancestry!At, Ancestry!Dir,
     Ancestry!Resumes
<1>9. Ancestry!LaunchManifest(m)'
  BY <1>1, <1>4 DEF Ancestry!Account, Ancestry!LaunchManifest, Ancestry!At, Ancestry!Dir
<1>10. Ancestry!LeftManifest(m)'
  BY <1>1, <1>4 DEF Ancestry!Account, Ancestry!LeftManifest, Ancestry!SpeaksOfTheRun,
     Ancestry!At, Ancestry!Dir
<1> QED
  BY <1>5, <1>6, <1>7, <1>8, <1>9, <1>10 DEF Ancestry!Account

LEMMA AncestryLauncherGoesOn ==
  ASSUME Ancestry!IInv, NEW l \in Launchers, NEW w \in Ancestry!Progress, UNCHANGED <<v1, v10>>,
         v3' = [v3 EXCEPT ![l] = w],
         w.dir \in Dirs, Ancestry!At(l, "idle") \/ w.dir = Ancestry!Dir(l),
         v4' \in [Dirs -> Launchers \cup {Ancestry!None}],
         v5' \in [Dirs -> Ancestry!Versions \cup {Ancestry!None}],
         v8' \in [Dirs -> Parents \cup {Ancestry!None}],
         DOMAIN v7' = Dirs, DOMAIN v9' = Dirs,
         v4'[w.dir] \in {v4[w.dir], l},
         \A d \in Dirs \ {w.dir} : v4'[d] = v4[d] /\ v9'[d] = v9[d]
                                   /\ v7'[d] = v7[d],
         \A d \in Dirs : v5[d] # Ancestry!None => v5'[d] # Ancestry!None,
         \A d \in Dirs : v8[d] # Ancestry!None => v8'[d] = v8[d],
         Ancestry!Account(l)'
  PROVE  Ancestry!IInv'
<1>1. Ancestry!Types'
  BY DEF Ancestry!IInv, Ancestry!Types
<1>2. v3'[l] = w /\ \A m \in Launchers \ {l} : v3'[m] = v3[m]
  BY DEF Ancestry!IInv, Ancestry!Types
<1>3. \A m \in Launchers : Ancestry!Dir(m) \in Dirs => Ancestry!Dir(m)' = Ancestry!Dir(m)
  BY <1>2, LineageParameters DEF Ancestry!Dir, Ancestry!IInv, Ancestry!Account,
     Ancestry!Stands, Ancestry!None
<1>4. Ancestry!Names'
  <2>1. \A d \in Dirs : v4'[d] # Ancestry!None =>
            v4'[d] \in Launchers /\ v3'[v4'[d]].dir = d
    BY <1>2, <1>3 DEF Ancestry!IInv, Ancestry!Names, Ancestry!Types, Ancestry!Dir
  <2>2. \/ v10' = Ancestry!NoEdit
        \/ /\ v10'.dir \in Dirs /\ v10'.copy \in Launchers
           /\ v3'[v10'.copy].dir = v10'.dir
    BY <1>2, <1>3 DEF Ancestry!IInv, Ancestry!Names, Ancestry!Dir
  <2> QED
    BY <2>1, <2>2 DEF Ancestry!Names, Ancestry!Dir
<1>5. Ancestry!Unused'
  <2> SUFFICES ASSUME NEW d \in Dirs, \A m \in Launchers : Ancestry!Dir(m)' # d PROVE v9'[d] = <<>>
    BY DEF Ancestry!Unused
  <2>1. d # w.dir /\ \A m \in Launchers : Ancestry!Dir(m) # d
    BY <1>2, <1>3 DEF Ancestry!Dir
  <2> QED
    BY <2>1 DEF Ancestry!IInv, Ancestry!Unused
<1>6. \A m \in Launchers \ {l} : Ancestry!Account(m)'
  BY AncestryOthersKeepTheirAccount
<1> QED
  BY <1>1, <1>4, <1>5, <1>6 DEF Ancestry!IInv

\* A launcher that only goes on keeps its account when it may be where it is now.
LEMMA AncestryStaysAlone ==
  ASSUME Ancestry!Types, NEW l \in Launchers, NEW w \in Ancestry!Progress,
         v3' = [v3 EXCEPT ![l] = w], w.dir = Ancestry!Dir(l)
  PROVE  /\ v3'[l] = w /\ Ancestry!Dir(l)' = Ancestry!Dir(l)
         /\ Ancestry!Alone(l)' <=> Ancestry!Alone(l)
BY DEF Ancestry!Types, Ancestry!Dir, Ancestry!Alone

Moved(l, stage) == [v3[l] EXCEPT !.at = stage]

LEMMA AncestryMovedFields ==
  ASSUME Ancestry!Types, NEW l \in Launchers, NEW stage \in Ancestry!Stages
  PROVE  /\ Moved(l, stage) \in Ancestry!Progress
         /\ Moved(l, stage) = [at |-> stage, dir |-> Ancestry!Dir(l), from |-> v3[l].from,
              began |-> v3[l].began, trainer |-> v3[l].trainer,
              loaded |-> v3[l].loaded, saves |-> v3[l].saves]
         /\ Ancestry!Goto(l, stage) => v3' = [v3 EXCEPT ![l] = Moved(l, stage)]
<1>1. v3[l] \in Ancestry!Progress
  BY DEF Ancestry!Types
<1>2. Moved(l, stage) = [at |-> stage, dir |-> Ancestry!Dir(l), from |-> v3[l].from,
              began |-> v3[l].began, trainer |-> v3[l].trainer,
              loaded |-> v3[l].loaded, saves |-> v3[l].saves]
  BY <1>1 DEF Moved, Ancestry!Progress, Ancestry!Dir
<1>3. Moved(l, stage) \in Ancestry!Progress
  BY <1>1, <1>2 DEF Ancestry!Progress, Ancestry!Dir
<1>4. Ancestry!Goto(l, stage) => v3' = [v3 EXCEPT ![l] = Moved(l, stage)]
  BY DEF Ancestry!Goto, Moved, Ancestry!Types
<1> QED
  BY <1>2, <1>3, <1>4

LEMMA AncestryPlacedHasADir ==
  ASSUME Ancestry!IInv, NEW l \in Launchers, ~Ancestry!At(l, "idle")
  PROVE  Ancestry!Dir(l) \in Dirs
BY DEF Ancestry!IInv, Ancestry!Types, Ancestry!Progress, Ancestry!Account, Ancestry!Stands,
   Ancestry!Dir

\* What becomes of a launcher's record in the actions that set several fields.
Placed(l, stage, d, p) == [v3[l] EXCEPT !.at = stage, !.dir = d, !.from = p]
Readied(l) == [v3[l] EXCEPT !.at = "ready", !.began = v1]
Started(l, source, stage) ==
  [v3[l] EXCEPT !.trainer = v1, !.loaded = source, !.at = stage]
Counted(l, stage) == [v3[l] EXCEPT !.saves = @ + 1, !.at = stage]

LEMMA AncestryPlacedFields ==
  ASSUME Ancestry!Types, NEW l \in Launchers, NEW stage \in Ancestry!Stages, NEW d \in Dirs,
         NEW p \in Parents \cup {Ancestry!None}
  PROVE  /\ Placed(l, stage, d, p) \in Ancestry!Progress
         /\ Placed(l, stage, d, p) = [at |-> stage, dir |-> d, from |-> p,
              began |-> v3[l].began, trainer |-> v3[l].trainer,
              loaded |-> v3[l].loaded, saves |-> v3[l].saves]
<1> DEFINE r == [at |-> stage, dir |-> Ancestry!Dir(l), from |-> v3[l].from,
              began |-> v3[l].began, trainer |-> v3[l].trainer,
              loaded |-> v3[l].loaded, saves |-> v3[l].saves]
           q == [at |-> stage, dir |-> d, from |-> v3[l].from,
              began |-> v3[l].began, trainer |-> v3[l].trainer,
              loaded |-> v3[l].loaded, saves |-> v3[l].saves]
           w == [at |-> stage, dir |-> d, from |-> p,
              began |-> v3[l].began, trainer |-> v3[l].trainer,
              loaded |-> v3[l].loaded, saves |-> v3[l].saves]
<1>1. [v3[l] EXCEPT !.at = stage] = r
  BY AncestryMovedFields DEF Moved
<1>2. [r EXCEPT !.dir = d] = q
  OBVIOUS
<1>3. [q EXCEPT !.from = p] = w
  OBVIOUS
<1>4. Placed(l, stage, d, p) = w
  <2> HIDE DEF r, q, w
  <2> QED
    BY <1>1, <1>2, <1>3, Zenon DEF Placed
<1>5. w \in Ancestry!Progress
  BY DEF Ancestry!Progress, Ancestry!Types
<1> QED
  BY <1>4, <1>5

LEMMA AncestryReadiedFields ==
  ASSUME Ancestry!Types, NEW l \in Launchers
  PROVE  /\ Readied(l) \in Ancestry!Progress
         /\ Readied(l) = [at |-> "ready", dir |-> Ancestry!Dir(l), from |-> v3[l].from,
              began |-> v1, trainer |-> v3[l].trainer,
              loaded |-> v3[l].loaded, saves |-> v3[l].saves]
<1> DEFINE r == [at |-> "ready", dir |-> Ancestry!Dir(l), from |-> v3[l].from,
              began |-> v3[l].began, trainer |-> v3[l].trainer,
              loaded |-> v3[l].loaded, saves |-> v3[l].saves]
           w == [at |-> "ready", dir |-> Ancestry!Dir(l), from |-> v3[l].from,
              began |-> v1, trainer |-> v3[l].trainer,
              loaded |-> v3[l].loaded, saves |-> v3[l].saves]
<1>1. [v3[l] EXCEPT !.at = "ready"] = r
  BY AncestryMovedFields DEF Moved, Ancestry!Stages
<1>2. [r EXCEPT !.began = v1] = w
  OBVIOUS
<1>3. Readied(l) = w
  <2> HIDE DEF r, w
  <2> QED
    BY <1>1, <1>2, Zenon DEF Readied
<1>4. w \in Ancestry!Progress
  BY DEF Ancestry!Progress, Ancestry!Types, Ancestry!Dir, Ancestry!Stages
<1> QED
  BY <1>3, <1>4

LEMMA AncestryStartedFields ==
  ASSUME Ancestry!Types, NEW l \in Launchers, NEW source \in Parents \cup {Ancestry!None},
         NEW stage \in Ancestry!Stages
  PROVE  /\ Started(l, source, stage) \in Ancestry!Progress
         /\ Started(l, source, stage) = [at |-> stage, dir |-> Ancestry!Dir(l),
              from |-> v3[l].from, began |-> v3[l].began, trainer |-> v1,
              loaded |-> source, saves |-> v3[l].saves]
<1> DEFINE r == [at |-> v3[l].at, dir |-> Ancestry!Dir(l), from |-> v3[l].from,
              began |-> v3[l].began, trainer |-> v1,
              loaded |-> v3[l].loaded, saves |-> v3[l].saves]
           q == [at |-> v3[l].at, dir |-> Ancestry!Dir(l), from |-> v3[l].from,
              began |-> v3[l].began, trainer |-> v1,
              loaded |-> source, saves |-> v3[l].saves]
           w == [at |-> stage, dir |-> Ancestry!Dir(l), from |-> v3[l].from,
              began |-> v3[l].began, trainer |-> v1,
              loaded |-> source, saves |-> v3[l].saves]
<1>1. [v3[l] EXCEPT !.trainer = v1] = r
  <2>1. v3[l] \in Ancestry!Progress
    BY DEF Ancestry!Types
  <2> QED
    BY <2>1 DEF Ancestry!Progress, Ancestry!Dir
<1>2. [r EXCEPT !.loaded = source] = q
  OBVIOUS
<1>3. [q EXCEPT !.at = stage] = w
  OBVIOUS
<1>4. Started(l, source, stage) = w
  <2> HIDE DEF r, q, w
  <2> QED
    BY <1>1, <1>2, <1>3, Zenon DEF Started
<1>5. w \in Ancestry!Progress
  BY DEF Ancestry!Progress, Ancestry!Types, Ancestry!Dir
<1> QED
  BY <1>4, <1>5

LEMMA AncestryCountedFields ==
  ASSUME Ancestry!Types, NEW l \in Launchers, NEW stage \in Ancestry!Stages, v3[l].saves < MaxSaves
  PROVE  /\ Counted(l, stage) \in Ancestry!Progress
         /\ Counted(l, stage) = [at |-> stage, dir |-> Ancestry!Dir(l), from |-> v3[l].from,
              began |-> v3[l].began, trainer |-> v3[l].trainer,
              loaded |-> v3[l].loaded, saves |-> v3[l].saves + 1]
<1> DEFINE r == [at |-> v3[l].at, dir |-> Ancestry!Dir(l), from |-> v3[l].from,
              began |-> v3[l].began, trainer |-> v3[l].trainer,
              loaded |-> v3[l].loaded, saves |-> v3[l].saves + 1]
           w == [at |-> stage, dir |-> Ancestry!Dir(l), from |-> v3[l].from,
              began |-> v3[l].began, trainer |-> v3[l].trainer,
              loaded |-> v3[l].loaded, saves |-> v3[l].saves + 1]
<1>1. v3[l] \in Ancestry!Progress
  BY DEF Ancestry!Types
<1>2. [v3[l] EXCEPT !.saves = @ + 1] = r
  BY <1>1 DEF Ancestry!Progress, Ancestry!Dir
<1>3. [r EXCEPT !.at = stage] = w
  OBVIOUS
<1>4. Counted(l, stage) = w
  <2> HIDE DEF r, w
  <2> QED
    BY <1>2, <1>3, Zenon DEF Counted
<1>5. w \in Ancestry!Progress
  BY <1>1, LineageParameters DEF Ancestry!Progress, Ancestry!Dir
<1> QED
  BY <1>4, <1>5

\* A new directory, or one found empty, has no checkpoints yet.
LEMMA AncestryTakesADirectory ==
  ASSUME Ancestry!IInv, NEW l \in Launchers, Ancestry!At(l, "idle"), NEW d \in Dirs,
         NEW p \in Parents \cup {Ancestry!None}, NEW stage \in {"created", "admitted"},
         v3' = [v3 EXCEPT ![l] = Placed(l, stage, d, p)],
         v4' = v4 \/ v4' = [v4 EXCEPT ![d] = l],
         UNCHANGED <<v1, v5, v7, v8, v9, v10>>
  PROVE  Ancestry!IInv'
<1> DEFINE w == Placed(l, stage, d, p)
<1>1. /\ w \in Ancestry!Progress /\ w.at = stage /\ w.dir = d /\ w.from = p
      /\ w.began = v3[l].began /\ w.trainer = v3[l].trainer
      /\ w.loaded = v3[l].loaded /\ w.saves = v3[l].saves
  BY AncestryPlacedFields DEF Ancestry!IInv, Ancestry!Stages
<1>2. v3[l].began = Ancestry!None /\ v3[l].trainer = Ancestry!None /\ v3[l].saves = 0
      /\ Ancestry!Dir(l) = Ancestry!None /\ Ancestry!None \notin Dirs
  BY LineageParameters DEF Ancestry!IInv, Ancestry!Account, Ancestry!Stands, Ancestry!At,
     Ancestry!Began, Ancestry!Trained, Ancestry!None
<1> HIDE DEF w
<1>3. v3'[l] = w
  BY DEF Ancestry!IInv, Ancestry!Types, w
<1>4. Ancestry!Alone(l)' => v9[d] = <<>>
  <2> SUFFICES ASSUME Ancestry!Alone(l)' PROVE \A m \in Launchers : Ancestry!Dir(m) # d
    BY DEF Ancestry!IInv, Ancestry!Unused
  <2>1. ASSUME NEW m \in Launchers \ {l} PROVE Ancestry!Dir(m) # d
    BY <1>1, <1>3, <2>1 DEF Ancestry!Alone, Ancestry!Dir, Ancestry!IInv, Ancestry!Types
  <2> QED
    BY <2>1, <1>2
<1>5. Ancestry!Account(l)'
  <2>1. Ancestry!Stands(l)'
    BY <1>1, <1>2, <1>3 DEF Ancestry!Stands, Ancestry!At, Ancestry!Dir, Ancestry!Began,
       Ancestry!Trained
  <2>2. Ancestry!Identified(l)' /\ Ancestry!Linked(l)' /\ Ancestry!LaunchManifest(l)' /\ Ancestry!LeftManifest(l)'
    BY <1>1, <1>3 DEF Ancestry!Identified, Ancestry!Linked, Ancestry!LaunchManifest,
       Ancestry!LeftManifest, Ancestry!At, Ancestry!Described, Ancestry!Recorded,
       Ancestry!Underway
  <2>3. Ancestry!SavedByItself(l)'
    <3> SUFFICES ASSUME Ancestry!Alone(l)'
                 PROVE  /\ v9'[d] \in Seq(Ancestry!Checkpoints) /\ Len(v9'[d]) = w.saves
                        /\ 1..w.saves = {}
      BY <1>1, <1>3 DEF Ancestry!SavedByItself, Ancestry!Dir
    <3>1. v9'[d] = <<>>
      BY <1>4
    <3> QED
      BY <3>1, <1>1, <1>2, EmptySeq
  <2> QED
    BY <2>1, <2>2, <2>3 DEF Ancestry!Account
<1>6. /\ v4' \in [Dirs -> Launchers \cup {Ancestry!None}] /\ v4'[d] \in {v4[d], l}
      /\ \A e \in Dirs \ {d} : v4'[e] = v4[e]
  BY DEF Ancestry!IInv, Ancestry!Types
<1>7. v3' = [v3 EXCEPT ![l] = w]
  BY DEF w
<1> QED
  BY <1>1, <1>5, <1>6, <1>7, AncestryLauncherGoesOn DEF Ancestry!IInv, Ancestry!Types

\* A launcher that goes from one stage to the next, and leaves the documents alone or
\* writes those of its own directory.
LEMMA AncestryWalksOn ==
  ASSUME Ancestry!IInv, NEW l \in Launchers, ~Ancestry!At(l, "idle"), NEW w \in Ancestry!Progress,
         v3' = [v3 EXCEPT ![l] = w], w.dir = Ancestry!Dir(l),
         UNCHANGED <<v1, v10>>,
         v4' \in {v4, [v4 EXCEPT ![Ancestry!Dir(l)] = l]},
         v5' \in {v5, [v5 EXCEPT ![Ancestry!Dir(l)] = v1]},
         v8' = v8 \/ /\ v8[Ancestry!Dir(l)] = Ancestry!None /\ v3[l].from \in Parents
                         /\ v8' = [v8 EXCEPT ![Ancestry!Dir(l)] = v3[l].from],
         \/ v7' = v7
         \/ \E m : v7' = [v7 EXCEPT ![Ancestry!Dir(l)] = m],
         v9' = v9 \/ \E files : v9' = [v9 EXCEPT ![Ancestry!Dir(l)] = files],
         Ancestry!Account(l)'
  PROVE  Ancestry!IInv'
<1>1. Ancestry!Dir(l) \in Dirs
  BY AncestryPlacedHasADir
<1>2. /\ v4' \in [Dirs -> Launchers \cup {Ancestry!None}]
      /\ v4'[Ancestry!Dir(l)] \in {v4[Ancestry!Dir(l)], l}
      /\ \A d \in Dirs \ {Ancestry!Dir(l)} : v4'[d] = v4[d]
  BY <1>1 DEF Ancestry!IInv, Ancestry!Types
<1>3. /\ v5' \in [Dirs -> Ancestry!Versions \cup {Ancestry!None}]
      /\ \A d \in Dirs : v5[d] # Ancestry!None => v5'[d] # Ancestry!None
  BY <1>1, LineageParameters DEF Ancestry!IInv, Ancestry!Types, Ancestry!Versions,
     Ancestry!None
<1>4. /\ v8' \in [Dirs -> Parents \cup {Ancestry!None}]
      /\ \A d \in Dirs : v8[d] # Ancestry!None => v8'[d] = v8[d]
  BY <1>1 DEF Ancestry!IInv, Ancestry!Types
<1>5. DOMAIN v7' = Dirs /\ \A d \in Dirs \ {Ancestry!Dir(l)} : v7'[d] = v7[d]
  BY <1>1 DEF Ancestry!IInv, Ancestry!Types
<1>6. DOMAIN v9' = Dirs /\ \A d \in Dirs \ {Ancestry!Dir(l)} : v9'[d] = v9[d]
  BY <1>1 DEF Ancestry!IInv, Ancestry!Types
<1>7. /\ w.dir \in Dirs /\ v4'[w.dir] \in {v4[w.dir], l}
      /\ \A d \in Dirs \ {w.dir} : v4'[d] = v4[d] /\ v9'[d] = v9[d]
                                   /\ v7'[d] = v7[d]
  BY <1>1, <1>2, <1>5, <1>6
<1> HIDE DEF Ancestry!Account
<1> QED
  BY <1>3, <1>4, <1>5, <1>6, <1>7, <1>2, AncestryLauncherGoesOn, Zenon

\* The stages before the trainer.
LEMMA AncestryBeforeTheTrainer ==
  ASSUME Ancestry!IInv, NEW l \in Launchers, v3[l].at \in {"created", "admitted", "checked"},
         NEW stage \in {"admitted", "checked", "refused"} \cup
                       IF Ancestry!Resumes(l) THEN {} ELSE {"linked"},
         Ancestry!Goto(l, stage), stage = "checked" => Ancestry!Resumes(l),
         UNCHANGED <<v1, v4, v5, v7, v8, v9, v10>>
  PROVE  Ancestry!IInv'
<1> DEFINE w == Moved(l, stage)
<1>1. /\ w \in Ancestry!Progress /\ w.at = stage /\ w.dir = Ancestry!Dir(l) /\ w.from = v3[l].from
      /\ w.began = v3[l].began /\ w.trainer = v3[l].trainer
      /\ w.loaded = v3[l].loaded /\ w.saves = v3[l].saves
      /\ v3' = [v3 EXCEPT ![l] = w]
  BY AncestryMovedFields DEF Ancestry!IInv, Ancestry!Stages
<1> HIDE DEF w
<1>2. v3'[l] = w /\ Ancestry!Dir(l)' = Ancestry!Dir(l) /\ (Ancestry!Alone(l)' <=> Ancestry!Alone(l))
  BY <1>1, AncestryStaysAlone DEF Ancestry!IInv
<1>3. Ancestry!Account(l)
  BY DEF Ancestry!IInv
<1>4. Ancestry!Stands(l)'
  BY <1>1, <1>2, <1>3 DEF Ancestry!Account, Ancestry!Stands, Ancestry!At, Ancestry!Began,
     Ancestry!Trained, Ancestry!Resumes
<1>5. Ancestry!Identified(l)' /\ Ancestry!LaunchManifest(l)' /\ Ancestry!LeftManifest(l)' /\ Ancestry!Linked(l)'
  BY <1>1, <1>2 DEF Ancestry!Identified, Ancestry!Linked, Ancestry!LaunchManifest,
     Ancestry!LeftManifest, Ancestry!At, Ancestry!Described, Ancestry!Recorded,
     Ancestry!Underway, Ancestry!Resumes
<1>6. Ancestry!SavedByItself(l)'
  BY <1>1, <1>2, <1>3 DEF Ancestry!Account, Ancestry!SavedByItself, Ancestry!At,
     Ancestry!Resumes
<1> QED
  BY <1>1, <1>4, <1>5, <1>6, AncestryWalksOn DEF Ancestry!Account, Ancestry!At

LEMMA AncestryLinkKeeps ==
  ASSUME Ancestry!IInv, NEW l \in Launchers, Ancestry!LinkParent(l)
  PROVE  Ancestry!IInv'
<1>1. CASE v8[Ancestry!Dir(l)] # Ancestry!None
  BY <1>1, AncestryBeforeTheTrainer DEF Ancestry!LinkParent, Ancestry!At
<1>2. CASE v8[Ancestry!Dir(l)] = Ancestry!None
  <2> DEFINE w == Moved(l, "linked")
  <2>1. /\ w \in Ancestry!Progress /\ w.at = "linked" /\ w.dir = Ancestry!Dir(l) /\ w.from = v3[l].from
        /\ w.began = v3[l].began /\ w.trainer = v3[l].trainer
        /\ w.loaded = v3[l].loaded /\ w.saves = v3[l].saves
        /\ v3' = [v3 EXCEPT ![l] = w]
    BY <1>2, AncestryMovedFields DEF Ancestry!IInv, Ancestry!Stages, Ancestry!LinkParent
  <2> HIDE DEF w
  <2>2. v3'[l] = w /\ Ancestry!Dir(l)' = Ancestry!Dir(l) /\ (Ancestry!Alone(l)' <=> Ancestry!Alone(l))
    BY <2>1, AncestryStaysAlone DEF Ancestry!IInv
  <2>3. Ancestry!Account(l) /\ Ancestry!At(l, "checked") /\ Ancestry!Dir(l) \in Dirs /\ v3[l].from \in Parents
    BY AncestryPlacedHasADir DEF Ancestry!IInv, Ancestry!LinkParent, Ancestry!At,
       Ancestry!Types, Ancestry!Progress, Ancestry!Account, Ancestry!Stands, Ancestry!Resumes
  <2>4. v8' = [v8 EXCEPT ![Ancestry!Dir(l)] = v3[l].from]
        /\ UNCHANGED <<v1, v4, v5, v7, v9, v10>>
    BY <1>2 DEF Ancestry!LinkParent
  <2>5. Ancestry!Stands(l)'
    BY <2>1, <2>2, <2>3 DEF Ancestry!Account, Ancestry!Stands, Ancestry!At, Ancestry!Began,
       Ancestry!Trained, Ancestry!Resumes
  <2>6. Ancestry!Identified(l)' /\ Ancestry!LaunchManifest(l)' /\ Ancestry!LeftManifest(l)'
    BY <2>1, <2>2 DEF Ancestry!Identified, Ancestry!LaunchManifest, Ancestry!LeftManifest,
       Ancestry!At, Ancestry!Described, Ancestry!Recorded
  <2>7. Ancestry!Linked(l)'
    BY <2>1, <2>2, <2>3, <2>4 DEF Ancestry!Linked, Ancestry!IInv, Ancestry!Types,
       Ancestry!Resumes
  <2>8. Ancestry!SavedByItself(l)'
    BY <2>1, <2>2, <2>3, <2>4 DEF Ancestry!Account, Ancestry!SavedByItself, Ancestry!At,
       Ancestry!Resumes
  <2> QED
    BY <1>2, <2>1, <2>3, <2>4, <2>5, <2>6, <2>7, <2>8, AncestryWalksOn DEF Ancestry!Account,
       Ancestry!At
<1> QED
  BY <1>1, <1>2

LEMMA AncestryDescribeKeeps ==
  ASSUME Ancestry!IInv, NEW l \in Launchers, Ancestry!Describe(l)
  PROVE  Ancestry!IInv'
<1> DEFINE w == Moved(l, "described")
<1>1. /\ w \in Ancestry!Progress /\ w.at = "described" /\ w.dir = Ancestry!Dir(l) /\ w.from = v3[l].from
      /\ w.began = v3[l].began /\ w.trainer = v3[l].trainer
      /\ w.loaded = v3[l].loaded /\ w.saves = v3[l].saves
      /\ v3' = [v3 EXCEPT ![l] = w]
  BY AncestryMovedFields DEF Ancestry!IInv, Ancestry!Stages, Ancestry!Describe
<1> HIDE DEF w
<1>2. v3'[l] = w /\ Ancestry!Dir(l)' = Ancestry!Dir(l) /\ (Ancestry!Alone(l)' <=> Ancestry!Alone(l))
  BY <1>1, AncestryStaysAlone DEF Ancestry!IInv
<1>3. Ancestry!Account(l) /\ Ancestry!At(l, "linked") /\ Ancestry!Dir(l) \in Dirs
  BY AncestryPlacedHasADir DEF Ancestry!IInv, Ancestry!Describe, Ancestry!At
<1>4. /\ v4' = [v4 EXCEPT ![Ancestry!Dir(l)] = l]
      /\ UNCHANGED <<v1, v5, v7, v8, v9, v10>>
  BY DEF Ancestry!Describe
<1>5. Ancestry!Stands(l)'
  BY <1>1, <1>2, <1>3 DEF Ancestry!Account, Ancestry!Stands, Ancestry!At, Ancestry!Began,
     Ancestry!Trained, Ancestry!Resumes
<1>6. Ancestry!Identified(l)' /\ Ancestry!LaunchManifest(l)' /\ Ancestry!LeftManifest(l)'
  BY <1>1, <1>2, <1>3, <1>4 DEF Ancestry!Identified, Ancestry!LaunchManifest,
     Ancestry!LeftManifest, Ancestry!At, Ancestry!Recorded, Ancestry!IInv,
     Ancestry!Types
<1>7. Ancestry!Linked(l)'
  BY <1>1, <1>2, <1>3, <1>4 DEF Ancestry!Account, Ancestry!Linked, Ancestry!At,
     Ancestry!Resumes, Ancestry!Underway
<1>8. Ancestry!SavedByItself(l)'
  BY <1>1, <1>2, <1>3, <1>4 DEF Ancestry!Account, Ancestry!SavedByItself, Ancestry!At,
     Ancestry!Resumes
<1>9. Ancestry!Account(l)' /\ ~Ancestry!At(l, "idle")
  BY <1>3, <1>5, <1>6, <1>7, <1>8 DEF Ancestry!Account, Ancestry!At
<1> QED
  BY <1>1, <1>4, <1>9, AncestryWalksOn

LEMMA AncestryRecordKeeps ==
  ASSUME Ancestry!IInv, NEW l \in Launchers, Ancestry!Record(l)
  PROVE  Ancestry!IInv'
<1> DEFINE w == Moved(l, "recorded")
<1>1. /\ w \in Ancestry!Progress /\ w.at = "recorded" /\ w.dir = Ancestry!Dir(l) /\ w.from = v3[l].from
      /\ w.began = v3[l].began /\ w.trainer = v3[l].trainer
      /\ w.loaded = v3[l].loaded /\ w.saves = v3[l].saves
      /\ v3' = [v3 EXCEPT ![l] = w]
  BY AncestryMovedFields DEF Ancestry!IInv, Ancestry!Stages, Ancestry!Record
<1> HIDE DEF w
<1>2. v3'[l] = w /\ Ancestry!Dir(l)' = Ancestry!Dir(l) /\ (Ancestry!Alone(l)' <=> Ancestry!Alone(l))
  BY <1>1, AncestryStaysAlone DEF Ancestry!IInv
<1>3. Ancestry!Account(l) /\ Ancestry!At(l, "described") /\ Ancestry!Dir(l) \in Dirs /\ v1 # Ancestry!None
  BY AncestryPlacedHasADir, LineageParameters DEF Ancestry!IInv, Ancestry!Record,
     Ancestry!At, Ancestry!Types, Ancestry!Versions, Ancestry!None
<1>4. /\ v5' = [v5 EXCEPT ![Ancestry!Dir(l)] = v1]
      /\ UNCHANGED <<v1, v4, v7, v8, v9, v10>>
  BY DEF Ancestry!Record
<1>5. Ancestry!Stands(l)'
  BY <1>1, <1>2, <1>3 DEF Ancestry!Account, Ancestry!Stands, Ancestry!At, Ancestry!Began,
     Ancestry!Trained, Ancestry!Resumes
<1>6. Ancestry!Identified(l)' /\ Ancestry!LaunchManifest(l)' /\ Ancestry!LeftManifest(l)'
  BY <1>1, <1>2, <1>3, <1>4 DEF Ancestry!Account, Ancestry!Identified,
     Ancestry!LaunchManifest, Ancestry!LeftManifest, Ancestry!At,
     Ancestry!Described, Ancestry!IInv, Ancestry!Types
<1>7. Ancestry!Linked(l)'
  BY <1>1, <1>2, <1>3, <1>4 DEF Ancestry!Account, Ancestry!Linked, Ancestry!At,
     Ancestry!Resumes, Ancestry!Underway
<1>8. Ancestry!SavedByItself(l)'
  BY <1>1, <1>2, <1>3, <1>4 DEF Ancestry!Account, Ancestry!SavedByItself, Ancestry!At,
     Ancestry!Resumes
<1>9. Ancestry!Account(l)' /\ ~Ancestry!At(l, "idle")
  BY <1>3, <1>5, <1>6, <1>7, <1>8 DEF Ancestry!Account, Ancestry!At
<1> QED
  BY <1>1, <1>4, <1>9, AncestryWalksOn

LEMMA AncestryWriteManifestKeeps ==
  ASSUME Ancestry!IInv, NEW l \in Launchers, Ancestry!WriteManifest(l)
  PROVE  Ancestry!IInv'
<1> DEFINE w == Readied(l)
           m == [contract |-> v1, launch |-> v7[Ancestry!Dir(l)].launch,
                 latest |-> Ancestry!NoCheckpoint]
<1>1. /\ w \in Ancestry!Progress /\ w.at = "ready" /\ w.dir = Ancestry!Dir(l) /\ w.from = v3[l].from
      /\ w.began = v1 /\ w.trainer = v3[l].trainer
      /\ w.loaded = v3[l].loaded /\ w.saves = v3[l].saves
  BY AncestryReadiedFields DEF Ancestry!IInv
<1>2. v3' = [v3 EXCEPT ![l] = w]
  BY DEF Ancestry!WriteManifest, Readied, Ancestry!IInv, Ancestry!Types
<1> HIDE DEF w
<1>3. v3'[l] = w /\ Ancestry!Dir(l)' = Ancestry!Dir(l) /\ (Ancestry!Alone(l)' <=> Ancestry!Alone(l))
  BY <1>1, <1>2, AncestryStaysAlone DEF Ancestry!IInv
<1>4. Ancestry!Account(l) /\ Ancestry!At(l, "recorded") /\ Ancestry!Dir(l) \in Dirs
  BY AncestryPlacedHasADir DEF Ancestry!IInv, Ancestry!WriteManifest, Ancestry!At
<1>5. /\ v7' = [v7 EXCEPT ![Ancestry!Dir(l)] = m] /\ v7'[Ancestry!Dir(l)] = m
      /\ UNCHANGED <<v1, v4, v5, v8, v9, v10>>
  BY <1>4 DEF Ancestry!WriteManifest, Ancestry!IInv, Ancestry!Types
<1>6. Ancestry!Stands(l)'
  BY <1>1, <1>3, <1>4 DEF Ancestry!Account, Ancestry!Stands, Ancestry!At, Ancestry!Began,
     Ancestry!Trained, Ancestry!Resumes
<1>7. Ancestry!Identified(l)' /\ Ancestry!LeftManifest(l)'
  BY <1>1, <1>3, <1>4, <1>5 DEF Ancestry!Account, Ancestry!Identified,
     Ancestry!LeftManifest, Ancestry!At, Ancestry!Described, Ancestry!Recorded
<1>8. Ancestry!LaunchManifest(l)'
  BY <1>1, <1>3, <1>5 DEF Ancestry!LaunchManifest
<1>9. Ancestry!Linked(l)'
  BY <1>1, <1>3, <1>4, <1>5 DEF Ancestry!Account, Ancestry!Linked, Ancestry!At,
     Ancestry!Resumes, Ancestry!Underway
<1>10. Ancestry!SavedByItself(l)'
  BY <1>1, <1>3, <1>4, <1>5 DEF Ancestry!Account, Ancestry!SavedByItself, Ancestry!At,
     Ancestry!Resumes
<1>11. Ancestry!Account(l)' /\ ~Ancestry!At(l, "idle")
  BY <1>4, <1>6, <1>7, <1>8, <1>9, <1>10 DEF Ancestry!Account, Ancestry!At
<1> HIDE DEF m
<1> QED
  BY <1>1, <1>2, <1>5, <1>11, AncestryWalksOn

\* The trainer finds the parent its launcher checked behind the link of its directory.
LEMMA AncestryStartKeeps ==
  ASSUME Ancestry!IInv, NEW l \in Launchers, Ancestry!StartTrainer(l)
  PROVE  Ancestry!IInv'
<1> DEFINE source == IF Ancestry!Resumes(l) THEN v8[Ancestry!Dir(l)] ELSE Ancestry!None
           stage == IF source # Ancestry!None /\ ~Ancestry!Compatible(source) THEN "exited" ELSE "training"
           w == Started(l, source, stage)
<1>1. Ancestry!Account(l) /\ Ancestry!At(l, "ready") /\ Ancestry!Dir(l) \in Dirs /\ v1 # Ancestry!None
  BY AncestryPlacedHasADir, LineageParameters DEF Ancestry!IInv, Ancestry!StartTrainer,
     Ancestry!At, Ancestry!Types, Ancestry!Versions, Ancestry!None
<1>2. source \in Parents \cup {Ancestry!None} /\ source = v3[l].from
  BY <1>1 DEF Ancestry!Account, Ancestry!Linked, Ancestry!Underway, Ancestry!At,
     Ancestry!Resumes, Ancestry!IInv, Ancestry!Types
<1>3. stage \in {"training", "exited"}
  OBVIOUS
<1>4. v3' = [v3 EXCEPT ![l] = w]
  BY DEF Ancestry!StartTrainer, Started, Ancestry!IInv, Ancestry!Types
<1>5. UNCHANGED <<v1, v4, v5, v7, v8, v9, v10>>
  BY DEF Ancestry!StartTrainer, Ancestry!documents
<1> HIDE DEF source, stage
<1>6. /\ w \in Ancestry!Progress /\ w.at = stage /\ w.dir = Ancestry!Dir(l) /\ w.from = v3[l].from
      /\ w.began = v3[l].began /\ w.trainer = v1
      /\ w.loaded = v3[l].from /\ w.saves = v3[l].saves
  BY <1>2, <1>3, AncestryStartedFields DEF Ancestry!IInv, Ancestry!Stages
<1> HIDE DEF w
<1>7. v3'[l] = w /\ Ancestry!Dir(l)' = Ancestry!Dir(l) /\ (Ancestry!Alone(l)' <=> Ancestry!Alone(l))
  BY <1>4, <1>6, AncestryStaysAlone DEF Ancestry!IInv
<1>8. Ancestry!Stands(l)'
  BY <1>1, <1>3, <1>6, <1>7 DEF Ancestry!Account, Ancestry!Stands, Ancestry!At,
     Ancestry!Began, Ancestry!Trained, Ancestry!Resumes
<1>9. Ancestry!Identified(l)' /\ Ancestry!LaunchManifest(l)' /\ Ancestry!LeftManifest(l)'
  BY <1>1, <1>3, <1>5, <1>6, <1>7 DEF Ancestry!Account, Ancestry!Identified,
     Ancestry!LaunchManifest, Ancestry!LeftManifest, Ancestry!At,
     Ancestry!Described, Ancestry!Recorded
<1>10. Ancestry!Linked(l)'
  BY <1>1, <1>3, <1>5, <1>6, <1>7 DEF Ancestry!Account, Ancestry!Linked, Ancestry!At,
     Ancestry!Resumes, Ancestry!Underway
<1>11. Ancestry!SavedByItself(l)'
  <2>1. v3[l].saves = 0
    BY <1>1 DEF Ancestry!Account, Ancestry!Stands, Ancestry!At, Ancestry!Trained
  <2> QED
    BY <2>1, <1>1, <1>5, <1>6, <1>7 DEF Ancestry!Account, Ancestry!SavedByItself,
       Ancestry!At, Ancestry!Resumes
<1>12. Ancestry!Account(l)' /\ ~Ancestry!At(l, "idle")
  BY <1>1, <1>8, <1>9, <1>10, <1>11 DEF Ancestry!Account, Ancestry!At
<1> QED
  BY <1>4, <1>5, <1>6, <1>12, AncestryWalksOn

LEMMA AncestryExitKeeps ==
  ASSUME Ancestry!IInv, NEW l \in Launchers, Ancestry!TrainerExits(l)
  PROVE  Ancestry!IInv'
<1> DEFINE w == Moved(l, "exited")
<1>1. /\ w \in Ancestry!Progress /\ w.at = "exited" /\ w.dir = Ancestry!Dir(l) /\ w.from = v3[l].from
      /\ w.began = v3[l].began /\ w.trainer = v3[l].trainer
      /\ w.loaded = v3[l].loaded /\ w.saves = v3[l].saves
      /\ v3' = [v3 EXCEPT ![l] = w]
  BY AncestryMovedFields DEF Ancestry!IInv, Ancestry!Stages, Ancestry!TrainerExits
<1> HIDE DEF w
<1>2. v3'[l] = w /\ Ancestry!Dir(l)' = Ancestry!Dir(l) /\ (Ancestry!Alone(l)' <=> Ancestry!Alone(l))
  BY <1>1, AncestryStaysAlone DEF Ancestry!IInv
<1>3. Ancestry!Account(l) /\ Ancestry!At(l, "training")
  BY DEF Ancestry!IInv, Ancestry!TrainerExits
<1>4. UNCHANGED <<v1, v4, v5, v7, v8, v9, v10>>
  BY DEF Ancestry!TrainerExits, Ancestry!documents
<1>5. Ancestry!Stands(l)'
  BY <1>1, <1>2, <1>3 DEF Ancestry!Account, Ancestry!Stands, Ancestry!At, Ancestry!Began,
     Ancestry!Trained, Ancestry!Resumes
<1>6. Ancestry!Identified(l)' /\ Ancestry!LaunchManifest(l)' /\ Ancestry!LeftManifest(l)'
  BY <1>1, <1>2, <1>3, <1>4 DEF Ancestry!Account, Ancestry!Identified,
     Ancestry!LaunchManifest, Ancestry!LeftManifest, Ancestry!At,
     Ancestry!Described, Ancestry!Recorded
<1>7. Ancestry!Linked(l)'
  BY <1>1, <1>2, <1>3, <1>4 DEF Ancestry!Account, Ancestry!Linked, Ancestry!At,
     Ancestry!Resumes, Ancestry!Underway
<1>8. Ancestry!SavedByItself(l)'
  BY <1>1, <1>2, <1>3, <1>4 DEF Ancestry!Account, Ancestry!SavedByItself, Ancestry!At,
     Ancestry!Resumes
<1>9. Ancestry!Account(l)' /\ ~Ancestry!At(l, "idle")
  BY <1>3, <1>5, <1>6, <1>7, <1>8 DEF Ancestry!Account, Ancestry!At
<1> QED
  BY <1>1, <1>4, <1>9, AncestryWalksOn

LEMMA AncestrySaveKeeps ==
  ASSUME Ancestry!IInv, NEW l \in Launchers, Ancestry!SaveCheckpoint(l)
  PROVE  Ancestry!IInv'
<1> DEFINE base == IF Ancestry!Resumes(l) THEN MaxSaves ELSE 0
           files == v9[Ancestry!Dir(l)]
<1>1. PICK torn \in BOOLEAN :
        /\ v9' = [v9 EXCEPT ![Ancestry!Dir(l)] = Append(@,
             [number |-> Ancestry!Number(l) + 1,
              contract |-> IF torn THEN Ancestry!Unreadable ELSE v3[l].trainer])]
        /\ v3' = [v3 EXCEPT ![l].saves = @ + 1,
                                        ![l].at = IF torn THEN "exited" ELSE @]
  BY DEF Ancestry!SaveCheckpoint
<1> DEFINE e == [number |-> v3[l].saves + base + 1,
                 contract |-> IF torn THEN Ancestry!Unreadable ELSE v3[l].trainer]
           stage == IF torn THEN "exited" ELSE "training"
           w == Counted(l, stage)
<1>2. /\ Ancestry!Account(l) /\ Ancestry!At(l, "training") /\ Ancestry!Dir(l) \in Dirs /\ ~Ancestry!At(l, "idle")
      /\ v3[l].saves \in Nat /\ v3[l].saves < MaxSaves /\ base \in {0, MaxSaves}
      /\ v3[l].trainer \in Ancestry!Versions /\ Ancestry!Types
  BY AncestryPlacedHasADir, LineageParameters DEF Ancestry!IInv, Ancestry!SaveCheckpoint,
     Ancestry!At, Ancestry!Types, Ancestry!Progress, Ancestry!Account,
     Ancestry!Stands
<1>3. UNCHANGED <<v1, v4, v5, v7, v8, v10>>
  BY DEF Ancestry!SaveCheckpoint
<1>4. v3' = [v3 EXCEPT ![l] = w]
  BY <1>1, <1>2 DEF Counted, Ancestry!Types, Ancestry!At
<1>5. stage \in {"training", "exited"}
  OBVIOUS
<1>6. v9' = [v9 EXCEPT ![Ancestry!Dir(l)] = Append(files, e)]
  <2>1. Ancestry!Number(l) + 1 = v3[l].saves + base + 1
    BY <1>2, LineageParameters DEF Ancestry!Number
  <2> QED
    BY <1>1, <2>1
<1>7. e \in Ancestry!Checkpoints
  BY <1>2, LineageParameters DEF Ancestry!Checkpoints
<1>8. e.number = v3[l].saves + 1 + base /\ e.contract \in {v3[l].trainer, Ancestry!Unreadable}
  BY <1>2, LineageParameters
<1> HIDE DEF stage, e
<1>9. /\ w \in Ancestry!Progress /\ w.at = stage /\ w.dir = Ancestry!Dir(l) /\ w.from = v3[l].from
      /\ w.began = v3[l].began /\ w.trainer = v3[l].trainer
      /\ w.loaded = v3[l].loaded /\ w.saves = v3[l].saves + 1
  BY <1>2, <1>5, AncestryCountedFields DEF Ancestry!Stages
<1> HIDE DEF w
<1>10. v3'[l] = w /\ Ancestry!Dir(l)' = Ancestry!Dir(l) /\ (Ancestry!Alone(l)' <=> Ancestry!Alone(l))
  BY <1>4, <1>9, AncestryStaysAlone DEF Ancestry!IInv
<1>11. Ancestry!Stands(l)'
  BY <1>2, <1>5, <1>9, <1>10 DEF Ancestry!Account, Ancestry!Stands, Ancestry!At,
     Ancestry!Began, Ancestry!Trained, Ancestry!Resumes
<1>12. Ancestry!Identified(l)' /\ Ancestry!LaunchManifest(l)' /\ Ancestry!LeftManifest(l)'
  BY <1>2, <1>3, <1>5, <1>9, <1>10 DEF Ancestry!Account, Ancestry!Identified,
     Ancestry!LaunchManifest, Ancestry!LeftManifest, Ancestry!At,
     Ancestry!Described, Ancestry!Recorded
<1>13. Ancestry!Linked(l)'
  BY <1>2, <1>3, <1>5, <1>9, <1>10 DEF Ancestry!Account, Ancestry!Linked, Ancestry!At,
     Ancestry!Resumes, Ancestry!Underway
<1>14. Ancestry!SavedByItself(l)'
  <2> SUFFICES ASSUME Ancestry!Alone(l)
               PROVE  /\ v9'[Ancestry!Dir(l)] \in Seq(Ancestry!Checkpoints)
                      /\ Len(v9'[Ancestry!Dir(l)]) = v3[l].saves + 1
                      /\ \A i \in 1..v3[l].saves + 1 :
                           /\ v9'[Ancestry!Dir(l)][i].number = i + base
                           /\ v9'[Ancestry!Dir(l)][i].contract \in {v3[l].trainer, Ancestry!Unreadable}
    BY <1>9, <1>10 DEF Ancestry!SavedByItself, Ancestry!Resumes
  <2>1. v9'[Ancestry!Dir(l)] = Append(files, e)
    BY <1>2, <1>6 DEF Ancestry!Types
  <2>2. /\ files \in Seq(Ancestry!Checkpoints) /\ Len(files) = v3[l].saves
        /\ \A i \in 1..v3[l].saves :
             /\ files[i].number = i + base
             /\ files[i].contract \in {v3[l].trainer, Ancestry!Unreadable}
    BY <1>2 DEF Ancestry!Account, Ancestry!SavedByItself, Ancestry!At
  <2> HIDE DEF files, base
  <2>3. /\ Append(files, e) \in Seq(Ancestry!Checkpoints)
        /\ Len(Append(files, e)) = v3[l].saves + 1
        /\ \A i \in 1..v3[l].saves : Append(files, e)[i] = files[i]
        /\ Append(files, e)[v3[l].saves + 1] = e
    BY <2>2, <1>7, AppendProperties
  <2>4. \A i \in 1..v3[l].saves + 1 :
          i \in 1..v3[l].saves \/ i = v3[l].saves + 1
    BY <1>2
  <2> QED
    BY <2>1, <2>2, <2>3, <2>4, <1>8
<1>15. Ancestry!Account(l)'
  BY <1>11, <1>12, <1>13, <1>14 DEF Ancestry!Account
<1> QED
  BY <1>2, <1>3, <1>4, <1>6, <1>9, <1>15, AncestryWalksOn

\* The manifest that is left speaks of the checkpoint with the highest number, which in a
\* directory with one launcher is the last one.
LEMMA AncestryFinalizeKeeps ==
  ASSUME Ancestry!IInv, NEW l \in Launchers, Ancestry!Finalize(l)
  PROVE  Ancestry!IInv'
<1> DEFINE files == v9[Ancestry!Dir(l)]
           w == Moved(l, "done")
<1>1. /\ w \in Ancestry!Progress /\ w.at = "done" /\ w.dir = Ancestry!Dir(l) /\ w.from = v3[l].from
      /\ w.began = v3[l].began /\ w.trainer = v3[l].trainer
      /\ w.loaded = v3[l].loaded /\ w.saves = v3[l].saves
      /\ v3' = [v3 EXCEPT ![l] = w]
  BY AncestryMovedFields DEF Ancestry!IInv, Ancestry!Stages, Ancestry!Finalize
<1> HIDE DEF w
<1>2. v3'[l] = w /\ Ancestry!Dir(l)' = Ancestry!Dir(l) /\ (Ancestry!Alone(l)' <=> Ancestry!Alone(l))
  BY <1>1, AncestryStaysAlone DEF Ancestry!IInv
<1>3. Ancestry!Account(l) /\ Ancestry!At(l, "exited") /\ Ancestry!Dir(l) \in Dirs /\ v3[l].saves \in Nat /\ Ancestry!Types
  BY AncestryPlacedHasADir DEF Ancestry!IInv, Ancestry!Finalize, Ancestry!At,
     Ancestry!Types, Ancestry!Progress
<1>4. UNCHANGED <<v1, v4, v5, v8, v9, v10>>
  BY DEF Ancestry!Finalize
<1>5. /\ files = <<>> => v7' = v7
      /\ files # <<>> => v7' = [v7 EXCEPT ![Ancestry!Dir(l)] =
                                        Ancestry!Final(v7[Ancestry!Dir(l)], Ancestry!Latest(Ancestry!Dir(l)))]
  BY DEF Ancestry!Finalize
<1>6. Ancestry!Stands(l)'
  BY <1>1, <1>2, <1>3 DEF Ancestry!Account, Ancestry!Stands, Ancestry!At, Ancestry!Began,
     Ancestry!Trained, Ancestry!Resumes
<1>7. Ancestry!Identified(l)' /\ Ancestry!LaunchManifest(l)'
  BY <1>1, <1>2, <1>3, <1>4 DEF Ancestry!Account, Ancestry!Identified,
     Ancestry!LaunchManifest, Ancestry!At, Ancestry!Described, Ancestry!Recorded
<1>8. Ancestry!Linked(l)'
  BY <1>1, <1>2, <1>3, <1>4 DEF Ancestry!Account, Ancestry!Linked, Ancestry!At,
     Ancestry!Resumes, Ancestry!Underway
<1>9. Ancestry!SavedByItself(l)'
  BY <1>1, <1>2, <1>3, <1>4 DEF Ancestry!Account, Ancestry!SavedByItself, Ancestry!At,
     Ancestry!Resumes
<1>10. Ancestry!LeftManifest(l)'
  <2> SUFFICES ASSUME Ancestry!Alone(l) PROVE Ancestry!SpeaksOfTheRun(v7[Ancestry!Dir(l)], l, files)'
    BY <1>2, <1>4 DEF Ancestry!LeftManifest
  <2> DEFINE n == v3[l].saves
             old == v7[Ancestry!Dir(l)]
             base == IF Ancestry!Resumes(l) THEN MaxSaves ELSE 0
  <2>1. old = [contract |-> v3[l].began, launch |-> old.launch, latest |-> Ancestry!NoCheckpoint]
    BY <1>3 DEF Ancestry!Account, Ancestry!LaunchManifest, Ancestry!At
  <2>2. /\ files \in Seq(Ancestry!Checkpoints) /\ Len(files) = n
        /\ \A i \in 1..n : /\ files[i].number = i + base
                           /\ files[i].contract \in {v3[l].trainer, Ancestry!Unreadable}
    BY <1>3 DEF Ancestry!Account, Ancestry!SavedByItself, Ancestry!At
  <2>3. CASE files = <<>>
    <3>1. v7'[Ancestry!Dir(l)] = old
      BY <2>3, <1>5
    <3>2. old.contract = v3[l].began /\ old.latest = Ancestry!NoCheckpoint
      BY <2>1
    <3> QED
      BY <3>1, <3>2, <2>3, <1>1, <1>2, <1>4 DEF Ancestry!SpeaksOfTheRun
  <2>4. CASE files # <<>>
    <3>1. n \in Nat \ {0} /\ DOMAIN files = 1..n /\ base \in Nat
      BY <2>2, <2>4, <1>3, EmptySeq, LenProperties, LineageParameters
    <3> DEFINE best == CHOOSE i \in DOMAIN files :
                         \A j \in DOMAIN files : \/ files[j].number < files[i].number
                                                 \/ files[j].number = files[i].number /\ j <= i
    <3>2. best \in DOMAIN files
          /\ \A j \in DOMAIN files : \/ files[j].number < files[best].number
                                     \/ files[j].number = files[best].number /\ j <= best
      <4>1. \E i \in DOMAIN files :
              \A j \in DOMAIN files : \/ files[j].number < files[i].number
                                      \/ files[j].number = files[i].number /\ j <= i
        <5> HIDE DEF base, n
        <5>1. n \in DOMAIN files
          BY <3>1
        <5>2. ASSUME NEW j \in DOMAIN files
              PROVE  \/ files[j].number < files[n].number
                     \/ files[j].number = files[n].number /\ j <= n
          <6>1. j \in 1..n /\ n \in 1..n /\ j \in Nat
            BY <3>1
          <6>2. files[j].number = j + base /\ files[n].number = n + base
            BY <2>2, <6>1
          <6> QED
            BY <3>1, <6>1, <6>2
        <5> QED
          BY <5>1, <5>2
      <4> QED
        BY <4>1, Zenon
    <3> DEFINE latest == files[best]
    <3>3. Ancestry!Latest(Ancestry!Dir(l)) = latest
      BY DEF Ancestry!Latest
    <3> HIDE DEF best
    <3>4. /\ latest.contract \in {v3[l].trainer, Ancestry!Unreadable}
          /\ \A j \in DOMAIN files : files[j].number <= latest.number
      <4> HIDE DEF base, n
      <4>1. \A j \in DOMAIN files : files[j].number \in Nat
        BY <2>2, <3>1
      <4>2. files[best].contract \in {v3[l].trainer, Ancestry!Unreadable}
        BY <2>2, <3>1, <3>2
      <4>3. \A j \in DOMAIN files : files[j].number <= files[best].number
        BY <3>2, <4>1
      <4> QED
        BY <4>2, <4>3
    <3>5. v7'[Ancestry!Dir(l)] = Ancestry!Final(old, latest)
      BY <1>3, <1>5, <2>4, <3>3 DEF Ancestry!Types
    <3> HIDE DEF latest, old, files
    <3>6. CASE latest.contract = Ancestry!Unreadable
      <4>1. Ancestry!Final(old, latest) = [contract |-> v3[l].began, launch |-> old.launch,
                                  latest |-> latest]
        BY <2>1, <3>6 DEF Ancestry!Final, Ancestry!Readable
      <4> QED
        BY <4>1, <2>4, <3>4, <3>5, <3>6, <1>1, <1>2, <1>4 DEF Ancestry!SpeaksOfTheRun, files
    <3>7. CASE latest.contract # Ancestry!Unreadable
      <4>1. Ancestry!Final(old, latest) = [contract |-> v3[l].trainer,
                                  launch |-> v3[l].began, latest |-> latest]
        BY <2>1, <3>4, <3>7 DEF Ancestry!Final, Ancestry!Readable
      <4> QED
        BY <4>1, <2>4, <3>4, <3>5, <3>7, <1>1, <1>2, <1>4 DEF Ancestry!SpeaksOfTheRun, files
    <3> QED
      BY <3>6, <3>7
  <2> QED
    BY <2>3, <2>4
<1>11. Ancestry!Account(l)' /\ ~Ancestry!At(l, "idle")
  BY <1>3, <1>6, <1>7, <1>8, <1>9, <1>10 DEF Ancestry!Account, Ancestry!At
<1>12. v7' = v7 \/ \E m : v7' = [v7 EXCEPT ![Ancestry!Dir(l)] = m]
  BY <1>5
<1> QED
  BY <1>1, <1>4, <1>11, <1>12, AncestryWalksOn

\* A document that is written back names who works in its directory.
LEMMA AncestryUsersKeep ==
  ASSUME Ancestry!IInv, \/ \E d \in Dirs : Ancestry!PatchRead(d)
               \/ Ancestry!PatchWrite
  PROVE  Ancestry!IInv'
<1>1. ASSUME NEW d \in Dirs, Ancestry!PatchRead(d) PROVE Ancestry!IInv'
  <2>1. v10' = [dir |-> d, copy |-> v4[d]] /\ v4[d] # Ancestry!None
        /\ UNCHANGED <<v1, v3, v4, v5, v7, v8, v9>>
    BY <1>1 DEF Ancestry!PatchRead, Ancestry!documents
  <2>2. Ancestry!Names'
    BY <2>1 DEF Ancestry!IInv, Ancestry!Names, Ancestry!Dir
  <2>3. Ancestry!Types' /\ Ancestry!Unused' /\ \A l \in Launchers : Ancestry!Account(l)'
    BY <2>1 DEF Ancestry!IInv, Ancestry!Types, Ancestry!Unused, Ancestry!Account,
       Ancestry!Stands, Ancestry!Identified, Ancestry!Linked, Ancestry!SavedByItself,
       Ancestry!LaunchManifest, Ancestry!LeftManifest, Ancestry!SpeaksOfTheRun, Ancestry!At,
          Ancestry!Dir, Ancestry!Alone, Ancestry!Resumes
  <2> QED
    BY <2>2, <2>3 DEF Ancestry!IInv
<1>2. CASE Ancestry!PatchWrite
  <2>1. /\ v4' = [v4 EXCEPT ![v10.dir] = v10.copy] /\ v10' = Ancestry!NoEdit
        /\ UNCHANGED <<v1, v3, v5, v7, v8, v9>>
        /\ v10.dir \in Dirs /\ v10.copy \in Launchers /\ Ancestry!Dir(v10.copy) = v10.dir
    BY <1>2 DEF Ancestry!PatchWrite, Ancestry!IInv, Ancestry!Names
  <2>2. Ancestry!Types' /\ Ancestry!Unused'
    BY <2>1 DEF Ancestry!IInv, Ancestry!Types, Ancestry!Unused, Ancestry!Dir
  <2>3. Ancestry!Names'
    BY <2>1 DEF Ancestry!IInv, Ancestry!Names, Ancestry!Types, Ancestry!Dir
  <2>4. ASSUME NEW l \in Launchers PROVE Ancestry!Account(l)'
    <3>1. Ancestry!Account(l) /\ v3'[l] = v3[l] /\ (Ancestry!Alone(l)' <=> Ancestry!Alone(l))
      BY <2>1 DEF Ancestry!IInv, Ancestry!Alone, Ancestry!Dir
    <3>2. Ancestry!Alone(l) /\ v10.dir = Ancestry!Dir(l) => v10.copy = l
      BY <2>1 DEF Ancestry!Alone
    <3>3. Ancestry!Identified(l)'
      BY <2>1, <3>1, <3>2 DEF Ancestry!Account, Ancestry!Identified, Ancestry!IInv,
         Ancestry!Types, Ancestry!Dir
    <3>4. Ancestry!Stands(l)' /\ Ancestry!Linked(l)' /\ Ancestry!SavedByItself(l)' /\ Ancestry!LaunchManifest(l)' /\ Ancestry!LeftManifest(l)'
      BY <2>1, <3>1 DEF Ancestry!Account, Ancestry!Stands, Ancestry!Linked,
         Ancestry!SavedByItself, Ancestry!LaunchManifest, Ancestry!LeftManifest,
         Ancestry!SpeaksOfTheRun, Ancestry!At, Ancestry!Dir, Ancestry!Resumes
    <3> QED
      BY <3>3, <3>4 DEF Ancestry!Account
  <2> QED
    BY <2>2, <2>3, <2>4 DEF Ancestry!IInv
<1> QED
  BY <1>1, <1>2

\* Neither a sidecar nor other code touches what a run has recorded.
LEMMA AncestryOtherStepsKeep ==
  ASSUME Ancestry!IInv, Ancestry!UpdateCode \/ Ancestry!Stamp \/ UNCHANGED Ancestry!vars
  PROVE  Ancestry!IInv'
<1>1. UNCHANGED <<v3, v4, v5, v7, v8, v9, v10>>
  BY DEF Ancestry!UpdateCode, Ancestry!Stamp, Ancestry!vars, Ancestry!documents
<1>2. v1' \in Ancestry!Versions
  BY LineageParameters DEF Ancestry!UpdateCode, Ancestry!Stamp, Ancestry!vars,
     Ancestry!IInv, Ancestry!Types, Ancestry!Versions
<1> QED
  BY <1>1, <1>2 DEF Ancestry!IInv, Ancestry!Types, Ancestry!Names, Ancestry!Unused,
     Ancestry!Account, Ancestry!Stands, Ancestry!Identified, Ancestry!Linked,
     Ancestry!SavedByItself, Ancestry!LaunchManifest, Ancestry!LeftManifest,
        Ancestry!SpeaksOfTheRun, Ancestry!At, Ancestry!Dir, Ancestry!Alone, Ancestry!Resumes

LEMMA AncestryStepPreserves ==
  ASSUME Ancestry!IInv, [Ancestry!Next]_Ancestry!vars
  PROVE  Ancestry!IInv'
<1>1. ASSUME NEW l \in Launchers, Ancestry!Create(l) PROVE Ancestry!IInv'
  <2> PICK d \in Dirs, p \in Parents \cup {Ancestry!None} :
        /\ v3' = [v3 EXCEPT ![l].at = "created", ![l].dir = d, ![l].from = p]
        /\ v4' = [v4 EXCEPT ![d] = l]
    BY <1>1 DEF Ancestry!Create
  <2>1. v3' = [v3 EXCEPT ![l] = Placed(l, "created", d, p)]
    BY DEF Placed, Ancestry!IInv, Ancestry!Types
  <2> QED
    BY <1>1, <2>1, AncestryTakesADirectory DEF Ancestry!Create
<1>2. ASSUME NEW l \in Launchers, Ancestry!Admit(l) PROVE Ancestry!IInv'
  <2>1. CASE Ancestry!At(l, "created")
    BY <1>2, <2>1, AncestryBeforeTheTrainer DEF Ancestry!Admit, Ancestry!At,
       Ancestry!documents
  <2>2. CASE ~Ancestry!At(l, "created")
    <3>0. Ancestry!At(l, "idle") /\ UNCHANGED <<v1, v4, v5, v7, v8, v9, v10>>
      BY <1>2, <2>2 DEF Ancestry!Admit, Ancestry!documents
    <3> PICK d \in Dirs, p \in Parents \cup {Ancestry!None} :
          v3' = [v3 EXCEPT ![l].at = "admitted", ![l].dir = d, ![l].from = p]
      BY <1>2, <2>2 DEF Ancestry!Admit
    <3>1. v3' = [v3 EXCEPT ![l] = Placed(l, "admitted", d, p)]
      BY DEF Placed, Ancestry!IInv, Ancestry!Types
    <3> QED
      BY <3>0, <3>1, AncestryTakesADirectory
  <2> QED
    BY <2>1, <2>2
<1>3. ASSUME NEW l \in Launchers, Ancestry!CheckParent(l) PROVE Ancestry!IInv'
  <2>1. /\ v3[l].at = "admitted"
        /\ UNCHANGED <<v1, v4, v5, v7, v8, v9, v10>>
    BY <1>3 DEF Ancestry!CheckParent, Ancestry!At, Ancestry!documents
  <2>2. CASE Ancestry!Resumes(l) /\ Ancestry!Goto(l, "checked")
    BY <2>1, <2>2, AncestryBeforeTheTrainer
  <2>3. CASE Ancestry!Resumes(l) /\ Ancestry!Goto(l, "refused")
    BY <2>1, <2>3, AncestryBeforeTheTrainer
  <2>4. CASE ~Ancestry!Resumes(l) /\ Ancestry!Goto(l, "linked")
    BY <2>1, <2>4, AncestryBeforeTheTrainer
  <2> QED
    BY <1>3, <2>2, <2>3, <2>4 DEF Ancestry!CheckParent
<1> QED
  BY <1>1, <1>2, <1>3, AncestryLinkKeeps, AncestryDescribeKeeps, AncestryRecordKeeps,
     AncestryWriteManifestKeeps, AncestryStartKeeps,
     AncestrySaveKeeps, AncestryExitKeeps, AncestryFinalizeKeeps, AncestryUsersKeep,
        AncestryOtherStepsKeep DEF Ancestry!Next

-----------------------------------------------------------------------------
\* A behaviour is about one protocol, which begins and goes on as its module says.

LEMMA PartsBegin ==
  ASSUME Init
  PROVE  /\ part = "reload" => Reload!Init
         /\ part = "frame" => Frame!Init
         /\ part = "capture" => Capture!Init
         /\ part = "route" => Route!Init
         /\ part = "ipc" => Ipc!Init
         /\ part = "inbox" => Inbox!Init
         /\ part = "host" => Host!Init
         /\ part = "bundle" => Bundle!Init
         /\ part = "ancestry" => Ancestry!Init
BY Zenon DEF Init,
   ReloadBegins, FrameBegins, CaptureBegins, RouteBegins, IpcBegins, InboxBegins,
   TelemetryBegins, HistoryBegins, HostBegins, DatabaseBegins, BundleBegins, AncestryBegins

LEMMA PartsGoOn ==
  ASSUME [Next]_vars
  PROVE  /\ part' = part
         /\ part = "reload" => [Reload!Next]_Reload!vars
         /\ part = "frame" => [Frame!Next]_Frame!vars
         /\ part = "capture" => [Capture!Next]_Capture!vars
         /\ part = "route" => [Route!Next]_Route!vars
         /\ part = "ipc" => [Ipc!Next]_Ipc!vars
         /\ part = "inbox" => [Inbox!Next]_Inbox!vars
         /\ part = "host" => [Host!Next]_Host!vars
         /\ part = "bundle" => [Bundle!Next]_Bundle!vars
         /\ part = "ancestry" => [Ancestry!Next]_Ancestry!vars
<1>1. CASE Next
  <2>1. part' = part
    BY <1>1, Zenon DEF Next,
       ReloadStep, FrameStep, CaptureStep, RouteStep, IpcStep, InboxStep, TelemetryStep,
       HistoryStep, HostStep, DatabaseStep, BundleStep, AncestryStep
  <2>2. part = "reload" => Reload!Next
    BY <1>1, Zenon DEF Next,
       ReloadStep, FrameStep, CaptureStep, RouteStep, IpcStep, InboxStep, TelemetryStep,
       HistoryStep, HostStep, DatabaseStep, BundleStep, AncestryStep
  <2>3. part = "frame" => Frame!Next
    BY <1>1, Zenon DEF Next,
       ReloadStep, FrameStep, CaptureStep, RouteStep, IpcStep, InboxStep, TelemetryStep,
       HistoryStep, HostStep, DatabaseStep, BundleStep, AncestryStep
  <2>4. part = "capture" => Capture!Next
    BY <1>1, Zenon DEF Next,
       ReloadStep, FrameStep, CaptureStep, RouteStep, IpcStep, InboxStep, TelemetryStep,
       HistoryStep, HostStep, DatabaseStep, BundleStep, AncestryStep
  <2>5. part = "route" => Route!Next
    BY <1>1, Zenon DEF Next,
       ReloadStep, FrameStep, CaptureStep, RouteStep, IpcStep, InboxStep, TelemetryStep,
       HistoryStep, HostStep, DatabaseStep, BundleStep, AncestryStep
  <2>6. part = "ipc" => Ipc!Next
    BY <1>1, Zenon DEF Next,
       ReloadStep, FrameStep, CaptureStep, RouteStep, IpcStep, InboxStep, TelemetryStep,
       HistoryStep, HostStep, DatabaseStep, BundleStep, AncestryStep
  <2>7. part = "inbox" => Inbox!Next
    BY <1>1, Zenon DEF Next,
       ReloadStep, FrameStep, CaptureStep, RouteStep, IpcStep, InboxStep, TelemetryStep,
       HistoryStep, HostStep, DatabaseStep, BundleStep, AncestryStep
  <2>8. part = "host" => Host!Next
    BY <1>1, Zenon DEF Next,
       ReloadStep, FrameStep, CaptureStep, RouteStep, IpcStep, InboxStep, TelemetryStep,
       HistoryStep, HostStep, DatabaseStep, BundleStep, AncestryStep
  <2>9. part = "bundle" => Bundle!Next
    BY <1>1, Zenon DEF Next,
       ReloadStep, FrameStep, CaptureStep, RouteStep, IpcStep, InboxStep, TelemetryStep,
       HistoryStep, HostStep, DatabaseStep, BundleStep, AncestryStep
  <2>10. part = "ancestry" => Ancestry!Next
    BY <1>1, Zenon DEF Next,
       ReloadStep, FrameStep, CaptureStep, RouteStep, IpcStep, InboxStep, TelemetryStep,
       HistoryStep, HostStep, DatabaseStep, BundleStep, AncestryStep
  <2> QED
    BY <2>1, <2>2, <2>3, <2>4, <2>5, <2>6, <2>7, <2>8, <2>9, <2>10
<1>2. CASE UNCHANGED vars
  <2>1. UNCHANGED <<part, v1, v2, v3, v4, v5, v6, v7, v8, v9, v10, v11, v12, v13, v14, v15, v16>>
    BY <1>2 DEF vars
  <2> QED
    BY <2>1 DEF Reload!vars, Frame!vars, Capture!vars, Route!vars, Ipc!vars, Inbox!vars, Host!vars, Bundle!vars, Ancestry!vars
<1> QED
  BY <1>1, <1>2

-----------------------------------------------------------------------------
(* The theorems.  The invariant of a part is its module's IInv, and says   *)
(* nothing of a behaviour that is about another part.                      *)

\* A capture, its label and its frames are of one policy, an explanation is of the
\* checkpoint it names, and a frame shows one step, whatever is reloaded, refused, reset
\* or raised in between.  (viewer/worker.py _reload_policy, _capture, _publish_frame)
THEOREM CapturesAreOfOnePolicy == Spec => []CaptureIsOnePolicy
<1> DEFINE I == /\ part = "reload" => Reload!IInv
                /\ part = "frame" => Frame!IInv
<1>1. Init => I
  BY PartsBegin, ReloadInitIInv, FrameInitIInv
<1>2. I /\ [Next]_vars => I'
  BY PartsGoOn, ReloadStepPreserves, FrameStepPreserves
<1>3. I => CaptureIsOnePolicy
  BY DEF CaptureIsOnePolicy, Reload!IInv, Reload!CaptureIsOnePolicy,
     Reload!ExplanationIsOfItsCheckpoint, Frame!IInv
<1> HIDE DEF I
<1> QED
  BY <1>1, <1>2, <1>3, PTL DEF Spec

\* A recovery is only captured after the dwell of stable frames that followed an unstable
\* one of the same episode, and retention never removes the newest event.
\* (viewer/replay.py EventTriggerDetector.update, PolicyReplayRecorder.persist)
THEOREM RecoveriesAreReal == Spec => []RecoveryIsReal
<1> DEFINE I == part = "capture" => Capture!IInv
<1>1. Init => I
  BY PartsBegin, CaptureInitIInv
<1>2. I /\ [Next]_vars => I'
  BY PartsGoOn, CaptureStepPreserves
<1>3. I => RecoveryIsReal
  BY DEF RecoveryIsReal, Capture!IInv
<1> HIDE DEF I
<1> QED
  BY <1>1, <1>2, <1>3, PTL DEF Spec

\* The policy's target is the active waypoint or the place where it was told to hold, and
\* queued waypoints are taken in their order, whatever is set, queued, cleared or paused.
\* (viewer/waypoints.py)
THEOREM TheRouteIsFollowed == Spec => []RouteIsFollowed
<1> DEFINE I == part = "route" => Route!IInv
<1>1. Init => I
  BY PartsBegin, RouteInitIInv
<1>2. I /\ [Next]_vars => I'
  BY PartsGoOn, RouteStepPreserves
<1>3. I => RouteIsFollowed
  BY DEF RouteIsFollowed, Route!IInv
<1> HIDE DEF I
<1> QED
  BY <1>1, <1>2, <1>3, PTL DEF Spec

\* A request slot never holds two requests, and the commands of one queuer are applied in
\* its order, each once, through failures and reads of a half-filled directory.
\* (viewer/ipc.py, viewer/waypoints.py apply_pending)
THEOREM RequestsStayInOrder == Spec => []RequestsKeepTheirOrder
<1> DEFINE I == /\ part = "ipc" => Ipc!IInv
                /\ part = "inbox" => Inbox!IInv
<1>1. Init => I
  BY PartsBegin, IpcInitIInv, InboxInitIInv
<1>2. I /\ [Next]_vars => I'
  BY PartsGoOn, IpcStepPreserves, InboxStepPreserves
<1>3. I => RequestsKeepTheirOrder
  BY DEF RequestsKeepTheirOrder, Ipc!IInv, Ipc!SlotInv, Ipc!SlotIsExclusive, Inbox!IInv
<1> HIDE DEF I
<1> QED
  BY <1>1, <1>2, <1>3, PTL DEF Spec

\* At most one maintenance script works whose record stands, and a recorded outcome is how
\* the update ended, through overlapping requests, exits and deaths of the supervisor.
\* (scripts/host_supervisor.py update_state, start_update, wait_for_update)
THEOREM OneUpdateAtATime == Spec => []OneUpdate
<1> DEFINE I == part = "host" => Host!IInv
<1>1. Init => I
  BY PartsBegin, HostInitIInv, HostParameters
<1>2. I /\ [Next]_vars => I'
  BY PartsGoOn, HostStepPreserves, HostParameters
<1>3. I => OneUpdate
  BY HostAtMostOne DEF OneUpdate, Host!IInv
<1> HIDE DEF I
<1> QED
  BY <1>1, <1>2, <1>3, PTL DEF Spec

\* What is recorded about a run is true: the archived source is a state the tree was in
\* unless a part was changed back meanwhile, the trainer resumes the parent its launcher
\* checked, the manifest speaks of the run's own last checkpoint, and the commit shown is
\* the launcher's.  (dashboard/provenance.py, launch.py, versioning.py)
THEOREM ProvenanceStaysTrue == Spec => []ProvenanceIsTrue
<1> DEFINE I == /\ part = "bundle" => Bundle!IInv
                /\ part = "ancestry" => Ancestry!IInv
<1>1. Init => I
  BY PartsBegin, BundleInitIInv, AncestryInitIInv
<1>2. I /\ [Next]_vars => I'
  BY PartsGoOn, BundleStepPreserves, AncestryStepPreserves
<1>3. I => ProvenanceIsTrue
  BY AncestryTruthful DEF ProvenanceIsTrue, Bundle!IInv
<1> HIDE DEF I
<1> QED
  BY <1>1, <1>2, <1>3, PTL DEF Spec
=============================================================================
