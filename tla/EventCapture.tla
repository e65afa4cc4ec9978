---------------------------- MODULE EventCapture ----------------------------
(***************************************************************************)
(* Falls and recoveries in the viewer (viewer/replay.py, worker.py):       *)
(* EventTriggerDetector over the frames of the simulation, the bounded     *)
(* replay buffer, and PolicyReplayRecorder, which writes an artifact, then *)
(* its summary, then removes the oldest artifacts and their summaries, and *)
(* may be killed between any two of these.  A frame is stable, unstable or *)
(* between the two margins; "fallen" is the real termination term.         *)
(***************************************************************************)
EXTENDS Naturals, Sequences, SequencesExt, FiniteSetsExt

CONSTANTS Capacity, DwellFrames, MaxEvents,
          MaxFrames    \* bound of the model

VARIABLES frames,      \* every frame: [state, ends, episode]
          since,       \* the frames that the detector's marks point at: [unstable, stable]
          buffer,      \* the numbers of the frames in PolicyReplayBuffer
          event,       \* the event of the last frame
          artifacts, summaries,   \* the files of the capture directory, by frame number
          recorder     \* what persist() has left to do
vars == <<frames, since, buffer, event, artifacts, summaries, recorder>>

States == {"stable", "between", "unstable", "fallen"}
Calm == [unstable |-> 0, stable |-> 0]
Idle == [at |-> "idle", frame |-> 0]
Now == Len(frames)
Episode == IF Now = 0 THEN 1 ELSE frames[Now].episode + (IF frames[Now].ends THEN 1 ELSE 0)

FrameRecord == [state : States, ends : BOOLEAN, episode : 1..MaxFrames]

TypeOK ==
  /\ frames \in Seq(FrameRecord) /\ Now <= MaxFrames
  /\ since \in [unstable : 0..Now, stable : 0..Now]
  /\ buffer \in Seq(1..Now) /\ Len(buffer) <= Capacity
  /\ event \in {"none", "fall", "recovery"}
  /\ artifacts \cup summaries \subseteq 1..Now
  /\ recorder \in [at : {"idle", "summary", "retention", "unlink"}, frame : 0..Now]

Init ==
  /\ frames = <<>> /\ since = Calm /\ buffer = <<>> /\ event = "none"
  /\ artifacts = {} /\ summaries = {} /\ recorder = Idle

----------------------------------------------------------------------------
\* EventTriggerDetector.update: the marks and the event after frame n

Held(s, n) == n - s.stable >= DwellFrames

\* Seeded defect: a frame between the margins does not interrupt the dwell.
DetectLenient(f, n) ==
  CASE f.state = "fallen" -> [since |-> Calm, event |-> "fall"]
    [] f.state # "fallen" /\ f.ends -> [since |-> Calm, event |-> "none"]
    [] OTHER ->
        IF since.unstable = 0
        THEN [since |-> [Calm EXCEPT !.unstable = IF f.state = "unstable" THEN n ELSE 0],
              event |-> "none"]
        ELSE IF f.state = "unstable"
        THEN [since |-> [since EXCEPT !.stable = 0], event |-> "none"]
        ELSE LET s == [since EXCEPT !.stable = IF @ = 0 THEN n ELSE @]
             IN IF Held(s, n) THEN [since |-> Calm, event |-> "recovery"]
                ELSE [since |-> s, event |-> "none"]

Detect(f, n) ==
  CASE f.state = "fallen" -> [since |-> Calm, event |-> "fall"]
    [] f.state # "fallen" /\ f.ends -> [since |-> Calm, event |-> "none"]
    [] OTHER ->
        IF since.unstable = 0
        THEN [since |-> [Calm EXCEPT !.unstable = IF f.state = "unstable" THEN n ELSE 0],
              event |-> "none"]
        ELSE IF f.state # "stable"
        THEN [since |-> [since EXCEPT !.stable = 0], event |-> "none"]
        ELSE LET s == [since EXCEPT !.stable = IF @ = 0 THEN n ELSE @]
             IN IF Held(s, n) THEN [since |-> Calm, event |-> "recovery"]
                ELSE [since |-> s, event |-> "none"]

Kept(n) == LET b == Append(buffer, n) IN IF Len(b) > Capacity THEN Tail(b) ELSE b

----------------------------------------------------------------------------
\* One executed step: the frame is appended, the detector runs, an event is persisted
\* before the next step, and the end of the episode empties buffer and detector.
Step(state, ends) ==
  /\ recorder = Idle /\ Now < MaxFrames
  /\ LET f == [state |-> state, ends |-> ends, episode |-> Episode]
         n == Now + 1
         d == Detect(f, n)
     IN /\ frames' = Append(frames, f)
        /\ event' = d.event
        /\ since' = IF ends THEN Calm ELSE d.since
        /\ buffer' = IF ends THEN <<>> ELSE Kept(n)
        /\ IF d.event = "none" THEN UNCHANGED <<artifacts, recorder>>
           ELSE /\ artifacts' = artifacts \cup {n}
                /\ recorder' = [at |-> "summary", frame |-> n]
  /\ UNCHANGED summaries

WriteSummary ==
  /\ recorder.at = "summary"
  /\ summaries' = summaries \cup {recorder.frame}
  /\ recorder' = [recorder EXCEPT !.at = "retention"]
  /\ UNCHANGED <<frames, since, buffer, event, artifacts>>

\* Seeded defect: retention keeps the oldest artifacts.
StaleOldest == IF Cardinality(artifacts) > MaxEvents THEN {Max(artifacts)} ELSE {}

\* the artifacts beyond the newest max_events
Stale == {a \in artifacts : Cardinality({b \in artifacts : b > a}) >= MaxEvents}

\* _enforce_retention: an artifact is removed, then its summary, one stale event at a time
Retain ==
  /\ recorder.at = "retention"
  /\ IF Stale = {} THEN recorder' = Idle /\ UNCHANGED artifacts
     ELSE \E a \in Stale :
            /\ \A b \in Stale : b <= a
            /\ artifacts' = artifacts \ {a} /\ recorder' = [at |-> "unlink", frame |-> a]
  /\ UNCHANGED <<frames, since, buffer, event, summaries>>

UnlinkSummary ==
  /\ recorder.at = "unlink"
  /\ summaries' = summaries \ {recorder.frame}
  /\ recorder' = [recorder EXCEPT !.at = "retention"]
  /\ UNCHANGED <<frames, since, buffer, event, artifacts>>

\* the disk refuses a write or a removal: persist() stops there, the viewer goes on;
\* killing the worker leaves the same files
PersistFails ==
  /\ recorder # Idle /\ recorder' = Idle
  /\ UNCHANGED <<frames, since, buffer, event, artifacts, summaries>>

Next ==
  \/ \E state \in States, ends \in BOOLEAN : (state = "fallen" => ends) /\ Step(state, ends)
  \/ WriteSummary \/ Retain \/ UnlinkSummary \/ PersistFails

Spec == Init /\ [][Next]_vars

(***************************************************************************)
(* Properties                                                              *)
(***************************************************************************)

\* A recovery is reported only for an episode that was unstable and then stable
\* without interruption for the dwell, never across the end of an episode or a fall
\* (EventTriggerDetector.update).
RecoveryIsReal ==
  event = "recovery" =>
    \E u \in 1..Now :
      /\ frames[u].state = "unstable" /\ frames[u].episode = frames[Now].episode
      /\ \A n \in (Now - DwellFrames)..Now : u < n /\ frames[n].state = "stable"

\* The newest event is never the one that retention removes, and outside of persist()
\* no more than max_events artifacts are kept unless a write or a removal failed
\* (PolicyReplayRecorder.persist, _enforce_retention).
NewestIsKept ==
  recorder.at = "unlink" => \E a \in artifacts : a > recorder.frame

(***************************************************************************)
(* The inductive invariant                                                 *)
(***************************************************************************)

\* What the detector's marks point at: a frame of this episode that was unstable, and
\* the first of the stable ones that followed it without interruption.
Marks ==
  /\ since.unstable # 0 =>
       frames[since.unstable].state = "unstable" /\ frames[since.unstable].episode = Episode
  /\ since.stable # 0 =>
       /\ since.unstable # 0 /\ since.unstable < since.stable
       /\ \A n \in since.stable..Now : frames[n].state = "stable"

EpisodesAreCounted == \A n \in 1..Now : frames[n].episode <= n

\* Outside of rest the recorder works on a frame.
WorksOnAFrame == recorder.at # "idle" => recorder.frame > 0

IInv ==
  /\ TypeOK /\ Marks /\ EpisodesAreCounted /\ WorksOnAFrame
  /\ RecoveryIsReal /\ NewestIsKept
=============================================================================
