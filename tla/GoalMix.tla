------------------------------ MODULE GoalMix ------------------------------
(***************************************************************************)
(* The goal-mix curriculum of the generalist task                          *)
(* (src/ascento_mjlab/mdp/events.py): one dictionary, shared by the reset  *)
(* sampler and by the target sequence, that decides how large a share of   *)
(* the navigation targets is long.  It collects the outcomes of episodes   *)
(* that ended in a window, and when the window holds enough of them it     *)
(* promotes, demotes or keeps the stage and starts a new window.           *)
(*                                                                         *)
(* The evidence is two numbers, successes and trials; what the Wilson      *)
(* bound makes of them is left to the parameter Passes.                    *)
(***************************************************************************)
EXTENDS Naturals, FiniteSets

CONSTANTS MinAttempts,     \* minimum_attempts_per_window
          DemotionWindows  \* demotion_windows, 2 in the code

CONSTANT Passes(_, _, _)   \* Passes(bar, successes, trials)

Stage == 0 .. 2
Evidence == {"gate", "short", "long"}

NoEvidence == [k \in Evidence |-> 0]

(* What generalist_goal_mix_state starts with.  won and tried are the      *)
(* window, allTried counts the trials of the whole run.                    *)
NewMix == [stage |-> 0, streak |-> 0,
           tried |-> NoEvidence, won |-> NoEvidence,
           allTried |-> NoEvidence]

MixType == [stage : Stage, streak : Nat,
            tried : [Evidence -> Nat], won : [Evidence -> Nat],
            allTried : [Evidence -> Nat]]

Enough(x, k) == x.tried[k] >= MinAttempts
Passed(x, bar, k) == Passes(bar, x.won[k], x.tried[k])

(* A window is judged when every kind of episode the stage trains has been *)
(* seen often enough.                                                      *)
WindowReady(x) == /\ Enough(x, "gate") /\ Enough(x, "short")
                  /\ x.stage = 0 \/ Enough(x, "long")

\* Seeded defect: the last stage can be promoted too.
PromotionReadyAnywhere(x) == /\ Passed(x, "promote", "gate") /\ Passed(x, "promote", "short")
                             /\ x.stage = 1 => Passed(x, "promote", "long")

PromotionReady(x) == /\ x.stage < 2
                     /\ Passed(x, "promote", "gate") /\ Passed(x, "promote", "short")
                     /\ x.stage = 1 => Passed(x, "promote", "long")

BelowFloor(x) == \/ ~Passed(x, "keep", "gate")
                 \/ ~Passed(x, "keep", "short")
                 \/ x.stage > 0 /\ ~Passed(x, "keep", "long")

\* Seeded defect: the bad windows of a stage are kept when it changes.
NextStageKeepsStreak(x) ==
  IF PromotionReady(x) THEN [stage |-> x.stage + 1, streak |-> x.streak]
  ELSE IF x.stage = 0 \/ ~BelowFloor(x) THEN [stage |-> x.stage, streak |-> 0]
  ELSE IF x.streak + 1 >= DemotionWindows THEN [stage |-> x.stage - 1, streak |-> 0]
  ELSE [stage |-> x.stage, streak |-> x.streak + 1]

(* update_generalist_goal_mix_stage: a good window promotes, and only bad  *)
(* windows in a row demote.                                                *)
NextStage(x) ==
  IF PromotionReady(x) THEN [stage |-> x.stage + 1, streak |-> 0]
  ELSE IF x.stage = 0 \/ ~BelowFloor(x) THEN [stage |-> x.stage, streak |-> 0]
  ELSE IF x.streak + 1 >= DemotionWindows THEN [stage |-> x.stage - 1, streak |-> 0]
  ELSE [stage |-> x.stage, streak |-> x.streak + 1]

Sum(f, g) == [k \in Evidence |-> f[k] + g[k]]

(* The window and the run both get what the ended episodes show.           *)
Credited(x, tries, wins) ==
  [x EXCEPT !.tried = Sum(@, tries), !.won = Sum(@, wins),
            !.allTried = Sum(@, tries)]

\* Seeded defect: the judged window is not emptied.
JudgedAgain(x) ==
  IF WindowReady(x) THEN [x EXCEPT !.stage = NextStage(x).stage, !.streak = NextStage(x).streak]
  ELSE x

Judged(x) ==
  IF WindowReady(x)
  THEN [x EXCEPT !.stage = NextStage(x).stage, !.streak = NextStage(x).streak,
                 !.tried = NoEvidence, !.won = NoEvidence]
  ELSE x

=============================================================================
