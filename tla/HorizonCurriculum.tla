-------------------------- MODULE HorizonCurriculum --------------------------
(***************************************************************************)
(* The episode-horizon curriculum of a training run                        *)
(* (src/ascento_mjlab/horizon_curriculum.py): finished episodes queue up   *)
(* in order, every full window of them is judged, and windows move the run *)
(* between horizons and keep the best candidate checkpoint of the longest  *)
(* one.  Whether an episode timed out and met the quality bar is the       *)
(* physics' choice.  The trainer may be killed between any two file        *)
(* operations.                                                             *)
(***************************************************************************)
EXTENDS Integers, Sequences, FiniteSets

CONSTANTS NumEnvs, Window,          \* environments; completion_window_episodes
          Top,                      \* index of the last entry of HORIZON_SCHEDULE_S
          GoodTimeouts, BadTimeouts, GoodQuality, \* the fractions, as counts of a window
          Required, RequiredFailures, MinDwell

VARIABLES stage,    \* _schedule_index
          pending,  \* _pending_completion_outcomes: [timeout, at]; at is read by properties
          quality,  \* _pending_quality_outcomes
          tally,    \* the window counters of the stage
          best,     \* _best_top_horizon_timeout_fraction, as a count; -1 at first
          fixed,    \* the optimizer's schedule is "fixed"
          disk,     \* the candidate checkpoint and its metadata, by their timeouts
          pc,
          fresh, earned  \* fresh episodes of the streak, and of the last promotion

vars == <<stage, pending, quality, tally, best, fixed, disk, pc, fresh, earned>>

NoTally == [successes |-> 0, failures |-> 0, windows |-> 0]

(* A run may start at any configured horizon (_schedule_index_for).        *)
Init == /\ stage \in 0..Top
        /\ pending = <<>> /\ quality = <<>>
        /\ tally = NoTally
        /\ best = -1
        /\ fixed = (stage = Top)
        /\ disk = [checkpoint |-> -1, metadata |-> -1]
        /\ pc = "rolling"
        /\ fresh = 0 /\ earned = Required * Window

Rolling(queue) == IF Len(queue) >= Window THEN "judging" ELSE "rolling"

(* _step: the episodes that end in this control step, by environment.      *)
Step == /\ pc = "rolling"
        /\ \E n \in 1..NumEnvs :
             \E timeouts, passes \in [1..n -> BOOLEAN] :
               /\ pending' = pending \o
                    [i \in 1..n |-> [timeout |-> timeouts[i], at |-> stage]]
               /\ quality' = quality \o passes
        /\ pc' = Rolling(pending')
        /\ UNCHANGED <<stage, tally, best, fixed, disk, fresh, earned>>

Count(n, P(_)) == Cardinality({i \in 1..n : P(i)})
Timeouts == Count(Window, LAMBDA i : pending[i].timeout)
Qualified == Count(Window, LAMBDA i : quality[i]) >= GoodQuality
Good == Timeouts >= GoodTimeouts /\ Qualified

(* The counters are only compared with their limits, so they stop there.   *)
Saturated(n, limit) == IF n < limit THEN n + 1 ELSE limit

(* The counters after the window.                                          *)
Tallied ==
  [successes |-> IF Good THEN Saturated(tally.successes, Required) ELSE 0,
   failures  |-> IF ~Good /\ Timeouts < BadTimeouts
                 THEN Saturated(tally.failures, RequiredFailures) ELSE 0,
   windows   |-> Saturated(tally.windows, MinDwell)]

Promoted == Tallied.successes >= Required /\ stage # Top
Demoted == /\ ~Promoted
           /\ Tallied.failures >= RequiredFailures
           /\ stage \in 1..(Top - 1)
           /\ Tallied.windows >= MinDwell
Protected == stage = Top /\ Tallied.failures >= RequiredFailures
\* One good window at the top is enough (required_top_horizon_candidate_windows).
Better == stage = Top /\ Good /\ Timeouts > best

\* Seeded defect: the streak survives a promotion.
TallyKept ==
  CASE Demoted   -> NoTally
    [] Protected -> [Tallied EXCEPT !.failures = 0]
    [] OTHER     -> Tallied

(* The counters the stage goes on with.                                    *)
NextTally ==
  CASE Promoted \/ Demoted -> NoTally
    [] Protected           -> [Tallied EXCEPT !.failures = 0]
    [] OTHER               -> Tallied

FreshInWindow == Count(Window, LAMBDA i : pending[i].at = stage)

(* One turn of _record_completion_outcomes' loop and the judgement of its  *)
(* window; a better candidate goes to disk before the next window.         *)
Judge ==
  /\ pc = "judging"
  /\ tally' = NextTally
  /\ stage' = CASE Promoted -> stage + 1 [] Demoted -> stage - 1 [] OTHER -> stage
  /\ fixed' = (fixed \/ stage' = Top)
  /\ pending' = SubSeq(pending, Window + 1, Len(pending))
  /\ quality' = SubSeq(quality, Window + 1, Len(quality))
  /\ fresh' = IF Good /\ stage' = stage /\ stage # Top THEN fresh + FreshInWindow ELSE 0
  /\ earned' = IF Promoted THEN fresh + FreshInWindow ELSE earned
  /\ best' = IF Better THEN Timeouts ELSE best
  /\ pc' = IF Better THEN "replacing" ELSE Rolling(pending')
  /\ UNCHANGED disk

\* Seeded defect: the metadata is published before the checkpoint it describes.
MetadataFirst ==
  /\ pc = "replacing"
  /\ disk' = [disk EXCEPT !.metadata = best]
  /\ pc' = "describing"
  /\ UNCHANGED <<stage, pending, quality, tally, best, fixed, fresh, earned>>

(* _save_top_horizon_candidate: the checkpoint is renamed into place ...   *)
ReplaceCheckpoint ==
  /\ pc = "replacing"
  /\ disk' = [disk EXCEPT !.checkpoint = best]
  /\ pc' = "describing"
  /\ UNCHANGED <<stage, pending, quality, tally, best, fixed, fresh, earned>>

(* ... and then its metadata.                                              *)
ReplaceMetadata ==
  /\ pc = "describing"
  /\ disk' = [disk EXCEPT !.metadata = best]
  /\ pc' = Rolling(pending)
  /\ UNCHANGED <<stage, pending, quality, tally, best, fixed, fresh, earned>>

(* The trainer is killed; a resumed run has a log directory of its own.    *)
Crash == /\ pc # "crashed"
         /\ pc' = "crashed"
         /\ UNCHANGED <<stage, pending, quality, tally, best, fixed, disk, fresh, earned>>

Next == Step \/ Judge \/ ReplaceCheckpoint \/ ReplaceMetadata \/ Crash

Spec == Init /\ [][Next]_vars

-----------------------------------------------------------------------------
TypeOK == /\ stage \in 0..Top
          /\ Len(pending) < Window + NumEnvs
          /\ Len(quality) = Len(pending)
          /\ tally \in [successes : 0..Required, failures : 0..RequiredFailures,
                        windows : 0..MinDwell]
          /\ pc \in {"rolling", "judging", "replacing", "describing", "crashed"}

(* "The horizon advances after six consecutive 512-episode windows": fewer *)
(* than NumEnvs of the episodes a promotion rests on had ended before its  *)
(* stage began, left in the queue by the previous promotion or demotion.   *)
PromotionIsEarned == earned >= Required * Window - (NumEnvs - 1)

(* The kept candidate is the best qualifying window of the longest         *)
(* horizon, on disk it is never described by better results than its own,  *)
(* and the longest horizon never runs with an adaptive learning rate.      *)
CandidateIsTheBest ==
  /\ disk.metadata <= disk.checkpoint /\ disk.checkpoint <= best
  /\ pc \in {"rolling", "judging"} => disk.metadata = best /\ disk.checkpoint = best
  /\ stage = Top => fixed

(***************************************************************************)
(* The inductive invariant                                                 *)
(***************************************************************************)

Outcome == [timeout : BOOLEAN, at : 0..Top]

Types == /\ TypeOK
         /\ pending \in Seq(Outcome) /\ quality \in Seq(BOOLEAN)
         /\ fixed \in BOOLEAN /\ best \in Int
         /\ disk \in [checkpoint : Int, metadata : Int]
         /\ fresh \in Nat /\ earned \in Nat

(* A window is only judged when it is full, and the loop goes on until     *)
(* fewer episodes are left than a window has.                              *)
QueueIsDrained == /\ pc = "rolling" => Len(pending) < Window
                  /\ pc = "judging" => Len(pending) >= Window

(* At most k episodes at the head of the queue ended in an earlier stage;  *)
(* the streak lacks no more fresh episodes than have left the queue since. *)
OldAtTheHead(k) == \A i \in 1..Len(pending) : i > k => pending[i].at = stage
StreakIsFresh ==
  /\ stage # Top => tally.successes < Required
  /\ \E k \in 0..(NumEnvs - 1) :
       /\ OldAtTheHead(k)
       /\ stage # Top => fresh >= Window * tally.successes + k - (NumEnvs - 1)

(* Where the two renames of a candidate leave its files.                   *)
CandidateIsStaged ==
  /\ disk.metadata <= disk.checkpoint /\ disk.checkpoint <= best
  /\ pc \in {"rolling", "judging"} => disk.metadata = best
  /\ pc = "describing" => disk.checkpoint = best
  /\ stage = Top => fixed

IInv == Types /\ QueueIsDrained /\ StreakIsFresh /\ PromotionIsEarned /\ CandidateIsStaged
=============================================================================
