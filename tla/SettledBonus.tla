---------------------------- MODULE SettledBonus ----------------------------
(***************************************************************************)
(* The reward for settling at a target                                     *)
(* (src/ascento_mjlab/mdp/rewards.py, GeneralistTargetArrivalSettledStop-  *)
(* Bonus) beside the sequence that issues the targets.  Both time the same *)
(* dwell, each with a clock of its own: the reward manager runs before the *)
(* event, and its envelope is the wider one (it bounds roll and pitch      *)
(* rates apart from the yaw rate).                                         *)
(***************************************************************************)
EXTENDS TargetSequence

VARIABLES bonus,  \* the term's dwell, its latch and the attempt it last saw
          pays    \* whether the term paid in the last step

bonusVars == <<vars, bonus, pays>>

BonusInit == Init /\ bonus = [dwell |-> 0, rewarded |-> FALSE, last |-> -1] /\ pays = FALSE

\* Seeded defect: a robot that is settled when its target changes has to move before it is paid.
RewardKeepsLatch(settled) ==
  LET counts == settled /\ env.id >= 0
      dwell == IF ~counts THEN 0 ELSE IF bonus.dwell < Hold THEN bonus.dwell + 1 ELSE bonus.dwell
      rewarded == bonus.rewarded /\ settled
  IN /\ pays' = (counts /\ ~rewarded /\ dwell >= Hold)
     /\ bonus' = [dwell |-> dwell, rewarded |-> rewarded \/ pays',
                  last |-> IF rewarded THEN bonus.last ELSE env.id]

(* One call of the term.  An attempt it has not seen restarts the clock    *)
(* and the latch.                                                          *)
Reward(settled) ==
  LET changed == env.id # bonus.last
      counts == settled /\ env.id >= 0
      before == IF changed THEN 0 ELSE bonus.dwell
      dwell == IF ~counts THEN 0 ELSE IF before < Hold THEN before + 1 ELSE before
      rewarded == bonus.rewarded /\ ~changed
  IN /\ pays' = (counts /\ ~rewarded /\ dwell >= Hold)
     /\ bonus' = [dwell |-> dwell, rewarded |-> rewarded \/ pays', last |-> env.id]

RewardedStep ==
  \E m \in Motion, d \in {"no", "fall", "timeout"}, b \in BandsFor(cohort), wide \in BOOLEAN :
    /\ Step(m, d, b)
    /\ Reward(m.place = "settled" \/ (m.place = "near" /\ wide))

(* The reward manager resets its terms with the environment.               *)
RewardedReset == /\ ResetDone
                 /\ bonus' = [dwell |-> 0, rewarded |-> FALSE, last |-> -1]
                 /\ pays' = FALSE

BonusNext == RewardedStep \/ RewardedReset

BonusSpec == BonusInit /\ [][BonusNext]_bonusVars

-----------------------------------------------------------------------------
(* Who settles is paid: when the sequence records a settled stop, the      *)
(* reward for that very attempt has been given, in this step or before.    *)
(* The two dwell clocks are reset by different code (the change of the     *)
(* attempt number here, the issue of a target there).                      *)
SettledIsPaid ==
  \A b \in Bands : env'.settles[b] > env.settles[b]
                     => bonus'.rewarded /\ bonus'.last = env.id

(***************************************************************************)
(* The inductive invariant                                                 *)
(***************************************************************************)

(* Of an episode's state, whatever call has made it.  An attempt that is   *)
(* active has a row and a band; what is counted of it is in the books.     *)
Well(r) == r \in Episode /\ (r.pending => r.slot >= 0 /\ r.band \in Bands)

Open(r, b) == IF r.pending /\ r.band = b THEN 1 ELSE 0

Balanced(r) ==
  \A b \in Bands :
    r.attempts[b] = r.settles[b] + r.falls[b] + r.timeouts[b] + r.resets[b] + Open(r, b)

OneOpenRow(r) ==
  /\ \A i \in 0 .. HistoryCapacity - 1 :
       r.history[i].reason = "pending" <=> r.pending /\ i = r.slot
  /\ r.slot >= 0 => /\ r.history[r.slot].id = r.id
                    /\ r.history[r.slot].arrived = r.arrival
                    /\ r.history[r.slot].settled = r.settle

(* The attempt that is active can still arrive, and settle once it has.    *)
Reached(r) ==
  \A b \in Bands : /\ r.settles[b] + (IF r.arrival THEN Open(r, b) ELSE 0) <= r.arrivals[b]
                   /\ r.arrivals[b] + (IF r.arrival THEN 0 ELSE Open(r, b)) <= r.attempts[b]

(* A target is only issued when none is active, so none is "retargeted",   *)
(* which the books do not count.                                           *)
Active(r, c) ==
  /\ r.pending => r.id >= 0 /\ ~r.settle /\ (r.here => r.arrival)
  /\ r.stopRecorded \/ (c = "gate" /\ ~r.retargeted) => ~r.pending

Sound(r, c) == Well(r) /\ Balanced(r) /\ OneOpenRow(r) /\ Reached(r) /\ Active(r, c)

(* The clock of the reward is not behind that of the sequence.             *)
ClocksAgree ==
  env.pending => IF bonus.last = env.id THEN bonus.rewarded \/ bonus.dwell >= env.dwell
                 ELSE env.dwell = 0

IInv ==
  /\ cohort \in Cohorts /\ done \in {"no", "fall", "timeout"}
  /\ credit \in [tried : Counts, won : Counts]
  /\ bonus \in [dwell : 0 .. Hold, rewarded : BOOLEAN, last : Nat \cup {-1}]
  /\ Sound(env, cohort) /\ CreditedOnce /\ ClocksAgree
  /\ done = "no" => ~env.credited
=============================================================================
