--------------------------- MODULE TargetSequence ---------------------------
(***************************************************************************)
(* The target attempts of one environment of the generalist task           *)
(* (src/ascento_mjlab/mdp/events.py).  RepeatedRandomWorldTargetSequence   *)
(* issues targets to the simulated robots of a batch and keeps the books   *)
(* on them; its tensor operations act on every environment alike, and the  *)
(* environments meet only in the goal mix (GoalMixRun).  An environment    *)
(* has a fixed cohort:                                                     *)
(*   precision    a short target, and another when the robot has settled;  *)
(*   gate         hold the start pose, take one push, then one retarget;   *)
(*   navigation   targets of every length, the next when settled.          *)
(* A target is an attempt until it is settled or the episode ends, and the *)
(* outcome of an ended episode is evidence for the goal mix.               *)
(*                                                                         *)
(* Time is counted in calls: a robot is at the target for Hold calls, is   *)
(* calm for Calm calls, and an episode is pushed at PushTime and           *)
(* retargeted at RetargetTime.  The physics is the nondeterministic choice *)
(* of what the robot does in a call.  An environment whose episode ended   *)
(* is reset after the call that sees it done, which is what the sequence   *)
(* relies on when it reads the done flags.                                 *)
(***************************************************************************)
EXTENDS Integers

CONSTANTS Hold, Calm, PushTime, RetargetTime,
          HistoryCapacity,  \* rows of the ring of attempts, 512 in the code
          MaxAttempts       \* bound: attempts of the environment in one run

Cohorts == {"precision", "gate", "navigation"}
Bands == {"short", "medium", "long"}
Outcomes == {"settled", "fall", "timeout", "reset", "retargeted"}

(* What the robot does in a call: where it is and whether it is within the *)
(* recovery envelope.  "settled" is at the target and at rest.             *)
Motion == [place : {"away", "near", "settled"}, calm : BOOLEAN]

VARIABLES cohort,   \* ascento_generalist_cohort_ids, fixed for the run
          env,      \* the sequence's and the metrics' state of the environment
          done,     \* what ended the episode, "no" while it runs
          credit    \* what the environment gave to the goal mix so far

vars == <<cohort, env, done, credit>>

NoCount == [b \in Bands |-> 0]
NoSlot == [id |-> -1, reason |-> "none", arrived |-> FALSE, settled |-> FALSE]

(* The outcome flags and counters of an episode, and the attempt it is on: *)
(* slot is its row in the ring.  What outlives an episode is the number of *)
(* the last attempt and the ring.                                          *)
FreshEpisode(kept) ==
  [pushed |-> FALSE, retargeted |-> FALSE, elapsed |-> 0, stable |-> 0, dwell |-> 0,
   here |-> FALSE, recovered |-> FALSE, second |-> FALSE,
   stopRecorded |-> FALSE, stop |-> FALSE, postStop |-> FALSE, credited |-> FALSE,
   pending |-> FALSE, band |-> "none", arrival |-> FALSE, settle |-> FALSE, slot |-> -1,
   attempts |-> NoCount, arrivals |-> NoCount, settles |-> NoCount,
   falls |-> NoCount, timeouts |-> NoCount, resets |-> NoCount,
   id |-> kept.id, writes |-> kept.writes, history |-> kept.history]

Unborn == [id |-> -1, writes |-> 0, history |-> [i \in 0 .. HistoryCapacity - 1 |-> NoSlot]]

NoCredit == [tried |-> NoCount, won |-> NoCount]

-----------------------------------------------------------------------------
\* Seeded defect: the end of an episode is not counted.
FinalizeUncounted(r, reason) ==
  IF ~r.pending THEN r
  ELSE [r EXCEPT !.pending = FALSE,
                 !.history[r.slot].reason = reason,
                 !.falls[r.band] = @ + (IF reason = "fall" THEN 1 ELSE 0),
                 !.resets[r.band] = @ + (IF reason = "reset" THEN 1 ELSE 0)]

(* finalize_generalist_target_attempts: an attempt that is active gets its *)
(* reason, in the state, in its counter and in the history.                *)
Finalize(r, reason) ==
  IF ~r.pending THEN r
  ELSE [r EXCEPT !.pending = FALSE,
                 !.history[r.slot].reason = reason,
                 !.falls[r.band] = @ + (IF reason = "fall" THEN 1 ELSE 0),
                 !.timeouts[r.band] = @ + (IF reason = "timeout" THEN 1 ELSE 0),
                 !.resets[r.band] = @ + (IF reason = "reset" THEN 1 ELSE 0)]

\* Seeded defect: the ring does not wrap around.
BeginUnwrapped(r, band) ==
  LET c == Finalize(r, "retargeted")
  IN [c EXCEPT !.id = @ + 1, !.band = band, !.pending = TRUE, !.arrival = FALSE, !.settle = FALSE,
               !.slot = c.writes, !.writes = @ + 1, !.attempts[band] = @ + 1]

(* begin_generalist_target_attempt: what is still active is closed, and    *)
(* the new attempt takes the next row of the ring.                         *)
Begin(r, band) ==
  LET c == Finalize(r, "retargeted")
      slot == c.writes % HistoryCapacity
  IN [c EXCEPT !.id = @ + 1, !.band = band, !.pending = TRUE,
               !.arrival = FALSE, !.settle = FALSE,
               !.slot = slot, !.writes = @ + 1,
               !.history[slot] = [id |-> c.id + 1, reason |-> "pending",
                                  arrived |-> FALSE, settled |-> FALSE],
               !.attempts[band] = @ + 1]

RecordArrival(r) ==
  IF r.pending /\ ~r.arrival
  THEN [r EXCEPT !.arrival = TRUE, !.arrivals[r.band] = @ + 1,
                 !.history[r.slot].arrived = TRUE]
  ELSE r

(* record_generalist_target_settled_stop: a gate episode has stopped only  *)
(* when it stopped at its second target.                                   *)
RecordSettled(r, isGate) ==
  IF r.pending /\ ~r.settle
  THEN Finalize([r EXCEPT !.settle = TRUE, !.stopRecorded = TRUE,
                          !.stop = @ \/ ~isGate \/ r.retargeted,
                          !.settles[r.band] = @ + 1,
                          !.history[r.slot].settled = TRUE], "settled")
  ELSE r

\* Seeded defect: the episode's counters are reset around an active attempt.
ResetMetricsOpen(r) == FreshEpisode(r)

\* Seeded defect: the counters survive the episode.
ResetMetricsKept(r) ==
  LET c == Finalize(r, "reset")
  IN [FreshEpisode(c) EXCEPT
        !.attempts = c.attempts, !.arrivals = c.arrivals, !.settles = c.settles,
        !.falls = c.falls, !.timeouts = c.timeouts, !.resets = c.resets]

(* reset_generalist_episode_metrics: the attempt that is still active ends *)
(* with the episode; the ring and the attempt number survive it.           *)
ResetMetrics(r) == FreshEpisode(Finalize(r, "reset"))

(* The bands a new target may fall in.  Every stage of the goal mix leaves *)
(* all three a share.                                                      *)
BandsFor(c) == CASE c = "precision"  -> {"short"}
                 [] c = "navigation" -> Bands
                 [] c = "gate"       -> {"none"}

(* initialize_random_world_target: a gate episode starts with no attempt.  *)
StartEpisode(r, c, band) ==
  IF c = "gate" THEN ResetMetrics(r) ELSE Begin(ResetMetrics(r), band)

-----------------------------------------------------------------------------
(* The parts of RepeatedRandomWorldTargetSequence.__call__, in its order.  *)

(* The gate push, once, then the retarget, once.                           *)
Push(r) == IF r.elapsed >= PushTime THEN [r EXCEPT !.pushed = TRUE] ELSE r

Retarget(r) ==
  IF r.elapsed >= RetargetTime /\ ~r.retargeted
  THEN [Begin(r, "short") EXCEPT !.retargeted = TRUE, !.here = FALSE,
                                 !.stopRecorded = FALSE, !.dwell = 0, !.stable = 0]
  ELSE r

GateEvents(r, c) ==
  LET t == [r EXCEPT !.elapsed = IF @ < RetargetTime THEN @ + 1 ELSE @]
  IN IF c = "gate" THEN Retarget(Push(t)) ELSE t

(* Recovery is calm for long enough between the push and the retarget.     *)
TrackRecovery(r, c, m) ==
  IF c = "gate" /\ r.pushed /\ ~r.retargeted
  THEN LET s == IF ~m.calm THEN 0 ELSE IF r.stable < Calm THEN r.stable + 1 ELSE r.stable
       IN [r EXCEPT !.stable = s, !.recovered = @ \/ s >= Calm]
  ELSE r

\* Seeded defect: standing on the first target counts as having arrived at the second.
TrackArrivalOnce(r, c, m) ==
  LET within == m.place # "away" /\ (c # "gate" \/ r.retargeted)
      a == IF within /\ ~r.here /\ r.arrivals = NoCount
           THEN [RecordArrival(r) EXCEPT !.second = @ \/ (c = "gate" /\ r.retargeted)]
           ELSE r
  IN [a EXCEPT !.here = @ \/ within]

(* Arrival is latched once for each target; a gate episode has no target   *)
(* to arrive at before its retarget.                                       *)
TrackArrival(r, c, m) ==
  LET within == m.place # "away" /\ (c # "gate" \/ r.retargeted)
      a == IF within /\ ~r.here
           THEN [RecordArrival(r) EXCEPT !.second = @ \/ (c = "gate" /\ r.retargeted)]
           ELSE r
  IN [a EXCEPT !.here = @ \/ within]

CloseDone(r, d) == IF d = "no" THEN r ELSE Finalize(r, d)

(* The dwell at the target, and the stop it makes when it is long enough.  *)
Dwell(r, m) ==
  [r EXCEPT !.dwell = IF m.place # "settled" THEN 0 ELSE IF @ < Hold THEN @ + 1 ELSE @]

Ready(r, m) == Dwell(r, m).dwell >= Hold

RecordStop(r, c, m) ==
  LET w == Dwell(r, m)
  IN IF Ready(r, m) /\ ~r.stopRecorded
     THEN [RecordSettled(w, c = "gate") EXCEPT !.postStop = @ \/ (c = "gate" /\ r.retargeted)]
     ELSE w

(* A robot that has settled gets its next target at once.                  *)
NextTarget(r, c, m, band) ==
  LET s == RecordStop(r, c, m)
  IN IF Ready(r, m) /\ c # "gate"
     THEN [Begin(s, band) EXCEPT !.dwell = 0, !.here = FALSE, !.stopRecorded = FALSE]
     ELSE s

(* What the call has seen when it turns to the goal mix.                   *)
Seen(r, c, m, d) == CloseDone(TrackArrival(TrackRecovery(GateEvents(r, c), c, m), c, m), d)

\* Seeded defect: the attempt that an arrival closes is taken for one more.
CreditOfSettled(k, c, r) ==
  IF c = "navigation"
  THEN [tried |-> [b \in Bands |-> k.tried[b] + r.attempts[b]],
        won |-> [b \in Bands |-> k.won[b] + r.arrivals[b] + r.settles[b]]]
  ELSE k

(* _record_goal_mix_outcomes: the attempts of a navigation episode that    *)
(* ends are evidence.  (A gate episode is evidence by its recovery alone;  *)
(* GoalMixRun has that.)                                                   *)
CreditOf(k, c, r) ==
  IF c = "navigation"
  THEN [tried |-> [b \in Bands |-> k.tried[b] + r.attempts[b]],
        won |-> [b \in Bands |-> k.won[b] + r.arrivals[b]]]
  ELSE k

-----------------------------------------------------------------------------
Init ==
  /\ cohort \in Cohorts
  /\ \E b \in BandsFor(cohort) : env = StartEpisode(FreshEpisode(Unborn), cohort, b)
  /\ done = "no"
  /\ credit = NoCredit

(* A control step: the physics moves the robot by m and may end its        *)
(* episode, and the event is called.  A gate's second target is further    *)
(* away than the distance that counts as reached.                          *)
Step(m, d, b) ==
  LET seen == Seen(env, cohort, m, d)
      ends == d # "no" /\ ~seen.credited
  IN /\ done = "no"
     /\ env.id < MaxAttempts
     /\ seen.retargeted /\ ~env.retargeted => m.place = "away"
     /\ credit' = IF ends THEN CreditOf(credit, cohort, seen) ELSE credit
     /\ env' = NextTarget([seen EXCEPT !.credited = @ \/ ends], cohort, m, b)
     /\ done' = d
     /\ UNCHANGED cohort

ControlStep == \E m \in Motion, d \in {"no", "fall", "timeout"}, b \in BandsFor(cohort) : Step(m, d, b)

(* The environment is done and starts a new episode.                       *)
ResetDone ==
  /\ done # "no"
  /\ \E b \in BandsFor(cohort) : env' = StartEpisode(env, cohort, b)
  /\ done' = "no"
  /\ UNCHANGED <<cohort, credit>>

Next == ControlStep \/ ResetDone

Spec == Init /\ [][Next]_vars

-----------------------------------------------------------------------------
Counts == [Bands -> Nat]
Episode ==
  [pushed : BOOLEAN, retargeted : BOOLEAN, elapsed : 0 .. RetargetTime, stable : 0 .. Calm,
   dwell : 0 .. Hold, here : BOOLEAN, recovered : BOOLEAN,
   second : BOOLEAN, stopRecorded : BOOLEAN, stop : BOOLEAN, postStop : BOOLEAN,
   credited : BOOLEAN, pending : BOOLEAN, band : Bands \cup {"none"}, arrival : BOOLEAN,
   settle : BOOLEAN, slot : (0 .. HistoryCapacity - 1) \cup {-1},
   attempts : Counts, arrivals : Counts, settles : Counts,
   falls : Counts, timeouts : Counts, resets : Counts,
   id : Nat \cup {-1}, writes : Nat,
   history : [0 .. HistoryCapacity - 1 ->
                [id : Nat \cup {-1}, reason : Outcomes \cup {"none", "pending"},
                 arrived : BOOLEAN, settled : BOOLEAN]]]

TypeOK == /\ cohort \in Cohorts
          /\ env \in Episode
          /\ done \in {"no", "fall", "timeout"}
          /\ credit \in [tried : Counts, won : Counts]

(* The books balance: every attempt an episode has made so far has ended   *)
(* in exactly one of the counted ways, or is the one that is active.  The  *)
(* metrics divide by these counters (mdp/metrics.py), and the paths that   *)
(* issue, close and reset an attempt are separate functions.               *)
AttemptBooks ==
  \A b \in Bands :
    env.attempts[b] = env.settles[b] + env.falls[b] + env.timeouts[b] + env.resets[b]
                      + IF env.pending /\ env.band = b THEN 1 ELSE 0

(* No target is settled that was not reached, and none is reached that was *)
(* not issued: the dwell and the arrival are computed in different parts   *)
(* of the call, on either side of the code that closes attempts.           *)
SettledWasReached == \A b \in Bands : /\ env.settles[b] <= env.arrivals[b]
                                      /\ env.arrivals[b] <= env.attempts[b]

(* The ring of attempts has a row that is still pending when an attempt is *)
(* active and none otherwise, and that row is the attempt's own: rows are  *)
(* overwritten when the ring is full, and they survive the episode.        *)
HistoryAgrees ==
  /\ \A i \in DOMAIN env.history : env.history[i].reason = "pending" <=> env.pending /\ i = env.slot
  /\ env.slot >= 0 => /\ env.history[env.slot].id = env.id
                      /\ env.history[env.slot].arrived = env.arrival
                      /\ env.history[env.slot].settled = env.settle

(* No attempt is credited twice, and none that was not issued: attempts    *)
(* are numbered through the whole run, and what the environment gave to    *)
(* the goal mix and what its running episode may still give is no more     *)
(* than that.                                                              *)
CreditedOnce ==
  LET Sum(f) == f["short"] + f["medium"] + f["long"]
      open == IF env.credited THEN 0 ELSE Sum(env.attempts)
  IN cohort = "navigation" => Sum(credit.tried) + open <= env.id + 1

-----------------------------------------------------------------------------
(* To the goal mix the environment is an episode ledger: what it credits   *)
(* is the account as the call saw it, before the target it may still       *)
(* issue.  Medium targets are not on the account.                          *)
OnAccount(tried, won) == LET Of(f) == [k \in {"short", "long"} |-> f[k]]
                         IN [tried |-> Of(tried), won |-> Of(won)]

Ledger == INSTANCE EpisodeLedger
            WITH account <- OnAccount(env.attempts, env.arrivals),
                 ended <- done # "no",
                 evidence <- OnAccount(credit.tried, credit.won)

ImplementsLedger == Ledger!LedgerSpec

=============================================================================
