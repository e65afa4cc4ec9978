--------------------------- MODULE EvaluationSlot ---------------------------
(***************************************************************************)
(* One vector slot of the evaluator's rollout loop (evaluation/runner.py,   *)
(* _run_batch).  The loop never keeps the trajectory: arrival, settling,    *)
(* recovery and the final stop are decided from a few counters updated in   *)
(* place, while commands arrive, the backend ends episodes (sometimes one   *)
(* iteration late) and the other slots keep the loop running after this one *)
(* has finished.  rollout is the trajectory those counters summarise; only  *)
(* the properties read it.                                                  *)
(***************************************************************************)
EXTENDS Integers, Sequences, FiniteSets

CONSTANTS
    MaxHorizon,     \* the loop bound: the longest horizon of the batch
    StableSteps,    \* stable_steps_required (0.50 s)
    DwellSteps,     \* waypoint_dwell_steps (0.75 s)
    HoldSteps,      \* waypoint_final_hold_steps (1.00 s)
    MaxWaypoints    \* bound: target commands of one scenario

VARIABLES
    scenario,   \* horizon, steps at which a target is issued, disturbance_end
    step,       \* the loop variable
    active, success, reason, episodeSteps,
    pending,    \* base_env._manual_reset_pending of the slot
    waypoint,   \* the waypoint_* vectors
    settling,   \* settle_stable_count, settled, settling_time
    recovery,   \* stable_count, recovered, recovery_time
    rollout     \* history: what each active step showed

vars == <<scenario, step, active, success, reason, episodeSteps, pending,
          waypoint, settling, recovery, rollout>>

Never == -1
Undecided == ""
Samples == [stop : BOOLEAN, stable : BOOLEAN]
Endings == {"none", "fell", "time_out", "late"}

\* Waypoint commands fall inside the horizon, at most one on a step; without a
\* disturbance disturbance_end is -1.
Scenarios ==
    {s \in [horizon : 1..MaxHorizon,
            issued : {w \in SUBSET (0..(MaxHorizon - 1)) :
                        Cardinality(w) <= MaxWaypoints},
            pushEnd : {Never} \cup 1..MaxHorizon] :
        \A w \in s.issued : w < s.horizon}

TypeOK ==
    /\ scenario \in Scenarios
    /\ step \in 0..MaxHorizon
    /\ active \in BOOLEAN /\ success \in BOOLEAN /\ pending \in BOOLEAN
    /\ reason \in {Undecided, "nonfinite", "horizon", "early_timeout", "backend_timeout"}
    /\ episodeSteps \in 0..MaxHorizon
    /\ waypoint \in [active : BOOLEAN, confirmed : BOOLEAN,
                     completed : 0..MaxWaypoints, dwell : 0..MaxHorizon]
    /\ settling \in [count : 0..MaxHorizon, done : BOOLEAN, at : Never..MaxHorizon]
    /\ recovery \in [count : 0..MaxHorizon, done : BOOLEAN, at : Never..MaxHorizon]
    /\ rollout \in Seq([stop : BOOLEAN, stable : BOOLEAN, fell : BOOLEAN])

Init ==
    /\ scenario \in Scenarios
    /\ step = 0 /\ episodeSteps = 0
    /\ active = TRUE /\ success = FALSE /\ pending = FALSE /\ reason = Undecided
    /\ waypoint = [active |-> FALSE, confirmed |-> FALSE, completed |-> 0, dwell |-> 0]
    /\ settling = [count |-> 0, done |-> FALSE, at |-> Never]
    /\ recovery = [count |-> 0, done |-> FALSE, at |-> Never]
    /\ rollout = <<>>

-----------------------------------------------------------------------------
(* The parts of one iteration.                                             *)

\* A slot the backend closed one loop late is reset before the next action.
Live == active /\ ~pending

\* Seeded defect: a new target inherits the dwell of the previous one.
IssueKeepsDwell(w) ==
    IF step \in scenario.issued
    THEN [w EXCEPT !.completed = @ + (IF w.active /\ w.confirmed THEN 1 ELSE 0),
                   !.active = TRUE, !.confirmed = FALSE]
    ELSE w

\* A command opens the next waypoint; the previous one counts only if it was
\* confirmed by then.  Finished slots are not excluded.
Issue(w) ==
    IF step \in scenario.issued
    THEN [active |-> TRUE, confirmed |-> FALSE, dwell |-> 0,
          completed |-> w.completed + (IF w.active /\ w.confirmed THEN 1 ELSE 0)]
    ELSE w

\* Seeded defect: leaving the target does not restart the dwell.
DwellAccumulates(w, stop) ==
    IF ~(Live /\ w.active) THEN w
    ELSE LET n == IF stop THEN w.dwell + 1 ELSE w.dwell
         IN  [w EXCEPT !.dwell = n, !.confirmed = @ \/ (stop /\ n >= DwellSteps)]

\* An arrival is an uninterrupted stop at the active target.
Dwell(w, stop) ==
    IF ~(Live /\ w.active) THEN w
    ELSE LET n == IF stop THEN w.dwell + 1 ELSE 0
         IN  [w EXCEPT !.dwell = n, !.confirmed = @ \/ (stop /\ n >= DwellSteps)]

\* The first StableSteps quiet samples in a row confirm settling, at their end.
Settle(stable) ==
    IF ~Live \/ settling.done THEN settling
    ELSE LET n == IF stable THEN settling.count + 1 ELSE 0
         IN  IF n >= StableSteps
             THEN [count |-> n, done |-> TRUE, at |-> step + 1]
             ELSE [settling EXCEPT !.count = n]

\* Seeded defect: quiet samples from before the end of the push count.
RecoverFromAnywhere(stable) ==
    IF ~(Live /\ scenario.pushEnd >= 0) THEN recovery
    ELSE LET n == IF stable THEN recovery.count + 1 ELSE 0
         IN  IF step >= scenario.pushEnd /\ ~recovery.done /\ n >= StableSteps
             THEN [count |-> n, done |-> TRUE,
                   at |-> step - StableSteps + 1 - scenario.pushEnd]
             ELSE [recovery EXCEPT !.count = n]

\* Recovery is counted from the end of the last push and dated back to the
\* first quiet sample of the confirming window.
Recover(stable) ==
    IF ~(Live /\ scenario.pushEnd >= 0 /\ step >= scenario.pushEnd) THEN recovery
    ELSE LET n == IF stable THEN recovery.count + 1 ELSE 0
         IN  IF ~recovery.done /\ n >= StableSteps
             THEN [count |-> n, done |-> TRUE,
                   at |-> step - StableSteps + 1 - scenario.pushEnd]
             ELSE [recovery EXCEPT !.count = n]

\* Seeded defect: reaching the horizon wins over falling on that very step.
VerdictHorizonFirst(ending) ==
    IF episodeSteps + 1 >= scenario.horizon
    THEN "horizon"
    ELSE CASE ending = "fell" -> "nonfinite"
           [] ending = "time_out" -> "early_timeout"
           [] OTHER -> Undecided

\* Why the slot finishes on this step, Undecided when it does not.
Verdict(ending) ==
    CASE ending = "fell" -> "nonfinite"
      [] ending # "fell" /\ episodeSteps + 1 >= scenario.horizon -> "horizon"
      [] ending = "time_out" /\ episodeSteps + 1 < scenario.horizon -> "early_timeout"
      [] OTHER -> Undecided

-----------------------------------------------------------------------------
\* One iteration with the slot still running.  The backend may end the episode,
\* or end it and say so only through the pending mask ("late").
Run(sample, ending) ==
    /\ step < MaxHorizon /\ Live
    /\ LET verdict == Verdict(ending)
       IN  /\ reason' = verdict
           /\ success' = (verdict = "horizon")
           /\ active' = (verdict = Undecided)
           /\ pending' = (ending = "late" /\ verdict = Undecided)
    /\ waypoint' = Dwell(Issue(waypoint), sample.stop)
    /\ settling' = Settle(sample.stable)
    /\ recovery' = Recover(sample.stable)
    /\ rollout' = Append(rollout, [stop |-> sample.stop, stable |-> sample.stable,
                                    fell |-> ending = "fell"])
    /\ episodeSteps' = episodeSteps + 1
    /\ step' = step + 1
    /\ UNCHANGED scenario

\* One iteration of the loop, kept running by other slots, after this one ended.
Idle ==
    /\ step < MaxHorizon /\ ~Live
    /\ active' = FALSE /\ pending' = FALSE
    /\ reason' = IF reason = Undecided THEN "backend_timeout" ELSE reason
    /\ waypoint' = Issue(waypoint)
    /\ step' = step + 1
    /\ UNCHANGED <<scenario, success, episodeSteps, settling, recovery, rollout>>

Next ==
    \/ \E sample \in Samples, ending \in Endings : Run(sample, ending)
    \/ Idle

Spec == Init /\ [][Next]_vars

-----------------------------------------------------------------------------
(* What the counters must agree with.                                      *)

Quiet(first, last, field) ==
    /\ first >= 1 /\ last <= Len(rollout)
    /\ \A i \in first..last : rollout[i][field]

\* Ends of the windows of n quiet samples inside the rollout steps lo+1 .. hi.
Windows(n, lo, hi, field) ==
    {e \in (lo + n)..hi : Quiet(e - n + 1, e, field)}

\* The waypoints at which the rollout shows a dwell before the next was issued.
HeldWaypoints ==
    {w \in scenario.issued :
        \E e \in Windows(DwellSteps, w, Len(rollout), "stop") :
            \A v \in scenario.issued : v > w => e <= v}

\* completed_count, waypoint_final_stopped and waypoint_sequence_complete.
CompletedCount == waypoint.completed + (IF waypoint.active /\ waypoint.confirmed THEN 1 ELSE 0)
FinalStopped == success /\ waypoint.active /\ waypoint.dwell >= HoldSteps
SequenceComplete ==
    /\ FinalStopped
    /\ scenario.issued # {} /\ CompletedCount = Cardinality(scenario.issued)

\* The waypoint counters say what the trajectory says: a waypoint is counted
\* exactly when the robot stood at it for the whole dwell while it was the
\* target, and a sequence is complete only when that holds of every waypoint and
\* the last stop lasted until the horizon.  (runner.py:1128-1154, 1744-1757)
WaypointsAreHeld ==
    /\ CompletedCount = Cardinality(HeldWaypoints)
    /\ SequenceComplete =>
         /\ HeldWaypoints = scenario.issued
         /\ Len(rollout) = scenario.horizon
         /\ Quiet(Len(rollout) - HoldSteps + 1, Len(rollout), "stop")

\* A reported settling or recovery time is that of the first confirming window,
\* for recovery one that lies entirely after the last push, and a window that
\* the rollout contains is always reported.  (runner.py:1196-1208, 1433-1447)
RecoveryIsSustained ==
    LET settled == Windows(StableSteps, 0, Len(rollout), "stable")
        recovered == IF scenario.pushEnd = Never THEN {}
                     ELSE Windows(StableSteps, scenario.pushEnd, Len(rollout), "stable")
    IN  /\ settling.done = (settled # {})
        /\ settling.done => settling.at \in settled /\ \A e \in settled : settling.at <= e
        /\ recovery.done = (recovered # {})
        /\ recovery.done =>
             /\ recovery.at + scenario.pushEnd + StableSteps \in recovered
             /\ \A e \in recovered : recovery.at + scenario.pushEnd + StableSteps <= e

\* An episode that succeeded ran to its own horizon without falling on any step,
\* the horizon step included, and once a slot has a verdict later iterations,
\* kept alive by other slots, never change it: the result does not depend on
\* which scenarios share the batch.  (runner.py:886-901, 1472-1534)
VerdictIsFinal ==
    /\ reason # Undecided => reason' = reason /\ success' = success
    /\ success' => /\ Len(rollout') = scenario.horizon
                   /\ \A i \in 1..Len(rollout') : ~rollout'[i].fell

(***************************************************************************)
(* The inductive invariant                                                 *)
(***************************************************************************)

Shown == [stop : BOOLEAN, stable : BOOLEAN, fell : BOOLEAN]
Watch == [count : Nat, done : BOOLEAN, at : Int]

Types ==
    /\ scenario \in Scenarios /\ step \in 0..MaxHorizon
    /\ active \in BOOLEAN /\ success \in BOOLEAN /\ pending \in BOOLEAN
    /\ reason \in {Undecided, "nonfinite", "horizon", "early_timeout", "backend_timeout"}
    /\ rollout \in Seq(Shown) /\ Len(rollout) = episodeSteps /\ episodeSteps <= step
    /\ waypoint \in [active : BOOLEAN, confirmed : BOOLEAN, completed : Nat, dwell : Nat]
    /\ settling \in Watch /\ recovery \in Watch

NoFall == \A i \in 1..Len(rollout) : ~rollout[i].fell

\* A slot has no verdict while it runs, and the loop and the episode keep step.
Verdicts ==
    /\ active => reason = Undecided /\ ~success /\ episodeSteps < scenario.horizon /\ NoFall
    /\ ~active => reason # Undecided
    /\ Live => episodeSteps = step
    /\ success => Len(rollout) = scenario.horizon /\ NoFall

\* n quiet samples in a row end the rollout, all of them after step lo; no more
\* than n do when the count is of them all.
Trailing(n, lo, field) ==
    n <= Len(rollout) - lo /\ \A i \in 1..Len(rollout) : i > Len(rollout) - n => rollout[i][field]
AllTrailing(n, lo, field) ==
    /\ Trailing(n, lo, field)
    /\ n < Len(rollout) - lo => ~rollout[Len(rollout) - n][field]

\* A watch that has not confirmed counts the quiet samples, one that has was first.
Settled == Windows(StableSteps, 0, Len(rollout), "stable")
SettlingCounts ==
    /\ ~settling.done => Settled = {} /\ (Live => AllTrailing(settling.count, 0, "stable"))
    /\ settling.done => settling.at \in Settled /\ \A e \in Settled : settling.at <= e

Recovered == Windows(StableSteps, scenario.pushEnd, Len(rollout), "stable")
RecoveryCounts ==
    /\ scenario.pushEnd = Never => ~recovery.done
    /\ scenario.pushEnd # Never =>
         LET confirmed == recovery.at + scenario.pushEnd + StableSteps
         IN  /\ Live => IF Len(rollout) < scenario.pushEnd THEN recovery.count = 0
                        ELSE AllTrailing(recovery.count, scenario.pushEnd, "stable")
             /\ ~recovery.done => Recovered = {}
             /\ recovery.done => confirmed \in Recovered /\ \A e \in Recovered : confirmed <= e

\* The waypoint counters while c is the current waypoint: it is confirmed when it
\* was held, and completed counts the earlier ones that were.
CountsFor(c) ==
    /\ c \in scenario.issued /\ c < step
    /\ \A v \in scenario.issued : v < step => v <= c
    /\ waypoint.active
    /\ waypoint.confirmed <=> c \in HeldWaypoints
    /\ waypoint.completed = Cardinality(HeldWaypoints \ {c})
    /\ Live => AllTrailing(waypoint.dwell, c, "stop")

WaypointCounts ==
    /\ Trailing(waypoint.dwell, 0, "stop")
    /\ \/ /\ ~waypoint.active /\ waypoint.completed = 0 /\ waypoint.dwell = 0
          /\ \A v \in scenario.issued : v >= step
       \/ \E c \in scenario.issued : CountsFor(c)

IInv == Types /\ Verdicts /\ SettlingCounts /\ RecoveryCounts /\ WaypointCounts
=============================================================================
