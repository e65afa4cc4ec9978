--------------------------- MODULE AttemptRewards ---------------------------
(***************************************************************************)
(* The reward terms with a memory (mdp/rewards.py): the rising cost of an   *)
(* unfinished attempt, the potential-based distance shaping, the bounded    *)
(* credit for standing well at the target, and the high-frequency penalty.  *)
(* Each keeps a cache of its own of the target and the attempt it last saw  *)
(* and decides by comparison that a new one began; targets are issued       *)
(* between two calls by the event manager, by an untracked retarget (viewer *)
(* or evaluator) that leaves the attempt number alone, and by resets.       *)
(* Distances are integers and the discount is one: a payment of the shaping *)
(* term is the pair of distances it compares.                               *)
(***************************************************************************)
EXTENDS Integers, FiniteSets

CONSTANTS Places,   \* positions of the robot and of targets on a line
          HoldCredit,   \* hold_s of the settled-quality term, in control steps
          ReadyCount,   \* stationary samples before the penalty is charged (20)
          MaxAttempts, MaxAge   \* bounds: attempts, control steps of an attempt

VARIABLES
    stage,      \* "act": before env.step; "close": rewards given, not yet reset
    robot, target, attempt,
    cost,       \* GeneralistPendingGoalTimeCost: elapsed, last target and attempt
    shaping,    \* PotentialBasedTargetDistanceReward: previous distance, ...
    credit,     \* GeneralistTargetSettledQuality: credited time, ...
    filter,     \* SettledHighFrequencyActionPowerPenalty: _stationary_count
    pay,        \* what the terms returned in the last step
    age, from, began, spent, quiet   \* history: see below

vars == <<stage, robot, target, attempt, cost, shaping, credit, filter, pay, age,
          from, began, spent, quiet>>

(* age: calls since the current target was issued; from: where the robot    *)
(* was at the call before, or was put by the reset; began: whether a reset  *)
(* issued the target; spent: credit paid for it; quiet: stationary frames   *)
(* of the episode.                                                         *)

Distance(a, b) == IF a > b THEN a - b ELSE b - a
Nothing == [cost |-> 0, shaping |-> <<>>, credit |-> 0, filter |-> FALSE]

TypeOK ==
    /\ stage \in {"act", "close"} /\ robot \in Places /\ target \in Places
    /\ attempt \in -1..MaxAttempts
    /\ cost.elapsed \in 0..MaxAge /\ credit.given \in 0..HoldCredit
    /\ age \in 0..MaxAge /\ filter \in 0..ReadyCount

\* The terms are reset after the reset events have placed robot and target.
Caches(r, t, a) ==
    /\ cost' = [elapsed |-> 0, target |-> t, attempt |-> a]
    /\ shaping' = [distance |-> Distance(r, t), target |-> t, attempt |-> a]
    /\ credit' = [given |-> 0, target |-> t, attempt |-> a]
    /\ filter' = 0

Init ==
    /\ stage = "act" /\ robot \in Places /\ target \in Places /\ attempt = -1
    /\ cost = [elapsed |-> 0, target |-> target, attempt |-> -1]
    /\ shaping = [distance |-> Distance(robot, target), target |-> target, attempt |-> -1]
    /\ credit = [given |-> 0, target |-> target, attempt |-> -1]
    /\ filter = 0 /\ pay = Nothing
    /\ age = 0 /\ from = robot /\ began = TRUE /\ spent = 0 /\ quiet = 0

-----------------------------------------------------------------------------
(* The calls of one control step, at the robot's new position.             *)

\* Seeded defect: a new attempt at the same spot is not noticed.
ChangedTarget(cache) == cache.target # target

\* A term sees a new attempt when the target moved or the number changed.
Changed(cache) == cache.target # target \/ cache.attempt # attempt

Cost ==
    LET open == attempt >= 0
        since == IF Changed(cost) \/ ~open THEN 0 ELSE cost.elapsed
    IN  [elapsed |-> since + (IF open THEN 1 ELSE 0), target |-> target, attempt |-> attempt]

\* Seeded defect: the step on which the target moved is paid as well.
ShapingAcross(to) == <<shaping.distance, Distance(to, target)>>

\* No transition is paid across a change of target.
Shaping(to) ==
    IF Changed(shaping) THEN <<>> ELSE <<shaping.distance, Distance(to, target)>>

\* Seeded defect: leaving the envelope gives the budget back.
GivenReentered(good) == IF Changed(credit) \/ ~good THEN 0 ELSE credit.given

\* What the budget of the current target has already paid.
Given(good) == IF Changed(credit) THEN 0 ELSE credit.given

\* One more step of credit inside the envelope, until the budget is used up.
Credit(good) == IF good /\ ~Changed(credit) /\ Given(good) < HoldCredit THEN 1 ELSE 0

\* good: at the target and inside the stop envelope, as the quality term sees it;
\* still: the stationary mask of the penalty.
Act(to, good, still) ==
    /\ stage = "act" /\ age < MaxAge
    /\ good => to = target
    /\ robot' = to
    /\ cost' = Cost
    /\ shaping' = [distance |-> Distance(to, target), target |-> target, attempt |-> attempt]
    /\ credit' = [given |-> Given(good) + Credit(good), target |-> target, attempt |-> attempt]
    /\ filter' = IF still /\ filter < ReadyCount THEN filter + 1 ELSE filter
    /\ pay' = [cost |-> cost'.elapsed, shaping |-> Shaping(to), credit |-> Credit(good),
               filter |-> still /\ filter' >= ReadyCount]
    /\ age' = age + 1 /\ spent' = spent + pay'.credit
    /\ quiet' = IF still /\ quiet < ReadyCount THEN quiet + 1 ELSE quiet
    /\ stage' = "close"
    /\ UNCHANGED <<target, attempt, from, began>>

-----------------------------------------------------------------------------
(* What may come between two calls.                                        *)

Continue ==
    /\ stage = "close" /\ stage' = "act" /\ from' = robot
    /\ UNCHANGED <<robot, target, attempt, cost, shaping, credit, filter, pay, age,
                   began, spent, quiet>>

NewTarget ==
    /\ stage = "close" /\ stage' = "act" /\ from' = robot
    /\ age' = 0 /\ spent' = 0 /\ began' = FALSE

\* The target sequence issues the next attempt, perhaps at the same spot.
Issue(t) ==
    /\ NewTarget
    /\ target' = t /\ attempt < MaxAttempts /\ attempt' = attempt + 1
    /\ UNCHANGED <<robot, cost, shaping, credit, filter, pay, quiet>>

\* The viewer or the evaluator moves the target without opening an attempt.
Retarget(t) ==
    /\ NewTarget
    /\ t # target /\ target' = t
    /\ UNCHANGED <<robot, attempt, cost, shaping, credit, filter, pay, quiet>>

\* The episode ends: reset events place robot and target and may open an
\* attempt; the attempt number is not cleared when they do not.
Reset(r, t, opens) ==
    /\ stage = "close" /\ stage' = "act"
    /\ robot' = r /\ target' = t /\ from' = r
    /\ opens => attempt < MaxAttempts
    /\ attempt' = IF opens THEN attempt + 1 ELSE attempt
    /\ Caches(r, t, attempt')
    /\ age' = 0 /\ spent' = 0 /\ began' = TRUE /\ quiet' = 0
    /\ UNCHANGED pay

Next ==
    \/ \E to \in Places, good, still \in BOOLEAN : Act(to, good, still)
    \/ Continue
    \/ \E t \in Places : Issue(t) \/ Retarget(t)
    \/ \E r, t \in Places, opens \in BOOLEAN : Reset(r, t, opens)

Spec == Init /\ [][Next]_vars

-----------------------------------------------------------------------------
\* Nothing is paid across two attempts: the cost is that of the age of the
\* current attempt, which only a new target or a reset restarts and reaching the
\* target does not; a shaping payment compares two successive positions with one
\* and the same target; the credit of a target never exceeds its budget however
\* often the robot leaves and comes back; and the penalty is charged from the
\* stationary frames of this episode alone.
\* (rewards.py:267-351, 354-433, 562-688, 973-1048)
RewardsAreOfOneAttempt ==
    stage = "close" =>
      /\ pay.cost = (IF attempt >= 0 THEN age ELSE 0)
      /\ pay.shaping = (IF age = 1 /\ ~began THEN <<>>
                        ELSE <<Distance(from, target), Distance(robot, target)>>)
      /\ spent <= HoldCredit
      /\ filter = quiet /\ (pay.filter => quiet = ReadyCount)

(***************************************************************************)
(* The inductive invariant: each cache either describes the current target *)
(* and attempt, or is recognised as another one's when the terms are       *)
(* called.                                                                 *)
(***************************************************************************)

\* The terms have been called, or reset, since the target was issued.
Seen == age > 0 \/ began

\* The caches are those of the current attempt ...
Current ==
    /\ cost = [elapsed |-> IF attempt >= 0 THEN age ELSE 0,
               target |-> target, attempt |-> attempt]
    /\ shaping = [distance |-> Distance(robot, target), target |-> target, attempt |-> attempt]
    /\ credit = [given |-> spent, target |-> target, attempt |-> attempt]

\* ... or of another one, and the comparison shows it.
Foreign == Changed(cost) /\ Changed(shaping) /\ Changed(credit)

Counters ==
    /\ attempt \in Int /\ age \in Nat
    /\ filter \in 0..ReadyCount /\ spent \in 0..HoldCredit
    /\ quiet = filter

IInv ==
    /\ Counters
    /\ stage \in {"act", "close"}
    /\ stage = "act" => from = robot
    /\ stage = "close" => age > 0
    /\ Seen => Current
    /\ ~Seen => Foreign /\ spent = 0
    /\ RewardsAreOfOneAttempt
=============================================================================
