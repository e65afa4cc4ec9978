--------------------------- MODULE EpisodeScript ----------------------------
(***************************************************************************)
(* What the reset and interval events of mdp/events.py put into a training  *)
(* episode of the balance and locomotion tasks: a supported start, a hold   *)
(* or a reachable first target, at most one push, and a target that moves   *)
(* only for a robot that has recovered.  Reset events run in the order of   *)
(* the configuration; interval events keep a phase and a clock per world    *)
(* that only reset() clears.  One world on a line through its origin.       *)
(***************************************************************************)
EXTENDS Integers, Sequences

CONSTANTS Arena,            \* arena_half_extent_m
          Overshoot,        \* how far past the arena a robot may roll
          Near, Far,        \* min_distance_m and max_distance_m
          HoldSteps,        \* settle_hold_s
          MaxPhaseSteps     \* bound: settled steps counted

VARIABLES
    task,       \* "balance": hold and one push; "settle": settle, push, target;
                \* "gate": half the episodes hold first, then bounded targets
    place, tilt, height,    \* the robot: position, attitude, height of the root
    target, gate,           \* world target; ascento_locomotion_gate_like
    phase, settled,         \* SettleTriggeredLocomotionSequence
    pushed,                 \* OneShotPlanarVelocityPush
    start, told             \* history: where the episode started; its pushes and
                            \* targets, each with the settled steps before it

vars == <<task, place, tilt, height, target, gate, phase, settled, pushed, start, told>>

Ground == -(Arena + Overshoot)..(Arena + Overshoot)
Phases == {"initial", "recovery", "stop", "complete"}
Abs(x) == IF x < 0 THEN -x ELSE x

\* The lowest point of the outer wheel below the root, by attitude.
Extent(a) == 1 + a

TypeOK ==
    /\ task \in {"balance", "settle", "gate"} /\ place \in Ground /\ tilt \in 0..1
    /\ height \in 0..3 /\ target \in Ground /\ gate \in BOOLEAN
    /\ phase \in Phases /\ settled \in 0..MaxPhaseSteps /\ pushed \in BOOLEAN
    /\ \A i \in 1..Len(told) : told[i].what \in {"push", "target"}

-----------------------------------------------------------------------------
(* Reset events.                                                           *)

\* Seeded defect: the wheel bottoms are those of the pose before the reset.
SupportedHeightStale(a) == 1 + (0 - (1 - Extent(tilt)))

\* The root is sampled at its nominal height and then moved so that its lowest
\* wheel, measured after the write, is on the ground.
SupportedHeight(a) == 1 + (0 - (1 - Extent(a)))

\* Seeded defect: a candidate is not checked against the arena.
BoundedAnywhere(p) == {t \in Ground : Abs(t - p) \in Near..Far}

\* Reachable targets: eight rejected samples fall back to a point on the way to
\* the origin, at the middle distance.
Bounded(p) ==
    {t \in -Arena..Arena : Abs(t - p) \in Near..Far}
        \cup {IF p > 0 THEN p - (Near + Far) \div 2 ELSE p + (Near + Far) \div 2}

\* Seeded defect: the hold target is taken before the root is placed.
FirstTargetsEarly(p, gateLike) ==
    CASE task = "gate" /\ ~gateLike -> Bounded(p)
      [] OTHER -> {place}

\* Balance and gate-like episodes hold the reset position; other locomotion
\* episodes get a bounded target.
FirstTargets(p, gateLike) ==
    CASE task = "gate" /\ ~gateLike -> Bounded(p)
      [] OTHER -> {p}

\* The reset of a world: the root event, the target event, the term resets.
Reset(p, a, gateLike) ==
    /\ place' = p /\ start' = p /\ tilt' = a /\ height' = SupportedHeight(a)
    /\ gateLike => task = "gate"
    /\ gate' = gateLike
    /\ target' \in FirstTargets(p, gateLike)
    /\ phase' = "initial" /\ settled' = 0 /\ pushed' = FALSE
    /\ told' = <<>>
    /\ UNCHANGED task

Init ==
    /\ task \in {"balance", "settle", "gate"}
    /\ place = 0 /\ start = 0 /\ tilt = 0 /\ height = Extent(0) /\ target = 0 /\ gate = FALSE
    /\ phase = "initial" /\ settled = 0 /\ pushed = FALSE /\ told = <<>>

-----------------------------------------------------------------------------
(* Interval events.                                                        *)

\* The robot rolls; a tilted or moving one may be settled again or not.
Roll(p) == place' = p /\ Abs(p - place) <= 1

\* The one-shot push ignores every trigger after the first until reset.
OneShot(p) ==
    /\ task = "balance" /\ Roll(p)
    /\ pushed' = TRUE
    /\ told' = IF pushed THEN told ELSE Append(told, [what |-> "push", after |-> 0])
    /\ UNCHANGED <<task, tilt, height, target, gate, phase, settled, start>>

\* Seeded defect: the phase is read again after each transition.
EligibleCascade(n) == IF n >= HoldSteps THEN {phase, "recovery"} \ {"complete"} ELSE {}

\* The phases acted on in this tick: the one the world was in before it, when
\* the settled clock has reached the hold.
Eligible(n) == IF n >= HoldSteps THEN {phase} \ {"complete"} ELSE {}

Nearby(p) == {t \in Ground : Abs(t - p) = Near}

\* One tick of the settle-triggered sequence.
Tick(p, still, t) ==
    LET n == IF still THEN settled + 1 ELSE 0
        push == "initial" \in Eligible(n)
        retarget == "recovery" \in Eligible(n)
        arrived == "stop" \in Eligible(n) /\ p = target
    IN  /\ task = "settle" /\ Roll(p) /\ n <= MaxPhaseSteps
        /\ t \in Nearby(p)
        /\ phase' = CASE retarget -> "stop"
                      [] push /\ ~retarget -> "recovery"
                      [] arrived -> "complete"
                      [] OTHER -> phase
        /\ settled' = IF push \/ retarget THEN 0 ELSE n
        /\ target' = IF retarget THEN t ELSE target
        /\ told' = told \o (IF push THEN <<[what |-> "push", after |-> n]>> ELSE <<>>)
                        \o (IF retarget THEN <<[what |-> "target",
                                                after |-> IF push THEN 0 ELSE n]>> ELSE <<>>)
        /\ UNCHANGED <<task, tilt, height, gate, pushed, start>>

\* A retarget of the repeated sequence, to a bounded target.
Retarget(p) ==
    /\ task = "gate" /\ Roll(p) /\ Len(told) < 2
    /\ target' \in Bounded(p)
    /\ told' = Append(told, [what |-> "target", after |-> 0])
    /\ UNCHANGED <<task, tilt, height, gate, phase, settled, pushed, start>>

Next ==
    \/ \E p \in Ground, a \in 0..1, g \in BOOLEAN : Reset(p, a, g)
    \/ \E p \in Ground : OneShot(p) \/ Retarget(p)
    \/ \E p \in Ground, still \in BOOLEAN, t \in Ground : Tick(p, still, t)

Spec == Init /\ [][Next]_vars

-----------------------------------------------------------------------------
\* The episode a policy trains on is the one the task describes: it starts on its
\* wheels, a hold episode at the very place it starts, every sampled target is
\* inside the arena of its own world although the robot may have rolled out of
\* it, and a push and a target each come once, the target only after a whole
\* hold that began after the push.
\* (events.py:1093-1137, 1436-1474, 1493-1540, 2267-2370, 2473-2574)
EpisodeFollowsTheScript ==
    /\ height = Extent(tilt)
    /\ (task # "gate" \/ gate) /\ (\A i \in 1..Len(told) : told[i].what = "push")
         => target = start
    /\ task = "gate" /\ ~(gate /\ told = <<>>) => target \in -Arena..Arena
    /\ task = "balance" => Len(told) <= 1
    /\ task = "settle" =>
         /\ Len(told) <= 2
         /\ Len(told) >= 1 => told[1].what = "push"
         /\ Len(told) = 2 => told[2].what = "target"
         /\ \A i \in 1..Len(told) : told[i].after >= HoldSteps
         /\ phase = "complete" => Len(told) = 2

(***************************************************************************)
(* The inductive invariant                                                 *)
(***************************************************************************)

(* How far an episode has come is told by its pushes and targets alone:    *)
(* the sequence has pushed when it waits for the recovery, and has pushed  *)
(* and retargeted when it waits for the stop.                              *)
Events == [what : {"push", "target"}, after : Nat]

Types ==
    /\ task \in {"balance", "settle", "gate"} /\ phase \in Phases
    /\ place \in Ground /\ target \in Int /\ gate \in BOOLEAN /\ pushed \in BOOLEAN
    /\ settled \in Nat /\ told \in Seq(Events)

\* The event came after a whole hold.
Came(i, what) == told[i].what = what /\ told[i].after >= HoldSteps

BalanceTold ==
    task = "balance" => target = start /\ Len(told) = IF pushed THEN 1 ELSE 0

SettleTold ==
    task = "settle" =>
        \/ phase = "initial" /\ Len(told) = 0 /\ target = start
        \/ phase = "recovery" /\ Len(told) = 1 /\ Came(1, "push") /\ target = start
        \/ phase \in {"stop", "complete"}
             /\ Len(told) = 2 /\ Came(1, "push") /\ Came(2, "target")

GateTold ==
    task = "gate" =>
        /\ \A i \in 1..Len(told) : told[i].what = "target"
        /\ IF gate /\ Len(told) = 0 THEN target = start ELSE target \in -Arena..Arena

IInv == /\ Types /\ height = Extent(tilt) /\ (gate => task = "gate")
        /\ BalanceTold /\ SettleTold /\ GateTold
=============================================================================
