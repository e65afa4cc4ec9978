-------------------------- MODULE ScenarioTimeline --------------------------
(***************************************************************************)
(* What a suite scenario does to the simulated world while it is evaluated  *)
(* (evaluation/runner.py; the speed command of mdp/commands.py): timed      *)
(* commands and pushes of several slots are applied between the steps of    *)
(* one vector environment that is reused by every batch.  The environment   *)
(* keeps its own state about them (targets, a slew-limited speed, a wrench  *)
(* that stays until it is written again, a cached observation), and writes  *)
(* to it are for all slots or for none.                                     *)
(***************************************************************************)
EXTENDS Integers, Sequences, FiniteSets, FiniteSetsExt

CONSTANTS Slots, MaxSteps, MaxBatches, MaxSpeed,
          MaxInputs     \* bound: points and pushes of the scenarios of the first
                        \* batch; those of a later one have at most one

VARIABLES
    batch, step,
    stage,      \* "apply": before the inputs of the step, "act": before env.step
    timeline,   \* commands and disturbances of the scenarios in the slots
    active,
    robot,      \* position of each robot
    target,     \* the world target of each slot
    speed,      \* _target_speed, _command and _manual_override of each slot
    wrench,     \* the external wrench written to the simulator
    pushed,     \* last_wrench_active
    seen        \* the cached observation: target and speed command

vars == <<batch, step, stage, timeline, active, robot, target, speed, wrench,
          pushed, seen>>

Places == 0..1
Origin(s) == 10 * (Cardinality({r \in Slots : r <= s}) - 1)

Points ==
    [slot : Slots, step : 0..(MaxSteps - 1), name : {"pose", "offset"}, value : {1}]
        \cup [slot : Slots, step : 0..(MaxSteps - 1), name : {"speed"}, value : {0, MaxSpeed}]
Pushes == [slot : Slots, start : 0..(MaxSteps - 1), steps : 1..2, force : 1..2]

\* One command of a name, and one world target, on a step of a slot.
Clash(p, q) ==
    p # q /\ p.slot = q.slot /\ p.step = q.step /\ (p.name = "speed") = (q.name = "speed")

\* The commands and disturbances of the scenarios of a batch.
Timelines ==
    {t \in [points : {{p, q} : p, q \in Points} \cup {{}},
            pushes : UNION {[1..n -> Pushes] : n \in 0..MaxInputs}] :
        /\ Cardinality(t.points) + Len(t.pushes) <= MaxInputs
        /\ \A p, q \in t.points : ~Clash(p, q)}
LaterTimelines ==
    {[points |-> {p}, pushes |-> <<>>] : p \in Points}
        \cup {[points |-> {}, pushes |-> <<>>]}
        \cup {[points |-> {}, pushes |-> <<d>>] : d \in Pushes}

-----------------------------------------------------------------------------
(* Reading a timeline.                                                     *)

Now(s, names) == {p \in timeline.points : p.slot = s /\ p.step = step /\ p.name \in names}

\* The latest value of a command, re-applied on every later step.
Latest(s, name) ==
    LET past == {p \in timeline.points : p.slot = s /\ p.name = name /\ p.step <= step}
    IN  {p \in past : \A q \in past : q.step <= p.step}

Pushing(s) ==
    {i \in DOMAIN timeline.pushes :
        LET d == timeline.pushes[i]
        IN  d.slot = s /\ d.start <= step /\ step < d.start + d.steps}

\* Of overlapping pushes the last of the scenario's list is applied.
Strength(s) == IF Pushing(s) = {} THEN 0 ELSE timeline.pushes[Max(Pushing(s))].force

-----------------------------------------------------------------------------
Fresh(s) == [target |-> Origin(s), speed |-> 0]

\* env.reset and _exact_reset at the start of a batch; the speed term keeps what
\* the previous batch left in it, and resamples only targets never set by hand.
Start(t, resampled) ==
    /\ timeline' = t /\ step' = 0 /\ stage' = "apply" /\ active' = Slots
    /\ robot' = [s \in Slots |-> Origin(s)]
    /\ target' = [s \in Slots |-> Origin(s)]
    /\ speed' = [s \in Slots |-> [speed[s] EXCEPT !.target =
                                    IF speed[s].manual THEN @ ELSE resampled]]
    /\ wrench' = [s \in Slots |-> 0] /\ pushed' = {}
    /\ seen' = [s \in Slots |-> [target |-> Origin(s), speed |-> speed[s].command]]

Init ==
    /\ timeline \in Timelines
    /\ batch = 1 /\ step = 0 /\ stage = "apply" /\ active = Slots
    /\ robot = [s \in Slots |-> Origin(s)]
    /\ target = [s \in Slots |-> Origin(s)]
    /\ \E t \in {0, MaxSpeed} :
         speed = [s \in Slots |-> [target |-> t, command |-> 0, manual |-> FALSE]]
    /\ wrench = [s \in Slots |-> 0] /\ pushed = {}
    /\ seen = [s \in Slots |-> Fresh(s)]

\* A relative target is taken from the robot when the command is applied, an
\* absolute one is in the slot's own map.
ApplyTargets ==
    [s \in Slots |->
        CASE Now(s, {"offset"}) # {} -> robot[s] + (CHOOSE p \in Now(s, {"offset"}) : TRUE).value
          [] Now(s, {"pose"}) # {} -> Origin(s) + (CHOOSE p \in Now(s, {"pose"}) : TRUE).value
          [] OTHER -> target[s]]

\* Setting the speed by hand ends the training resampling for the slot.
ApplySpeeds ==
    [s \in Slots |->
        IF Latest(s, "speed") = {} THEN speed[s]
        ELSE [speed[s] EXCEPT !.target = (CHOOSE p \in Latest(s, "speed") : TRUE).value,
                              !.manual = TRUE]]

\* Seeded defect: the wrench is written only while something pushes.
ApplyWrenchWhilePushing ==
    LET pushing == {s \in Slots : Pushing(s) # {}}
    IN  /\ wrench' = IF pushing # {} THEN [s \in Slots |-> Strength(s)] ELSE wrench
        /\ pushed' = pushing

\* All slots are written while one of them is pushed or was on the step before.
ApplyWrench ==
    LET pushing == {s \in Slots : Pushing(s) # {}}
    IN  /\ wrench' = IF pushing \cup pushed # {} THEN [s \in Slots |-> Strength(s)] ELSE wrench
        /\ pushed' = pushing

\* Seeded defect: only a new world target refreshes the observation.
CommandedByPose == \E s \in Slots : Now(s, {"pose"}) # {}

\* Some command of some slot was applied on this step.
Commanded == \E s \in Slots : Now(s, {"pose", "offset"}) # {} \/ Latest(s, "speed") # {}

\* The inputs of the step, then the observation the policy will act on.
Apply ==
    /\ stage = "apply" /\ active # {}
    /\ target' = ApplyTargets /\ speed' = ApplySpeeds
    /\ ApplyWrench
    /\ seen' = IF Commanded
               THEN [s \in Slots |-> [target |-> target'[s], speed |-> speed'[s].command]]
               ELSE seen
    /\ stage' = "act"
    /\ UNCHANGED <<batch, step, timeline, active, robot>>

Slew(v) == [v EXCEPT !.command = CASE v.target > v.command -> v.command + 1
                                   [] v.target < v.command -> v.command - 1
                                   [] OTHER -> v.command]

\* env.step: the speed term may resample and slews, observations are computed,
\* then the finished slots are reset, which clears their wrench.
Step(moved, resampled, finished) ==
    /\ stage = "act"
    /\ finished \subseteq active
    /\ robot' = [s \in Slots |-> Origin(s) + moved]
    /\ speed' = [s \in Slots |->
                    Slew(IF speed[s].manual THEN speed[s]
                         ELSE [speed[s] EXCEPT !.target = resampled])]
    /\ seen' = [s \in Slots |-> [target |-> target[s], speed |-> speed'[s].command]]
    /\ wrench' = [s \in Slots |-> IF s \in finished THEN 0 ELSE wrench[s]]
    /\ active' = IF step + 1 = MaxSteps THEN {} ELSE active \ finished
    /\ step' = step + 1 /\ stage' = "apply"
    /\ UNCHANGED <<batch, timeline, target, pushed>>

\* The next batch reuses the environment.
NextBatch ==
    /\ stage = "apply" /\ active = {} /\ batch < MaxBatches
    /\ batch' = batch + 1
    /\ \E t \in LaterTimelines, r \in {0, MaxSpeed} : Start(t, r)

Next ==
    \/ Apply
    \/ \E moved \in Places, r \in {0, MaxSpeed}, done \in SUBSET active :
         Step(moved, r, done)
    \/ NextBatch

Spec == Init /\ [][Next]_vars

-----------------------------------------------------------------------------
TypeOK ==
    /\ batch \in 1..MaxBatches /\ step \in 0..MaxSteps /\ stage \in {"apply", "act"}
    /\ active \subseteq Slots /\ pushed \subseteq Slots
    /\ \A s \in Slots : /\ speed[s].target \in 0..MaxSpeed /\ speed[s].command \in 0..MaxSpeed
                        /\ wrench[s] \in 0..2 /\ target[s] \in Origin(s)..(Origin(s) + 2)

\* What the scenario of a slot asks of this step.
GivenItsInputs(s) ==
    /\ seen[s] = [target |-> target[s], speed |-> speed[s].command]
    /\ \A p \in Now(s, {"pose"}) : seen[s].target = Origin(s) + p.value
    /\ \A p \in Now(s, {"offset"}) : seen[s].target = robot[s] + p.value
    /\ \A p \in Latest(s, "speed") : speed[s].target = p.value
    /\ (wrench[s] # 0) = (Pushing(s) # {})
    /\ wrench[s] # 0 => \E i \in Pushing(s) : wrench[s] = timeline.pushes[i].force

\* When the policy acts, every running slot is in the world its scenario
\* describes for that step: it sees the target of the latest command (the cached
\* observation is not one action behind), the requested speed is the latest one
\* whatever the training sampler does, and it is pushed exactly while one of its
\* pushes lasts, released after it, and never by another slot's or by the
\* previous batch's.  (runner.py:215-257, 330-386, 412-450, 914-941)
InputsAreTheTimeline ==
    stage = "act" => \A s \in active : GivenItsInputs(s)

-----------------------------------------------------------------------------
(* The inductive invariant.                                                *)

\* A slot has one target and one speed command on a step.
TimelineIsClear ==
    /\ \A p \in timeline.points : p.step \in Nat /\ p.name \in {"pose", "offset", "speed"}
    /\ \A p, q \in timeline.points : ~Clash(p, q)
    /\ timeline.pushes \in Seq(Pushes)

\* The speed term of a slot keeps its three values.
SpeedOf(s) == [target |-> speed[s].target, command |-> speed[s].command,
               manual |-> speed[s].manual]

\* The cached observation is that of the world, and a wrench that nobody was pushed with
\* is off.
WorldIsKnown ==
    /\ \A s \in Slots : speed[s] = SpeedOf(s)
    /\ \A s \in Slots : seen[s] = [target |-> target[s], speed |-> speed[s].command]
    /\ pushed = {} => \A s \in Slots : wrench[s] = 0

IInv ==
    /\ TimelineIsClear /\ WorldIsKnown /\ active \subseteq Slots
    /\ stage = "act" => \A s \in Slots : GivenItsInputs(s)
=============================================================================
