---------------------- MODULE MCTrainingVerdicts_proofs ----------------------
(***************************************************************************)
(* What an evaluation leaves, proved for any suite, batch size, length of  *)
(* rollout and trainer that goes on meanwhile: the inputs of every slot,   *)
(* the metrics that are updated in place, results, recordings and files,   *)
(* and the sweep that chooses by them.  One section proves the inductive   *)
(* invariant IInv of each module, in the variables v1, v2, ... that        *)
(* MCTraining gives it, and the last one draws the properties of the run   *)
(* from them.                                                              *)
(***************************************************************************)
EXTENDS MCTraining, FiniteSetTheorems, FunctionTheorems, SequenceTheorems,
        WellFoundedInduction, TLAPS

-----------------------------------------------------------------------------
\* Timeline (ScenarioTimeline): every slot is given the inputs of its own scenario.
\* Variables: v1 batch, v2 step, v3 stage, v4 timeline, v5 active, v6 robot, v7 target,
\*   v8 speed, v9 wrench, v10 pushed, v11 seen.

\* A set of numbers with a bound has a greatest.
LEMMA TimelineGreatest ==
  ASSUME NEW n \in Nat, NEW S, S \subseteq 1..n, S # {}
  PROVE  Timeline!Max(S) \in S /\ \A i \in S : Timeline!Max(S) >= i
<1> DEFINE T == {n - i : i \in S}
<1>1. T \subseteq Nat /\ T # {}
  <2>1. \A i \in S : n - i \in Nat
    OBVIOUS
  <2> QED
    BY <2>1
<1>2. PICK x \in T : \A y \in T : ~ (<<y, x>> \in OpToRel(<, Nat))
  BY <1>1, NatLessThanWellFounded, WFMin, Zenon
<1>3. \A y \in T : y >= x
  <2> HIDE DEF T
  <2>1. \A y \in T : y \in Nat /\ x \in Nat /\ ~ (y < x)
    BY <1>1, <1>2 DEF OpToRel
  <2> QED
    BY <2>1
<1>4. PICK i \in S : x = n - i
  OBVIOUS
<1>5. \A j \in S : i >= j
  BY <1>3, <1>4
<1> QED
  BY <1>5 DEF Timeline!Max

\* The timelines of the first batch and of a later one are clear.
LEMMA TimelineTimelinesAreClear ==
  ASSUME v4' \in Timeline!Timelines \/ v4' \in Timeline!LaterTimelines
  PROVE  Timeline!TimelineIsClear'
<1>1. CASE v4' \in Timeline!Timelines
  <2>1. v4'.points \subseteq Timeline!Points
    BY <1>1 DEF Timeline!Timelines
  <2>2. \A p, q \in v4'.points : ~Timeline!Clash(p, q)
    BY <1>1 DEF Timeline!Timelines
  <2>3. PICK n \in 0..MaxInputs : v4'.pushes \in [1..n -> Timeline!Pushes]
    BY <1>1 DEF Timeline!Timelines
  <2>4. v4'.pushes \in Seq(Timeline!Pushes)
    BY <2>3, TimelineParameters
  <2> QED
    BY <2>1, <2>2, <2>4, TimelineParameters DEF Timeline!TimelineIsClear, Timeline!Points,
       Timeline!Clash
<1>2. CASE v4' \in Timeline!LaterTimelines
  <2>1. v4'.points \subseteq Timeline!Points /\ \A p, q \in v4'.points : p = q
    BY <1>2 DEF Timeline!LaterTimelines
  <2>2. v4'.pushes = <<>> \/ \E d \in Timeline!Pushes : v4'.pushes = <<d>>
    BY <1>2 DEF Timeline!LaterTimelines
  <2>3. v4'.pushes \in Seq(Timeline!Pushes)
    <3> DEFINE pushes == v4'.pushes
    <3>1. pushes = <<>> \/ \E d \in Timeline!Pushes : pushes = <<d>>
      BY <2>2
    <3> HIDE DEF pushes
    <3>2. ASSUME NEW d \in Timeline!Pushes, pushes = <<d>> PROVE pushes \in Seq(Timeline!Pushes)
      BY <3>2
    <3>4. <<>> \in Seq(Timeline!Pushes)
      OBVIOUS
    <3>3. pushes \in Seq(Timeline!Pushes)
      BY <3>1, <3>2, <3>4, Zenon
    <3> QED
      BY <3>3 DEF pushes
  <2> QED
    BY <2>1, <2>3, TimelineParameters DEF Timeline!TimelineIsClear, Timeline!Points,
       Timeline!Clash
<1> QED
  BY <1>1, <1>2

LEMMA TimelineInitIInv == ASSUME Timeline!Init PROVE Timeline!IInv
<1>1. Timeline!TimelineIsClear
  <2>1. v4.points \subseteq Timeline!Points /\ \A p, q \in v4.points : ~Timeline!Clash(p, q)
    BY DEF Timeline!Init, Timeline!Timelines
  <2>2. PICK n \in 0..MaxInputs : v4.pushes \in [1..n -> Timeline!Pushes]
    BY DEF Timeline!Init, Timeline!Timelines
  <2>3. v4.pushes \in Seq(Timeline!Pushes)
    BY <2>2, TimelineParameters
  <2> QED
    BY <2>1, <2>3, TimelineParameters DEF Timeline!TimelineIsClear, Timeline!Points
<1>2. Timeline!WorldIsKnown
  <2>1. PICK t \in {0, MaxSpeed} :
          v8 = [s \in Robots |-> [target |-> t, command |-> 0, manual |-> FALSE]]
    BY DEF Timeline!Init
  <2>2. \A s \in Robots : v8[s] = Timeline!SpeedOf(s) /\ v8[s].command = 0
    BY <2>1 DEF Timeline!SpeedOf
  <2> QED
    BY <2>2 DEF Timeline!Init, Timeline!WorldIsKnown, Timeline!Fresh
<1> QED
  BY <1>1, <1>2 DEF Timeline!Init, Timeline!IInv

\* A slot has one latest speed, one pose and one offset at most, and not both.
LEMMA TimelineOneCommand ==
  ASSUME Timeline!TimelineIsClear, NEW s \in Robots
  PROVE  /\ \A p, q \in Timeline!Latest(s, "speed") : p = q
         /\ \A p, q \in Timeline!Now(s, {"pose", "offset"}) : p = q
<1>1. ASSUME NEW p \in Timeline!Latest(s, "speed"), NEW q \in Timeline!Latest(s, "speed") PROVE p = q
  <2>1. /\ p \in v4.points /\ q \in v4.points /\ p.slot = q.slot
        /\ p.name = "speed" /\ q.name = "speed" /\ p.step <= q.step /\ q.step <= p.step
    BY <1>1 DEF Timeline!Latest
  <2>2. p.step = q.step
    BY <2>1 DEF Timeline!TimelineIsClear
  <2> QED
    BY <2>1, <2>2 DEF Timeline!TimelineIsClear, Timeline!Clash
<1>2. ASSUME NEW p \in Timeline!Now(s, {"pose", "offset"}), NEW q \in Timeline!Now(s, {"pose", "offset"})
      PROVE  p = q
  BY <1>2 DEF Timeline!Now, Timeline!TimelineIsClear, Timeline!Clash
<1> QED
  BY <1>1, <1>2

\* A slot is given the force of one of its pushes, or none.
LEMMA TimelineStrengthIs ==
  ASSUME Timeline!TimelineIsClear, NEW s \in Robots
  PROVE  /\ (Timeline!Strength(s) # 0) = (Timeline!Pushing(s) # {})
         /\ Timeline!Strength(s) # 0 => \E i \in Timeline!Pushing(s) : Timeline!Strength(s) = v4.pushes[i].force
<1>1. CASE Timeline!Pushing(s) = {}
  BY <1>1 DEF Timeline!Strength
<1>2. CASE Timeline!Pushing(s) # {}
  <2>1. v4.pushes \in Seq(Timeline!Pushes)
    BY DEF Timeline!TimelineIsClear
  <2>2. Timeline!Pushing(s) \subseteq 1..Len(v4.pushes) /\ Len(v4.pushes) \in Nat
    BY <2>1 DEF Timeline!Pushing
  <2>3. Timeline!Max(Timeline!Pushing(s)) \in Timeline!Pushing(s)
    BY <1>2, <2>2, TimelineGreatest
  <2>4. v4.pushes[Timeline!Max(Timeline!Pushing(s))].force \in 1..2
    <3>1. v4.pushes[Timeline!Max(Timeline!Pushing(s))] \in Timeline!Pushes
      BY <2>1, <2>2, <2>3
    <3> QED
      BY <3>1 DEF Timeline!Pushes
  <2>5. Timeline!Strength(s) = v4.pushes[Timeline!Max(Timeline!Pushing(s))].force
    BY <1>2 DEF Timeline!Strength
  <2> QED
    BY <1>2, <2>3, <2>4, <2>5
<1> QED
  BY <1>1, <1>2

LEMMA TimelineApplyKeeps == ASSUME Timeline!IInv, Timeline!Apply PROVE Timeline!IInv'
<1> USE DEF Timeline!Apply
<1>1. UNCHANGED <<v4, v2, v5, v6>> /\ Timeline!TimelineIsClear /\ v5 \subseteq Robots
  BY DEF Timeline!IInv
<1>2. Timeline!TimelineIsClear'
  BY <1>1 DEF Timeline!TimelineIsClear, Timeline!Clash
<1>3. \A s \in Robots : v11'[s] = [target |-> v7'[s], speed |-> v8'[s].command]
  <2>1. CASE Timeline!Commanded
    BY <2>1
  <2>2. CASE ~Timeline!Commanded
    <3>1. \A s \in Robots : Timeline!Now(s, {"pose", "offset"}) = {} /\ Timeline!Latest(s, "speed") = {}
      BY <2>2 DEF Timeline!Commanded
    <3>2. \A s \in Robots : Timeline!Now(s, {"offset"}) = {} /\ Timeline!Now(s, {"pose"}) = {}
      BY <3>1 DEF Timeline!Now
    <3>3. \A s \in Robots : v7'[s] = v7[s] /\ v8'[s] = v8[s]
      BY <3>1, <3>2 DEF Timeline!ApplyTargets, Timeline!ApplySpeeds
    <3> QED
      BY <2>2, <3>3 DEF Timeline!IInv, Timeline!WorldIsKnown
  <2> QED
    BY <2>1, <2>2
<1>4. \A s \in Robots : v9'[s] = Timeline!Strength(s)
  <2>1. CASE {s \in Robots : Timeline!Pushing(s) # {}} \cup v10 # {}
    BY <2>1 DEF Timeline!ApplyWrench
  <2>2. CASE {s \in Robots : Timeline!Pushing(s) # {}} \cup v10 = {}
    <3>1. \A s \in Robots : v9'[s] = 0 /\ Timeline!Pushing(s) = {}
      BY <2>2 DEF Timeline!ApplyWrench, Timeline!IInv, Timeline!WorldIsKnown
    <3> QED
      BY <3>1 DEF Timeline!Strength
  <2> QED
    BY <2>1, <2>2
<1>5. v10' = {s \in Robots : Timeline!Pushing(s) # {}}
  BY DEF Timeline!ApplyWrench
<1>6. Timeline!WorldIsKnown'
  <2>1. ASSUME v10' = {}, NEW s \in Robots PROVE v9'[s] = 0
    BY <1>4, <1>5, <2>1 DEF Timeline!Strength
  <2>2. ASSUME NEW s \in Robots PROVE Timeline!SpeedOf(s)' = v8'[s]
    <3>1. v8[s] = Timeline!SpeedOf(s)
      BY DEF Timeline!IInv, Timeline!WorldIsKnown
    <3> QED
      BY <3>1 DEF Timeline!SpeedOf, Timeline!ApplySpeeds
  <2> HIDE DEF Timeline!Apply
  <2> QED
    BY <1>3, <2>1, <2>2 DEF Timeline!WorldIsKnown
<1>7. ASSUME NEW s \in Robots PROVE Timeline!GivenItsInputs(s)'
  <2>1. /\ Timeline!Pushing(s)' = Timeline!Pushing(s) /\ Timeline!Latest(s, "speed")' = Timeline!Latest(s, "speed")
        /\ Timeline!Now(s, {"pose"})' = Timeline!Now(s, {"pose"}) /\ Timeline!Now(s, {"offset"})' = Timeline!Now(s, {"offset"})
    BY <1>1 DEF Timeline!Pushing, Timeline!Latest, Timeline!Now
  <2>2. \A p \in Timeline!Latest(s, "speed") : v8'[s].target = p.value
    <3> SUFFICES ASSUME NEW p \in Timeline!Latest(s, "speed") PROVE v8'[s].target = p.value
      OBVIOUS
    <3>1. p = CHOOSE q \in Timeline!Latest(s, "speed") : TRUE
      BY <1>1, TimelineOneCommand
    <3>2. v8'[s] = [v8[s] EXCEPT !.target = p.value, !.manual = TRUE]
      BY <3>1 DEF Timeline!ApplySpeeds
    <3> QED
      BY <3>2
  <2>3. \A p \in Timeline!Now(s, {"pose"}) : v7'[s] = Timeline!Origin(s) + p.value
    <3> SUFFICES ASSUME NEW p \in Timeline!Now(s, {"pose"}) PROVE v7'[s] = Timeline!Origin(s) + p.value
      OBVIOUS
    <3>1. \A q \in Timeline!Now(s, {"pose"}) \cup Timeline!Now(s, {"offset"}) : q = p
      <4>1. \A q \in Timeline!Now(s, {"pose"}) \cup Timeline!Now(s, {"offset"}) : q \in Timeline!Now(s, {"pose", "offset"})
        BY DEF Timeline!Now
      <4> QED
        BY <1>1, <4>1, TimelineOneCommand
    <3>2. Timeline!Now(s, {"offset"}) = {}
      BY <3>1 DEF Timeline!Now
    <3>3. p = CHOOSE q \in Timeline!Now(s, {"pose"}) : TRUE
      BY <3>1
    <3> QED
      BY <3>2, <3>3 DEF Timeline!ApplyTargets
  <2>4. \A p \in Timeline!Now(s, {"offset"}) : v7'[s] = v6[s] + p.value
    <3> SUFFICES ASSUME NEW p \in Timeline!Now(s, {"offset"}) PROVE v7'[s] = v6[s] + p.value
      OBVIOUS
    <3>1. \A q \in Timeline!Now(s, {"pose"}) \cup Timeline!Now(s, {"offset"}) : q = p
      <4>1. \A q \in Timeline!Now(s, {"pose"}) \cup Timeline!Now(s, {"offset"}) : q \in Timeline!Now(s, {"pose", "offset"})
        BY DEF Timeline!Now
      <4> QED
        BY <1>1, <4>1, TimelineOneCommand
    <3>2. Timeline!Now(s, {"pose"}) = {}
      BY <3>1 DEF Timeline!Now
    <3>3. p = CHOOSE q \in Timeline!Now(s, {"offset"}) : TRUE
      BY <3>1
    <3> QED
      BY <3>2, <3>3 DEF Timeline!ApplyTargets
  <2>5. /\ (v9'[s] # 0) = (Timeline!Pushing(s) # {})
        /\ v9'[s] # 0 => \E i \in Timeline!Pushing(s) : v9'[s] = v4.pushes[i].force
    BY <1>1, <1>4, TimelineStrengthIs
  <2> HIDE DEF Timeline!Apply
  <2>6. v11'[s].target = v7'[s]
    <3> DEFINE world == [target |-> v7'[s], speed |-> v8'[s].command]
    <3>1. v11'[s] = world
      BY <1>3
    <3>2. world.target = v7'[s]
      OBVIOUS
    <3> QED
      BY <3>1, <3>2, Zenon
  <2>9. v6'[s] = v6[s]
    BY <1>1
  <2>7. (v9'[s] # 0) = (Timeline!Pushing(s)' # {})
    BY <2>1, <2>5
  <2>8. v9'[s] # 0 => \E i \in Timeline!Pushing(s)' : v9'[s] = v4'.pushes[i].force
    BY <1>1, <2>1, <2>5
  <2> QED
    BY <1>3, <2>1, <2>2, <2>3, <2>4, <2>6, <2>9, <2>7, <2>8 DEF Timeline!GivenItsInputs,
       Timeline!Origin
<1> QED
  BY <1>1, <1>2, <1>6, <1>7 DEF Timeline!IInv

LEMMA TimelineStepKeeps ==
  ASSUME Timeline!IInv, NEW moved, NEW resampled, NEW done \in SUBSET v5,
         Timeline!Step(moved, resampled, done)
  PROVE  Timeline!IInv'
<1>1. UNCHANGED <<v4, v7, v10>> /\ Timeline!TimelineIsClear /\ v5' \subseteq v5
  BY DEF Timeline!IInv, Timeline!Step
<1>2. Timeline!TimelineIsClear'
  BY <1>1 DEF Timeline!TimelineIsClear, Timeline!Clash
<1>3. Timeline!WorldIsKnown'
  <2>1. ASSUME NEW s \in Robots PROVE Timeline!SpeedOf(s)' = v8'[s]
    <3>1. v8[s] = Timeline!SpeedOf(s)
      BY DEF Timeline!IInv, Timeline!WorldIsKnown
    <3> QED
      BY <3>1 DEF Timeline!SpeedOf, Timeline!Step, Timeline!Slew
  <2>2. \A s \in Robots : v11'[s] = [target |-> v7'[s], speed |-> v8'[s].command]
    BY <1>1 DEF Timeline!Step
  <2>3. v10' = {} => \A s \in Robots : v9'[s] = 0
    BY <1>1 DEF Timeline!Step, Timeline!IInv, Timeline!WorldIsKnown
  <2> QED
    BY <2>1, <2>2, <2>3 DEF Timeline!WorldIsKnown
<1>4. v5' \subseteq Robots /\ v3' # "act"
  BY <1>1 DEF Timeline!Step, Timeline!IInv
<1> QED
  BY <1>2, <1>3, <1>4 DEF Timeline!IInv

LEMMA TimelineNextBatchKeeps == ASSUME Timeline!IInv, Timeline!NextBatch PROVE Timeline!IInv'
<1>1. PICK t \in Timeline!LaterTimelines, r \in {0, MaxSpeed} : Timeline!Start(t, r)
  BY DEF Timeline!NextBatch
<1>2. Timeline!TimelineIsClear'
  BY <1>1, TimelineTimelinesAreClear DEF Timeline!Start
<1>3. Timeline!WorldIsKnown'
  <2>1. ASSUME NEW s \in Robots
        PROVE  Timeline!SpeedOf(s)' = v8'[s] /\ v8'[s].command = v8[s].command
    <3>1. v8[s] = Timeline!SpeedOf(s)
      BY DEF Timeline!IInv, Timeline!WorldIsKnown
    <3> QED
      BY <1>1, <3>1 DEF Timeline!SpeedOf, Timeline!Start
  <2> QED
    BY <1>1, <2>1 DEF Timeline!Start, Timeline!WorldIsKnown
<1>4. v5' \subseteq Robots /\ v3' # "act"
  BY <1>1 DEF Timeline!Start
<1> QED
  BY <1>2, <1>3, <1>4 DEF Timeline!IInv

LEMMA TimelineStepPreserves == ASSUME Timeline!IInv, [Timeline!Next]_Timeline!vars PROVE Timeline!IInv'
<1>1. CASE UNCHANGED Timeline!vars
  <2>1. UNCHANGED <<v2, v3, v4, v5, v6, v7, v8, v9, v10, v11>>
    BY <1>1 DEF Timeline!vars
  <2>2. \A s \in Robots : /\ Timeline!Now(s, {"pose"})' = Timeline!Now(s, {"pose"})
                        /\ Timeline!Now(s, {"offset"})' = Timeline!Now(s, {"offset"})
                        /\ Timeline!Latest(s, "speed")' = Timeline!Latest(s, "speed")
                        /\ Timeline!Pushing(s)' = Timeline!Pushing(s)
    BY <2>1 DEF Timeline!Now, Timeline!Latest, Timeline!Pushing
  <2>3. Timeline!TimelineIsClear'
    BY <2>1 DEF Timeline!IInv, Timeline!TimelineIsClear, Timeline!Clash
  <2> QED
    BY <2>1, <2>2, <2>3 DEF Timeline!IInv, Timeline!WorldIsKnown, Timeline!SpeedOf,
       Timeline!GivenItsInputs, Timeline!Origin
<1> QED
  BY <1>1, TimelineApplyKeeps, TimelineStepKeeps, TimelineNextBatchKeeps DEF Timeline!Next

LEMMA TimelineInputsAreRight == ASSUME Timeline!IInv PROVE Timeline!InputsAreTheTimeline
BY DEF Timeline!IInv, Timeline!InputsAreTheTimeline

-----------------------------------------------------------------------------
\* Statistics (SlotStatistics): the streaming metrics are those of the episode so far.
\* Variables: v1 step, v2 active, v3 command, v4 actions, v5 rates, v6 contact, v7 totals,
\*   v8 still, v9 target, v10 hold, v11 episode.

\* Finite sets, in the instance and in the library.
LEMMA StatisticsFinite ==
  \A S : (Statistics!IsFiniteSet(S) <=> IsFiniteSet(S)) /\ Statistics!Cardinality(S) = Cardinality(S)
BY Zenon DEF Statistics!IsFiniteSet, IsFiniteSet, Statistics!Cardinality, Cardinality

\* A count goes up by one when the new step is of the set.
LEMMA StatisticsCounted ==
  ASSUME NEW S, Statistics!IsFiniteSet(S), NEW x, x \notin S, NEW c \in BOOLEAN, NEW T,
         T = IF c THEN S \cup {x} ELSE S
  PROVE  /\ Statistics!IsFiniteSet(T) /\ Statistics!Cardinality(T) \in Nat /\ Statistics!Cardinality(S) \in Nat
         /\ Statistics!Cardinality(T) = Statistics!Cardinality(S) + Statistics!Bit(c)
<1>1. Statistics!Cardinality(S) \in Nat
  BY FS_CardinalityType, StatisticsFinite
<1>2. CASE c
  <2>1. T = S \cup {x}
    BY <1>2
  <2>2. Statistics!IsFiniteSet(T) /\ Statistics!Cardinality(T) = Statistics!Cardinality(S) + 1
    BY <2>1, FS_AddElement, StatisticsFinite
  <2> QED
    BY <1>1, <1>2, <2>2 DEF Statistics!Bit
<1>3. CASE ~c
  BY <1>1, <1>3 DEF Statistics!Bit
<1> QED
  BY <1>2, <1>3

\* The area under a bounded function is finite.
LEMMA StatisticsAreaIsFinite ==
  ASSUME NEW S, Statistics!IsFiniteSet(S), NEW v, \A i \in S : v[i] \in 0..4
  PROVE  Statistics!IsFiniteSet(UNION {{i} \X (1..v[i]) : i \in S}) /\ Statistics!Total(S, v) \in Nat
<1> DEFINE A == UNION {{i} \X (1..v[i]) : i \in S}
<1>1. Statistics!IsFiniteSet(1..4)
  <2>1. 1 \in Int /\ 4 \in Int
    OBVIOUS
  <2> QED
    BY <2>1, FS_Interval, StatisticsFinite, Zenon
<1>2. Statistics!IsFiniteSet(S \X (1..4))
  BY <1>1, FS_Product, StatisticsFinite
<1>3. A \in SUBSET (S \X (1..4))
  <2> SUFFICES ASSUME NEW a \in A PROVE a \in S \X (1..4)
    OBVIOUS
  <2>1. PICK i \in S : a \in {i} \X (1..v[i])
    OBVIOUS
  <2>2. v[i] \in 0..4
    OBVIOUS
  <2>3. \A u \in 1..v[i] : u \in 1..4
    BY <2>2
  <2> QED
    BY <2>1, <2>3
<1>4. Statistics!IsFiniteSet(A)
  BY <1>2, <1>3, FS_Subset, StatisticsFinite
<1>5. Statistics!Cardinality(A) \in Nat
  BY <1>4, FS_CardinalityType, StatisticsFinite
<1> QED
  BY <1>4, <1>5 DEF Statistics!Total

\* A sum goes up by the value of the new step when that is of the set.
LEMMA StatisticsSummed ==
  ASSUME NEW S, Statistics!IsFiniteSet(S), NEW x, x \notin S, NEW c \in BOOLEAN, NEW T,
         T = IF c THEN S \cup {x} ELSE S,
         NEW v, NEW w, \A i \in S : v[i] \in 0..4 /\ w[i] = v[i], c => w[x] \in 0..4
  PROVE  /\ Statistics!Total(S, v) \in Nat /\ Statistics!Total(T, w) \in Nat
         /\ Statistics!Total(T, w) = Statistics!Total(S, v) + (IF c THEN w[x] ELSE 0)
<1> DEFINE area(R) == UNION {{i} \X (1..w[i]) : i \in R}
<1>1. UNION {{i} \X (1..v[i]) : i \in S} = area(S)
  <2>1. \A i \in S : {i} \X (1..v[i]) = {i} \X (1..w[i])
    OBVIOUS
  <2>2. {{i} \X (1..v[i]) : i \in S} = {{i} \X (1..w[i]) : i \in S}
    BY <2>1
  <2> QED
    BY <2>2
<1>2. Statistics!Total(S, v) = Statistics!Cardinality(area(S)) /\ Statistics!Total(T, w) = Statistics!Cardinality(area(T))
  BY <1>1 DEF Statistics!Total
<1>3. \A i \in S : w[i] \in 0..4
  OBVIOUS
<1>4. Statistics!IsFiniteSet(area(S)) /\ Statistics!Cardinality(area(S)) \in Nat
  BY <1>3, StatisticsAreaIsFinite DEF Statistics!Total
<1>5. CASE c
  <2> DEFINE strip == {x} \X (1..w[x])
  <2>1. T = S \cup {x} /\ w[x] \in 0..4
    BY <1>5
  <2>2. area(T) = area(S) \cup strip
    <3>1. \A a : a \in area(T) <=> \E i \in T : a \in {i} \X (1..w[i])
      OBVIOUS
    <3>2. \A a : a \in area(S) <=> \E i \in S : a \in {i} \X (1..w[i])
      OBVIOUS
    <3> HIDE DEF area
    <3>3. \A a : a \in area(T) <=> a \in area(S) \/ a \in strip
      BY <2>1, <3>1, <3>2
    <3> QED
      BY <3>3
  <2>3. area(S) \cap strip = {}
    <3>1. \A a \in area(S) : a[1] \in S
      OBVIOUS
    <3>2. \A a \in strip : a[1] = x
      OBVIOUS
    <3> QED
      BY <3>1, <3>2
  <2>4. Statistics!IsFiniteSet(strip) /\ Statistics!Cardinality(strip) = w[x]
    <3>1. Statistics!IsFiniteSet({x}) /\ Statistics!Cardinality({x}) = 1
      BY FS_Singleton, StatisticsFinite
    <3>2. Statistics!IsFiniteSet(1..w[x]) /\ Statistics!Cardinality(1..w[x]) = w[x]
      BY <2>1, FS_Interval, StatisticsFinite
    <3>3. Statistics!IsFiniteSet(strip) /\ Statistics!Cardinality(strip) = Statistics!Cardinality({x}) * Statistics!Cardinality(1..w[x])
      BY <3>1, <3>2, FS_Product, StatisticsFinite, Zenon
    <3>4. 1 * w[x] = w[x]
      BY <2>1
    <3> QED
      BY <3>1, <3>2, <3>3, <3>4
  <2> HIDE DEF area, strip
  <2>5. Statistics!Cardinality(area(T)) = Statistics!Cardinality(area(S)) + Statistics!Cardinality(strip) - Statistics!Cardinality({})
    BY <1>4, <2>2, <2>3, <2>4, FS_Union, StatisticsFinite
  <2>6. Statistics!Cardinality({}) = 0
    BY FS_EmptySet, StatisticsFinite
  <2>7. Statistics!Cardinality(area(T)) = Statistics!Cardinality(area(S)) + w[x]
    BY <1>4, <2>1, <2>4, <2>5, <2>6
  <2> QED
    BY <1>2, <1>4, <1>5, <2>1, <2>7
<1>6. CASE ~c
  <2>1. T = S
    BY <1>6
  <2> HIDE DEF area
  <2> QED
    BY <1>2, <1>4, <1>6, <2>1
<1> QED
  BY <1>5, <1>6

\* The same with the weight as a factor, as the loop accumulates.
LEMMA StatisticsBitIs ==
  ASSUME NEW c \in BOOLEAN
  PROVE  Statistics!Bit(c) \in {0, 1} /\ (Statistics!Bit(c) = 1 <=> c)
BY DEF Statistics!Bit

LEMMA StatisticsAccumulated ==
  ASSUME NEW S, Statistics!IsFiniteSet(S), NEW x, x \notin S, NEW b \in {0, 1}, NEW T,
         T = IF b = 1 THEN S \cup {x} ELSE S,
         NEW v, NEW w, \A i \in S : v[i] \in 0..4 /\ w[i] = v[i],
         NEW a \in 0..4, b = 1 => w[x] = a
  PROVE  /\ Statistics!Total(T, w) = Statistics!Total(S, v) + a * b /\ Statistics!Total(T, w) \in Nat
         /\ Statistics!Total(S, v) \in Nat
<1>1. PICK c \in BOOLEAN : c <=> b = 1
  OBVIOUS
<1>2. T = (IF c THEN S \cup {x} ELSE S) /\ (c => w[x] \in 0..4)
  BY <1>1
<1>3. /\ Statistics!Total(S, v) \in Nat /\ Statistics!Total(T, w) \in Nat
      /\ Statistics!Total(T, w) = Statistics!Total(S, v) + (IF c THEN w[x] ELSE 0)
  BY <1>2, StatisticsSummed
<1>4. (IF c THEN w[x] ELSE 0) = a * b
  BY <1>1
<1> QED
  BY <1>3, <1>4

LEMMA StatisticsTallied ==
  ASSUME NEW S, Statistics!IsFiniteSet(S), NEW x, x \notin S, NEW b \in {0, 1}, NEW T,
         T = IF b = 1 THEN S \cup {x} ELSE S
  PROVE  /\ Statistics!Cardinality(T) = Statistics!Cardinality(S) + b /\ Statistics!Cardinality(T) \in Nat
         /\ Statistics!Cardinality(S) \in Nat
<1>1. Statistics!Cardinality(S) \in Nat
  BY FS_CardinalityType, StatisticsFinite
<1>2. CASE b = 1
  <2>1. T = S \cup {x}
    BY <1>2
  <2> QED
    BY <1>1, <1>2, <2>1, FS_AddElement, StatisticsFinite
<1>3. CASE b # 1
  BY <1>1, <1>3
<1> QED
  BY <1>2, <1>3

\* Maxima, minima: what the definitions choose.
LEMMA StatisticsMaxIs ==
  ASSUME NEW S, NEW m \in S, S \subseteq Int, \A x \in S : x <= m
  PROVE  Statistics!Max(S) = m
<1>1. Statistics!Max(S) \in S /\ \A x \in S : Statistics!Max(S) >= x
  BY DEF Statistics!Max
<1>2. Statistics!Max(S) \in Int /\ m \in Int /\ Statistics!Max(S) >= m /\ Statistics!Max(S) <= m
  BY <1>1
<1> QED
  BY <1>2

LEMMA StatisticsMinIs ==
  ASSUME NEW S, NEW m \in S, S \subseteq Int, \A x \in S : m <= x
  PROVE  Statistics!Min(S) = m
<1>1. Statistics!Min(S) \in S /\ \A x \in S : Statistics!Min(S) <= x
  BY DEF Statistics!Min
<1>2. Statistics!Min(S) \in Int /\ m \in Int /\ Statistics!Min(S) >= m /\ Statistics!Min(S) <= m
  BY <1>1
<1> QED
  BY <1>2

LEMMA StatisticsMaxOfTwo ==
  ASSUME NEW a \in Int, NEW b \in Int
  PROVE  Statistics!Max({a, b}) = IF a >= b THEN a ELSE b
<1>1. CASE a >= b
  BY <1>1, StatisticsMaxIs
<1>2. CASE ~(a >= b)
  BY <1>2, StatisticsMaxIs
<1> QED
  BY <1>1, <1>2

-----------------------------------------------------------------------------
\* What the episode is, and its frames.
LEMMA StatisticsEpisodeHas ==
  ASSUME Statistics!EpisodeIs
  PROVE  /\ Statistics!Duration \in Nat /\ Statistics!Steps = 1..Statistics!Duration /\ Statistics!IsFiniteSet(Statistics!Steps)
         /\ \A i \in Statistics!Steps : /\ v11[i] \in Statistics!Frames /\ v11[i].act \in {0, 1}
                             /\ v11[i].near \in BOOLEAN
                             /\ i \in Nat /\ i > 0 /\ i <= Statistics!Duration
<1>1. v11 \in Seq(Statistics!Frames)
  BY DEF Statistics!EpisodeIs
<1>2. Statistics!Duration \in Nat /\ \A i \in 1..Statistics!Duration : v11[i] \in Statistics!Frames
  BY <1>1 DEF Statistics!Duration
<1>3. Statistics!IsFiniteSet(1..Statistics!Duration)
  BY <1>2, FS_Interval, StatisticsFinite
<1>4. \A x \in Statistics!Frames : x.act \in {0, 1} /\ x.near \in BOOLEAN
  BY DEF Statistics!Frames, Statistics!Acts
<1>5. \A i \in 1..Statistics!Duration : i \in Nat /\ i > 0 /\ i <= Statistics!Duration
  BY <1>2
<1> QED
  BY <1>2, <1>3, <1>4, <1>5 DEF Statistics!Steps

\* One more frame: the others stay in their places.
LEMMA StatisticsFrameAdded ==
  ASSUME Statistics!EpisodeIs, NEW f \in Statistics!Frames, v11' = Append(v11, f)
  PROVE  /\ v11' \in Seq(Statistics!Frames) /\ Statistics!Duration' = Statistics!Duration + 1
         /\ Statistics!Duration + 1 \notin Statistics!Steps /\ Statistics!Steps' = Statistics!Steps \cup {Statistics!Duration + 1}
         /\ \A i \in Statistics!Steps : v11'[i] = v11[i]
         /\ v11'[Statistics!Duration + 1] = f
<1>1. v11 \in Seq(Statistics!Frames)
  BY DEF Statistics!EpisodeIs
<1>2. Statistics!Duration = Len(v11) /\ Statistics!Duration' = Len(v11') /\ Statistics!Duration \in Nat
  BY <1>1 DEF Statistics!Duration
<1>3. /\ v11' \in Seq(Statistics!Frames) /\ Len(v11') = Len(v11) + 1
      /\ \A i \in 1..Len(v11) : v11'[i] = v11[i]
      /\ v11'[Len(v11) + 1] = f
  BY <1>1
<1>4. 1..(Statistics!Duration + 1) = (1..Statistics!Duration) \cup {Statistics!Duration + 1} /\ Statistics!Duration + 1 \notin 1..Statistics!Duration
  BY <1>2
<1> QED
  BY <1>2, <1>3, <1>4 DEF Statistics!Steps

\* The values of the new step; those of the others stand.
LEMMA StatisticsValuesGrow ==
  ASSUME Statistics!EpisodeIs, NEW f \in Statistics!Frames, v11' = Append(v11, f), NEW x, x = Statistics!Duration + 1
  PROVE  /\ \A i \in Statistics!Steps : /\ Statistics!Action[i] \in {0, 1} /\ Statistics!Action'[i] = Statistics!Action[i]
                             /\ Statistics!Power[i] \in 0..4 /\ Statistics!Power'[i] = Statistics!Power[i]
                             /\ Statistics!Place[i] \in BOOLEAN /\ Statistics!Place'[i] = Statistics!Place[i]
         /\ \A i \in Statistics!Later(Statistics!Steps) : Statistics!Change[i] \in 0..4 /\ Statistics!Change'[i] = Statistics!Change[i]
         /\ \A i \in Statistics!Third(Statistics!Steps) : Statistics!Bend[i] \in 0..4 /\ Statistics!Bend'[i] = Statistics!Bend[i]
         /\ Statistics!Action'[x] = f.act /\ Statistics!Power'[x] = Statistics!Sq(f.act) /\ Statistics!Place'[x] = f.near
         /\ f.act \in {0, 1} /\ Statistics!Sq(f.act) \in 0..4 /\ f.near \in BOOLEAN
         /\ Statistics!Duration >= 1 => /\ Statistics!Change'[x] = Statistics!Sq(f.act - Statistics!Action[Statistics!Duration])
                             /\ Statistics!Change'[x] \in 0..4
         /\ Statistics!Duration >= 2 => /\ Statistics!Bend'[x] = Statistics!Sq(f.act - 2 * Statistics!Action[Statistics!Duration] + Statistics!Action[Statistics!Duration - 1])
                             /\ Statistics!Bend'[x] \in 0..4
<1> DEFINE n == Statistics!Duration
           g == v11'
<1>1. /\ n \in Nat /\ Statistics!Steps = 1..n /\ Statistics!Steps' = Statistics!Steps \cup {x} /\ x \notin Statistics!Steps /\ x = n + 1
      /\ \A i \in Statistics!Steps : /\ v11[i].act \in {0, 1} /\ v11[i].near \in BOOLEAN
                          /\ g[i] = v11[i]
      /\ g[x] = f
  BY StatisticsEpisodeHas, StatisticsFrameAdded
<1>2. f.act \in {0, 1} /\ f.near \in BOOLEAN
  BY DEF Statistics!Frames, Statistics!Acts
<1>3. \A a, b, c \in {0, 1} : Statistics!Sq(a) \in 0..4 /\ Statistics!Sq(a - b) \in 0..4 /\ Statistics!Sq(a - 2 * b + c) \in 0..4
  BY DEF Statistics!Sq
<1>4. \A i \in Statistics!Steps : Statistics!Action[i] = v11[i].act /\ Statistics!Power[i] = Statistics!Sq(v11[i].act) /\ Statistics!Place[i] = v11[i].near
  BY DEF Statistics!Action, Statistics!Power, Statistics!Place
<1>5. \A i \in Statistics!Steps \cup {x} : Statistics!Action'[i] = g[i].act /\ Statistics!Power'[i] = Statistics!Sq(g[i].act) /\ Statistics!Place'[i] = g[i].near
  BY <1>1 DEF Statistics!Action, Statistics!Power, Statistics!Place
<1>6. \A i \in Statistics!Later(Statistics!Steps) : Statistics!Change[i] = Statistics!Sq(v11[i].act - v11[i - 1].act)
  BY DEF Statistics!Change
<1>7. \A i \in Statistics!Third(Statistics!Steps) :
        Statistics!Bend[i] = Statistics!Sq(v11[i].act - 2 * v11[i - 1].act + v11[i - 2].act)
  BY DEF Statistics!Bend
<1>8. \A i \in (Statistics!Steps \cup {x}) \ {1} : Statistics!Change'[i] = Statistics!Sq(g[i].act - g[i - 1].act)
  BY <1>1 DEF Statistics!Change, Statistics!Later
<1>9. \A i \in (Statistics!Steps \cup {x}) \ {1, 2} :
        Statistics!Bend'[i] = Statistics!Sq(g[i].act - 2 * g[i - 1].act + g[i - 2].act)
  BY <1>1 DEF Statistics!Bend, Statistics!Third
<1> HIDE DEF n, g
<1>10. \A i \in Statistics!Later(Statistics!Steps) : i \in Statistics!Steps /\ i - 1 \in Statistics!Steps
  BY <1>1 DEF Statistics!Later
<1>11. \A i \in Statistics!Third(Statistics!Steps) : i \in Statistics!Steps /\ i - 1 \in Statistics!Steps /\ i - 2 \in Statistics!Steps
  BY <1>1 DEF Statistics!Third
<1>12. \A i \in Statistics!Steps : /\ Statistics!Action[i] \in {0, 1} /\ Statistics!Action'[i] = Statistics!Action[i]
                        /\ Statistics!Power[i] \in 0..4 /\ Statistics!Power'[i] = Statistics!Power[i]
                        /\ Statistics!Place[i] \in BOOLEAN /\ Statistics!Place'[i] = Statistics!Place[i]
  <2> TAKE i \in Statistics!Steps
  <2>1. g[i] = v11[i] /\ v11[i].act \in {0, 1} /\ v11[i].near \in BOOLEAN
    BY <1>1
  <2>2. Statistics!Sq(v11[i].act) \in 0..4
    BY <2>1, <1>3
  <2> QED
    BY <2>1, <2>2, <1>4, <1>5
<1>13. \A i \in Statistics!Later(Statistics!Steps) : Statistics!Change[i] \in 0..4 /\ Statistics!Change'[i] = Statistics!Change[i]
  <2> TAKE i \in Statistics!Later(Statistics!Steps)
  <2>1. i \in Statistics!Steps /\ i - 1 \in Statistics!Steps /\ i \in (Statistics!Steps \cup {x}) \ {1}
    BY <1>10 DEF Statistics!Later
  <2> QED
    <3>1. Statistics!Change[i] = Statistics!Sq(v11[i].act - v11[i - 1].act)
      BY <1>6
    <3>2. Statistics!Change'[i] = Statistics!Sq(g[i].act - g[i - 1].act)
      BY <2>1, <1>8
    <3>3. /\ g[i] = v11[i] /\ g[i - 1] = v11[i - 1]
          /\ v11[i].act \in {0, 1} /\ v11[i - 1].act \in {0, 1}
      BY <2>1, <1>1
    <3>4. Statistics!Sq(v11[i].act - v11[i - 1].act) \in 0..4
      BY <3>3, <1>3
    <3> QED
      BY <3>1, <3>2, <3>3, <3>4
<1>14. \A i \in Statistics!Third(Statistics!Steps) : Statistics!Bend[i] \in 0..4 /\ Statistics!Bend'[i] = Statistics!Bend[i]
  <2> TAKE i \in Statistics!Third(Statistics!Steps)
  <2>1. i \in Statistics!Steps /\ i - 1 \in Statistics!Steps /\ i - 2 \in Statistics!Steps /\ i \in (Statistics!Steps \cup {x}) \ {1, 2}
    BY <1>11 DEF Statistics!Third
  <2> QED
    <3>1. Statistics!Bend[i] = Statistics!Sq(v11[i].act - 2 * v11[i - 1].act + v11[i - 2].act)
      BY <1>7
    <3>2. Statistics!Bend'[i] = Statistics!Sq(g[i].act - 2 * g[i - 1].act + g[i - 2].act)
      BY <2>1, <1>9
    <3>3. /\ g[i] = v11[i] /\ g[i - 1] = v11[i - 1] /\ g[i - 2] = v11[i - 2]
          /\ v11[i].act \in {0, 1} /\ v11[i - 1].act \in {0, 1}
          /\ v11[i - 2].act \in {0, 1}
      BY <2>1, <1>1
    <3>4. Statistics!Sq(v11[i].act - 2 * v11[i - 1].act + v11[i - 2].act) \in 0..4
      BY <3>3, <1>3
    <3> QED
      BY <3>1, <3>2, <3>3, <3>4
<1>15. Statistics!Action'[x] = f.act /\ Statistics!Power'[x] = Statistics!Sq(f.act) /\ Statistics!Place'[x] = f.near /\ Statistics!Sq(f.act) \in 0..4
  BY <1>1, <1>2, <1>3, <1>5
<1>16. ASSUME n >= 1
       PROVE  Statistics!Change'[x] = Statistics!Sq(f.act - Statistics!Action[n]) /\ Statistics!Change'[x] \in 0..4
  <2>1. n \in Statistics!Steps /\ x - 1 = n /\ x \in (Statistics!Steps \cup {x}) \ {1}
    BY <1>1, <1>16
  <2>2. Statistics!Change'[x] = Statistics!Sq(f.act - v11[n].act)
    BY <2>1, <1>1, <1>8
  <2>3. Statistics!Action[n] = v11[n].act /\ v11[n].act \in {0, 1}
    BY <2>1, <1>1, <1>4
  <2>4. Statistics!Sq(f.act - v11[n].act) \in 0..4
    BY <2>3, <1>2, <1>3
  <2> QED
    BY <2>2, <2>3, <2>4
<1>17. ASSUME n >= 2
       PROVE  /\ Statistics!Bend'[x] = Statistics!Sq(f.act - 2 * Statistics!Action[n] + Statistics!Action[n - 1])
              /\ Statistics!Bend'[x] \in 0..4
  <2>0. n \in Nat /\ n >= 2 /\ x = n + 1
    BY <1>1, <1>17
  <2>1. n \in Statistics!Steps /\ n - 1 \in Statistics!Steps /\ x - 1 = n /\ x - 2 = n - 1
    <3>1. n \in 1..n /\ n - 1 \in 1..n /\ x - 1 = n /\ x - 2 = n - 1
      BY <2>0
    <3>2. Statistics!Steps = 1..n
      BY <1>1
    <3> QED
      BY <3>1, <3>2
  <2>2. x # 1 /\ x # 2
    BY <2>0
  <2>3. x \in (Statistics!Steps \cup {x}) \ {1, 2}
    BY <2>2
  <2>4. Statistics!Bend'[x] = Statistics!Sq(f.act - 2 * v11[n].act + v11[n - 1].act)
    BY <2>1, <2>3, <1>1, <1>9
  <2>5. /\ Statistics!Action[n] = v11[n].act /\ v11[n].act \in {0, 1}
        /\ Statistics!Action[n - 1] = v11[n - 1].act /\ v11[n - 1].act \in {0, 1}
    BY <2>1, <1>1, <1>4
  <2>6. Statistics!Sq(f.act - 2 * v11[n].act + v11[n - 1].act) \in 0..4
    BY <2>5, <1>2, <1>3
  <2> QED
    BY <2>4, <2>5, <2>6
<1> QED
  BY <1>2, <1>12, <1>13, <1>14, <1>15, <1>16, <1>17 DEF n

-----------------------------------------------------------------------------
\* The new step joins the sets its frame belongs to; no other step does.
LEMMA StatisticsContactSetsGrow ==
  ASSUME Statistics!EpisodeIs, NEW f \in Statistics!Frames, v11' = Append(v11, f), NEW x, x = Statistics!Duration + 1
  PROVE  /\ Statistics!Both' = IF f.left /\ f.right THEN Statistics!Both \cup {x} ELSE Statistics!Both
         /\ Statistics!LeftOnly' = IF f.left /\ ~f.right THEN Statistics!LeftOnly \cup {x} ELSE Statistics!LeftOnly
         /\ Statistics!RightOnly' = IF ~f.left /\ f.right THEN Statistics!RightOnly \cup {x} ELSE Statistics!RightOnly
         /\ Statistics!Airborne' = IF ~f.left /\ ~f.right THEN Statistics!Airborne \cup {x} ELSE Statistics!Airborne
         /\ Statistics!Single' = IF f.left # f.right THEN Statistics!Single \cup {x} ELSE Statistics!Single
         /\ Statistics!Upright' = IF f.upright THEN Statistics!Upright \cup {x} ELSE Statistics!Upright
         /\ Statistics!Quiet' = IF f.quiet THEN Statistics!Quiet \cup {x} ELSE Statistics!Quiet
<1>1. /\ Statistics!Steps' = Statistics!Steps \cup {x} /\ x \notin Statistics!Steps
      /\ \A i \in Statistics!Steps : v11'[i] = v11[i]
      /\ v11'[x] = f
  BY StatisticsFrameAdded
<1>2. Statistics!Both' = IF f.left /\ f.right THEN Statistics!Both \cup {x} ELSE Statistics!Both
  BY <1>1 DEF Statistics!Both
<1>3. Statistics!LeftOnly' = IF f.left /\ ~f.right THEN Statistics!LeftOnly \cup {x} ELSE Statistics!LeftOnly
  BY <1>1 DEF Statistics!LeftOnly
<1>4. Statistics!RightOnly' = IF ~f.left /\ f.right THEN Statistics!RightOnly \cup {x} ELSE Statistics!RightOnly
  BY <1>1 DEF Statistics!RightOnly
<1>5. Statistics!Airborne' = IF ~f.left /\ ~f.right THEN Statistics!Airborne \cup {x} ELSE Statistics!Airborne
  BY <1>1 DEF Statistics!Airborne
<1>6. Statistics!Single' = IF f.left # f.right THEN Statistics!Single \cup {x} ELSE Statistics!Single
  BY <1>1 DEF Statistics!Single
<1>7. Statistics!Upright' = IF f.upright THEN Statistics!Upright \cup {x} ELSE Statistics!Upright
  BY <1>1 DEF Statistics!Upright
<1>8. Statistics!Quiet' = IF f.quiet THEN Statistics!Quiet \cup {x} ELSE Statistics!Quiet
  BY <1>1 DEF Statistics!Quiet
<1> QED
  BY <1>2, <1>3, <1>4, <1>5, <1>6, <1>7, <1>8

LEMMA StatisticsLaterSetsGrow ==
  ASSUME Statistics!EpisodeIs, NEW f \in Statistics!Frames, v11' = Append(v11, f), NEW x, x = Statistics!Duration + 1
  PROVE  /\ Statistics!Later(Statistics!Steps)' = IF Statistics!Duration >= 1 THEN Statistics!Later(Statistics!Steps) \cup {x} ELSE Statistics!Later(Statistics!Steps)
         /\ Statistics!Third(Statistics!Steps)' = IF Statistics!Duration >= 2 THEN Statistics!Third(Statistics!Steps) \cup {x} ELSE Statistics!Third(Statistics!Steps)
         /\ Statistics!Later(Statistics!Quiet)' = IF f.quiet /\ Statistics!Duration >= 1 THEN Statistics!Later(Statistics!Quiet) \cup {x}
                                                        ELSE Statistics!Later(Statistics!Quiet)
         /\ Statistics!Third(Statistics!Quiet)' = IF f.quiet /\ Statistics!Duration >= 2 THEN Statistics!Third(Statistics!Quiet) \cup {x}
                                                        ELSE Statistics!Third(Statistics!Quiet)
<1>1. Statistics!Steps' = Statistics!Steps \cup {x} /\ x \notin Statistics!Steps /\ Statistics!Duration \in Nat /\ Statistics!Steps = 1..Statistics!Duration
  BY StatisticsFrameAdded, StatisticsEpisodeHas
<1>2. Statistics!Quiet' = IF f.quiet THEN Statistics!Quiet \cup {x} ELSE Statistics!Quiet
  BY StatisticsContactSetsGrow
<1>3. Statistics!Duration >= 1 => x # 1
  BY <1>1
<1>4. Statistics!Duration >= 2 => x # 1 /\ x # 2
  BY <1>1
<1>5. ~(Statistics!Duration >= 1) => x = 1
  BY <1>1
<1>6. ~(Statistics!Duration >= 2) => x = 1 \/ x = 2
  BY <1>1
<1> QED
  BY <1>1, <1>2, <1>3, <1>4, <1>5, <1>6 DEF Statistics!Later, Statistics!Third

LEMMA StatisticsPathSetsGrow ==
  ASSUME Statistics!EpisodeIs, NEW f \in Statistics!Frames, v11' = Append(v11, f), NEW x, x = Statistics!Duration + 1
  PROVE  /\ Statistics!Moved' = IF f.near # Statistics!Latest(Statistics!Place, FALSE) THEN Statistics!Moved \cup {x} ELSE Statistics!Moved
         /\ (Statistics!Moved \cap Statistics!Quiet)' = IF f.near # Statistics!Latest(Statistics!Place, FALSE) /\ f.quiet
                                  THEN (Statistics!Moved \cap Statistics!Quiet) \cup {x} ELSE Statistics!Moved \cap Statistics!Quiet
         /\ Statistics!Switched' = IF Statistics!Duration >= 1 /\ (\/ f.left # v11[Statistics!Duration].left
                                             \/ f.right # v11[Statistics!Duration].right)
                        THEN Statistics!Switched \cup {x} ELSE Statistics!Switched
<1>1. /\ Statistics!Steps' = Statistics!Steps \cup {x} /\ x \notin Statistics!Steps /\ Statistics!Duration \in Nat /\ Statistics!Steps = 1..Statistics!Duration
      /\ \A i \in Statistics!Steps : v11'[i] = v11[i]
      /\ v11'[x] = f
  BY StatisticsFrameAdded, StatisticsEpisodeHas
<1>2. (\A i \in Statistics!Steps : Statistics!Place'[i] = Statistics!Place[i]) /\ Statistics!Place'[x] = f.near
  BY StatisticsValuesGrow
<1>3. \A i \in Statistics!Steps : i # 1 => i - 1 \in Statistics!Steps
  BY <1>1
<1>4. /\ Statistics!Duration >= 1 => x # 1 /\ x - 1 = Statistics!Duration /\ Statistics!Duration \in Statistics!Steps
      /\ ~(Statistics!Duration >= 1) => x = 1 /\ Statistics!Duration = 0
  BY <1>1
<1> DEFINE before(i) == IF i = 1 THEN FALSE ELSE Statistics!Place[i - 1]
<1>5. \A i \in Statistics!Steps : (before(i))' = before(i)
  BY <1>2, <1>3
<1>6. (IF x = 1 THEN FALSE ELSE Statistics!Place'[x - 1]) = Statistics!Latest(Statistics!Place, FALSE)
  <2>1. CASE Statistics!Duration >= 1
    <3>1. x # 1 /\ x - 1 = Statistics!Duration /\ Statistics!Duration \in Statistics!Steps /\ Statistics!Duration # 0
      BY <1>1, <1>4, <2>1
    <3> QED
      BY <3>1, <1>2 DEF Statistics!Latest
  <2>2. CASE ~(Statistics!Duration >= 1)
    BY <1>4, <2>2 DEF Statistics!Latest
  <2> QED
    BY <2>1, <2>2
<1>7. \A i \in Statistics!Steps : i \in Statistics!Moved' <=> i \in Statistics!Moved
  BY <1>1, <1>2, <1>5 DEF Statistics!Moved
<1>8. x \in Statistics!Moved' <=> f.near # Statistics!Latest(Statistics!Place, FALSE)
  BY <1>1, <1>2, <1>6 DEF Statistics!Moved
<1>9. Statistics!Moved' \subseteq Statistics!Steps \cup {x} /\ Statistics!Moved \subseteq Statistics!Steps
  BY <1>1 DEF Statistics!Moved
<1>10. Statistics!Moved' = IF f.near # Statistics!Latest(Statistics!Place, FALSE) THEN Statistics!Moved \cup {x} ELSE Statistics!Moved
  <2> DEFINE c == f.near # Statistics!Latest(Statistics!Place, FALSE)
  <2>1. x \in Statistics!Moved' <=> c
    BY <1>8
  <2> HIDE DEF c
  <2>2. ASSUME c PROVE Statistics!Moved' = Statistics!Moved \cup {x}
    BY <1>1, <1>7, <1>9, <2>1, <2>2
  <2>3. ASSUME ~c PROVE Statistics!Moved' = Statistics!Moved
    BY <1>1, <1>7, <1>9, <2>1, <2>3
  <2>4. Statistics!Moved' = IF c THEN Statistics!Moved \cup {x} ELSE Statistics!Moved
    BY <2>2, <2>3
  <2> QED
    BY <2>4 DEF c
<1>11. Statistics!Quiet' = IF f.quiet THEN Statistics!Quiet \cup {x} ELSE Statistics!Quiet
  BY StatisticsContactSetsGrow
<1>12. Statistics!Quiet \subseteq Statistics!Steps
  BY DEF Statistics!Quiet
<1>13. (Statistics!Moved \cap Statistics!Quiet)' = IF f.near # Statistics!Latest(Statistics!Place, FALSE) /\ f.quiet
                             THEN (Statistics!Moved \cap Statistics!Quiet) \cup {x} ELSE Statistics!Moved \cap Statistics!Quiet
  BY <1>1, <1>9, <1>10, <1>11, <1>12
<1>14. \A i \in Statistics!Steps : i \in Statistics!Switched' <=> i \in Statistics!Switched
  BY <1>1, <1>3 DEF Statistics!Switched, Statistics!Later
<1>15. x \in Statistics!Switched' <=> Statistics!Duration >= 1 /\ (\/ f.left # v11[Statistics!Duration].left
                                             \/ f.right # v11[Statistics!Duration].right)
  BY <1>1, <1>4 DEF Statistics!Switched, Statistics!Later
<1>16. Statistics!Switched' \subseteq Statistics!Steps \cup {x} /\ Statistics!Switched \subseteq Statistics!Steps
  BY <1>1 DEF Statistics!Switched, Statistics!Later
<1>17. Statistics!Switched' = IF Statistics!Duration >= 1 /\ (\/ f.left # v11[Statistics!Duration].left
                                        \/ f.right # v11[Statistics!Duration].right)
                   THEN Statistics!Switched \cup {x} ELSE Statistics!Switched
  <2> DEFINE c == Statistics!Duration >= 1 /\ (\/ f.left # v11[Statistics!Duration].left
                                      \/ f.right # v11[Statistics!Duration].right)
  <2>1. x \in Statistics!Switched' <=> c
    BY <1>15
  <2> HIDE DEF c
  <2>2. ASSUME c PROVE Statistics!Switched' = Statistics!Switched \cup {x}
    BY <1>1, <1>14, <1>16, <2>1, <2>2
  <2>3. ASSUME ~c PROVE Statistics!Switched' = Statistics!Switched
    BY <1>1, <1>14, <1>16, <2>1, <2>3
  <2>4. Statistics!Switched' = IF c THEN Statistics!Switched \cup {x} ELSE Statistics!Switched
    BY <2>2, <2>3
  <2> QED
    BY <2>4 DEF c
<1> QED
  BY <1>10, <1>13, <1>17

\* The stationary samples alternate.
LEMMA StatisticsSignsAlternate ==
  ASSUME Statistics!EpisodeIs, NEW f \in Statistics!Frames, v11' = Append(v11, f), NEW x, x = Statistics!Duration + 1
  PROVE  /\ Statistics!Plus' = IF f.quiet /\ Statistics!Cardinality(Statistics!Quiet) % 2 = 0 THEN Statistics!Plus \cup {x} ELSE Statistics!Plus
         /\ Statistics!Minus' = IF f.quiet /\ Statistics!Cardinality(Statistics!Quiet) % 2 # 0 THEN Statistics!Minus \cup {x} ELSE Statistics!Minus
<1>1. Statistics!Steps' = Statistics!Steps \cup {x} /\ x \notin Statistics!Steps /\ Statistics!Duration \in Nat /\ Statistics!Steps = 1..Statistics!Duration
  BY StatisticsFrameAdded, StatisticsEpisodeHas
<1>2. Statistics!Quiet' = IF f.quiet THEN Statistics!Quiet \cup {x} ELSE Statistics!Quiet
  BY StatisticsContactSetsGrow
<1>3. Statistics!Quiet \subseteq Statistics!Steps
  BY DEF Statistics!Quiet
<1>4. \A i \in Statistics!Steps : i < x /\ ~ (x < i)
  BY <1>1
<1>5. \A i \in Statistics!Quiet : {j \in Statistics!Quiet' : j < i} = {j \in Statistics!Quiet : j < i}
  BY <1>2, <1>3, <1>4
<1>6. {j \in Statistics!Quiet' : j < x} = Statistics!Quiet
  <2>1. ~ (x < x)
    BY <1>1
  <2> QED
    BY <1>2, <1>3, <1>4, <2>1
<1>7. \A i \in Statistics!Quiet : i \in Statistics!Plus' <=> i \in Statistics!Plus
  BY <1>2, <1>5 DEF Statistics!Plus
<1>8. x \in Statistics!Plus' <=> f.quiet /\ Statistics!Cardinality(Statistics!Quiet) % 2 = 0
  <2>1. x \in Statistics!Quiet' <=> f.quiet
    BY <1>1, <1>2, <1>3
  <2> QED
    BY <2>1, <1>6 DEF Statistics!Plus
<1>9. Statistics!Plus' \subseteq Statistics!Quiet \cup {x} /\ Statistics!Plus \subseteq Statistics!Quiet /\ x \notin Statistics!Quiet
  BY <1>1, <1>2, <1>3 DEF Statistics!Plus
<1>10. Statistics!Plus' = IF f.quiet /\ Statistics!Cardinality(Statistics!Quiet) % 2 = 0 THEN Statistics!Plus \cup {x} ELSE Statistics!Plus
  <2>1. CASE x \in Statistics!Plus'
    <3>1. Statistics!Plus' = Statistics!Plus \cup {x}
      BY <2>1, <1>7, <1>9
    <3> QED
      BY <2>1, <3>1, <1>8
  <2>2. CASE x \notin Statistics!Plus'
    <3>1. Statistics!Plus' = Statistics!Plus
      BY <2>2, <1>7, <1>9
    <3> QED
      BY <2>2, <3>1, <1>8
  <2> QED
    BY <2>1, <2>2
<1>11. Statistics!Minus' = IF f.quiet /\ Statistics!Cardinality(Statistics!Quiet) % 2 # 0 THEN Statistics!Minus \cup {x} ELSE Statistics!Minus
  <2>1. Statistics!Minus' = Statistics!Quiet' \ Statistics!Plus' /\ Statistics!Minus = Statistics!Quiet \ Statistics!Plus
    BY DEF Statistics!Minus
  <2>2. CASE ~ f.quiet
    <3>1. Statistics!Quiet' = Statistics!Quiet /\ Statistics!Plus' = Statistics!Plus
      BY <2>2, <1>2, <1>10
    <3> QED
      BY <2>1, <2>2, <3>1
  <2>3. CASE f.quiet /\ Statistics!Cardinality(Statistics!Quiet) % 2 = 0
    <3>1. Statistics!Quiet' = Statistics!Quiet \cup {x} /\ Statistics!Plus' = Statistics!Plus \cup {x}
      BY <2>3, <1>2, <1>10
    <3> QED
      BY <2>1, <2>3, <3>1, <1>9
  <2>4. CASE f.quiet /\ Statistics!Cardinality(Statistics!Quiet) % 2 # 0
    <3>1. Statistics!Quiet' = Statistics!Quiet \cup {x} /\ Statistics!Plus' = Statistics!Plus
      BY <2>4, <1>2, <1>10
    <3> QED
      BY <2>1, <2>4, <3>1, <1>9
  <2> QED
    BY <2>2, <2>3, <2>4
<1> QED
  BY <1>10, <1>11

-----------------------------------------------------------------------------
\* A bounded set of numbers has a greatest and a least.
LEMMA StatisticsLeastOf ==
  ASSUME NEW S, S \subseteq Nat, S # {}
  PROVE  Statistics!Min(S) \in S /\ \A i \in S : Statistics!Min(S) <= i
<1>1. PICK x \in S : \A y \in S : ~ (<<y, x>> \in OpToRel(<, Nat))
  BY NatLessThanWellFounded, WFMin, Zenon
<1>2. \A y \in S : x <= y
  <2>1. \A y \in S : y \in Nat /\ x \in Nat /\ ~ (y < x)
    BY <1>1 DEF OpToRel
  <2> QED
    BY <2>1
<1> QED
  BY <1>2 DEF Statistics!Min

LEMMA StatisticsGreatestOf ==
  ASSUME NEW n \in Nat, NEW S, S \subseteq 0..n, S # {}
  PROVE  Statistics!Max(S) \in S /\ \A i \in S : i <= Statistics!Max(S)
<1> DEFINE T == {n - i : i \in S}
<1>1. T \subseteq Nat /\ T # {}
  <2>1. \A i \in S : n - i \in Nat
    OBVIOUS
  <2> QED
    BY <2>1
<1>2. Statistics!Min(T) \in T /\ \A y \in T : Statistics!Min(T) <= y
  <2> HIDE DEF T
  <2> QED
    BY <1>1, StatisticsLeastOf
<1>3. PICK i \in S : Statistics!Min(T) = n - i
  BY <1>2
<1>4. \A j \in S : n - j \in T
  OBVIOUS
<1>5. \A j \in S : i >= j
  <2> TAKE j \in S
  <2>1. n - i <= n - j
    BY <1>2, <1>3, <1>4
  <2>2. i \in Nat /\ j \in Nat
    OBVIOUS
  <2> QED
    BY <2>1, <2>2
<1>6. Statistics!Max(S) \in S /\ \A j \in S : Statistics!Max(S) >= j
  BY <1>5 DEF Statistics!Max
<1>7. \A j \in S : j \in Int
  OBVIOUS
<1> QED
  BY <1>6, <1>7

\* A later element is not the least, unless it is the only one.
LEMMA StatisticsLeastStands ==
  ASSUME NEW n \in Nat, NEW S, S \subseteq 1..n
  PROVE  /\ Statistics!Min(S \cup {n + 1}) = IF S = {} THEN n + 1 ELSE Statistics!Min(S)
         /\ S # {} => Statistics!Min(S) \in 1..n
<1>1. S # {} => Statistics!Min(S) \in S /\ \A i \in S : Statistics!Min(S) <= i
  <2>1. S \subseteq Nat
    OBVIOUS
  <2> QED
    BY <2>1, StatisticsLeastOf
<1> DEFINE T == S \cup {n + 1}
<1>2. CASE S = {}
  <2>1. T = {n + 1}
    BY <1>2
  <2>2. Statistics!Min(T) = n + 1
    BY <2>1, StatisticsMinIs
  <2> QED
    BY <1>2, <2>2
<1>3. CASE S # {}
  <2>1. Statistics!Min(S) \in S /\ \A i \in S : Statistics!Min(S) <= i
    BY <1>1, <1>3
  <2>2. Statistics!Min(S) \in T /\ \A i \in T : Statistics!Min(S) <= i
    <3>1. \A i \in S : i <= n + 1
      OBVIOUS
    <3>2. Statistics!Min(S) <= n + 1
      BY <2>1, <3>1
    <3> QED
      BY <2>1, <3>2
  <2>3. T \subseteq Int
    OBVIOUS
  <2>4. Statistics!Min(T) = Statistics!Min(S)
    <3> HIDE DEF T
    <3> QED
      BY <2>2, <2>3, StatisticsMinIs
  <2> QED
    BY <1>3, <2>1, <2>4
<1> QED
  BY <1>2, <1>3

-----------------------------------------------------------------------------
\* Runs of steps, by the length of the episode.
EndsAt(n, r, S) == r \in 0..n /\ (n - r + 1)..n \subseteq S /\ (r < n => n - r \notin S)
\* One more step: it joins S and the run at the end goes on, or the run is over.
Goes(n, r, S, q, T) ==
    /\ n \in Nat /\ S \subseteq 1..n /\ EndsAt(n, r, S)
    /\ \/ T = S /\ q = 0
       \/ T = S \cup {n + 1} /\ q = r + 1
RunsAt(n, S) == {0} \cup {m \in 1..n : \E i \in 0..(n - m) : (i + 1)..(i + m) \subseteq S}

\* The run at the end goes on or is over.
LEMMA StatisticsEndsGrow ==
  ASSUME NEW n \in Nat, NEW S, S \subseteq 1..n, NEW c \in BOOLEAN, NEW x, x = n + 1,
         NEW T, T = IF c THEN S \cup {x} ELSE S, NEW r, EndsAt(n, r, S)
  PROVE  EndsAt(n + 1, IF c THEN r + 1 ELSE 0, T)
<1>1. r \in 0..n /\ (n - r + 1)..n \subseteq S /\ (r < n => n - r \notin S)
  BY DEF EndsAt
<1>2. CASE c
  <2>1. r + 1 \in 0..(n + 1)
    BY <1>1
  <2>2. ((n + 1) - (r + 1) + 1)..(n + 1) \subseteq T
    <3> SUFFICES ASSUME NEW j \in ((n + 1) - (r + 1) + 1)..(n + 1) PROVE j \in T
      OBVIOUS
    <3>1. j = x \/ j \in (n - r + 1)..n
      BY <1>1
    <3> QED
      BY <1>1, <1>2, <3>1
  <2>3. r + 1 < n + 1 => (n + 1) - (r + 1) \notin T
    <3> SUFFICES ASSUME r + 1 < n + 1 PROVE (n + 1) - (r + 1) \notin T
      OBVIOUS
    <3>1. (n + 1) - (r + 1) = n - r /\ r < n /\ n - r # x
      BY <1>1
    <3> QED
      BY <1>1, <1>2, <3>1
  <2> QED
    BY <1>2, <2>1, <2>2, <2>3 DEF EndsAt
<1>3. CASE ~c
  <2>1. T = S /\ x \notin S
    BY <1>3
  <2>2. ((n + 1) - 0 + 1)..(n + 1) = {} /\ (n + 1) - 0 = x /\ 0 \in 0..(n + 1)
    OBVIOUS
  <2> QED
    BY <1>3, <2>1, <2>2 DEF EndsAt
<1> QED
  BY <1>2, <1>3

\* The longest run is the one before or the one that ends now.
LEMMA StatisticsLongestGrows ==
  ASSUME NEW n, NEW S, NEW r, NEW T, NEW q, Goes(n, r, S, q, T)
  PROVE  Statistics!Max(RunsAt(n + 1, T)) = Statistics!Max({Statistics!Max(RunsAt(n, S)), q}) /\ r <= Statistics!Max(RunsAt(n, S))
         /\ Statistics!Max(RunsAt(n, S)) \in Nat
<1> DEFINE l == Statistics!Max(RunsAt(n, S))
           x == n + 1
           c == q # 0
<1>1. /\ n \in Nat /\ S \subseteq 1..n /\ EndsAt(n, r, S)
      /\ T = (IF c THEN S \cup {x} ELSE S) /\ q = (IF c THEN r + 1 ELSE 0)
  BY DEF EndsAt, Goes
<1> USE <1>1
<1>2. r \in 0..n /\ (n - r + 1)..n \subseteq S /\ (r < n => n - r \notin S)
  BY DEF EndsAt
<1>3. RunsAt(n, S) \subseteq 0..n /\ 0 \in RunsAt(n, S)
  BY DEF RunsAt
<1>4. l \in RunsAt(n, S) /\ \A k \in RunsAt(n, S) : k <= l
  BY <1>3, StatisticsGreatestOf
<1>5. l \in 0..n
  BY <1>3, <1>4
<1> HIDE DEF l
<1>6. q \in Nat
  BY <1>2
<1>7. l \in RunsAt(n + 1, T)
  <2>1. CASE l = 0
    BY <2>1 DEF RunsAt
  <2>2. CASE l # 0
    <3>1. PICK i \in 0..(n - l) : (i + 1)..(i + l) \subseteq S
      BY <1>4, <2>2 DEF RunsAt
    <3>2. l \in 1..(n + 1) /\ i \in 0..((n + 1) - l)
      BY <1>5, <2>2, <3>1
    <3>3. (i + 1)..(i + l) \subseteq T
      BY <3>1
    <3> QED
      BY <3>2, <3>3 DEF RunsAt
  <2> QED
    BY <2>1, <2>2
<1>8. q \in RunsAt(n + 1, T)
  <2>1. CASE ~c
    BY <2>1 DEF RunsAt
  <2>2. CASE c
    <3>1. q = r + 1 /\ q \in 1..(n + 1) /\ n - r \in 0..((n + 1) - q)
      BY <1>2, <2>2
    <3>2. ((n - r) + 1)..((n - r) + q) \subseteq T
      <4> SUFFICES ASSUME NEW j \in ((n - r) + 1)..((n - r) + q) PROVE j \in T
        OBVIOUS
      <4>1. j = x \/ j \in (n - r + 1)..n
        BY <1>2, <3>1
      <4> QED
        BY <1>2, <2>2, <4>1
    <3> QED
      BY <3>1, <3>2 DEF RunsAt
  <2> QED
    BY <2>1, <2>2
<1>9. ASSUME NEW k \in RunsAt(n + 1, T) PROVE k \in Nat /\ (k <= l \/ k <= q)
  <2>1. CASE k = 0
    BY <1>6, <2>1
  <2>2. CASE k # 0
    <3>1. k \in 1..(n + 1) /\ \E i \in 0..((n + 1) - k) : (i + 1)..(i + k) \subseteq T
      BY <1>9, <2>2 DEF RunsAt
    <3>2. PICK i \in 0..((n + 1) - k) : (i + 1)..(i + k) \subseteq T
      BY <3>1
    <3>3. CASE i + k <= n
      <4>1. (i + 1)..(i + k) \subseteq S
        <5> SUFFICES ASSUME NEW j \in (i + 1)..(i + k) PROVE j \in S
          OBVIOUS
        <5>1. j \in T /\ j # x
          BY <3>1, <3>2, <3>3
        <5> QED
          BY <5>1
      <4>2. k \in 1..n /\ i \in 0..(n - k)
        BY <3>1, <3>3
      <4>3. k \in RunsAt(n, S)
        BY <4>1, <4>2 DEF RunsAt
      <4> QED
        BY <1>4, <3>1, <4>3
    <3>4. CASE ~(i + k <= n)
      <4>1. i + k = x /\ x \in (i + 1)..(i + k)
        BY <3>1, <3>2, <3>4
      <4>2. c
        BY <3>2, <4>1
      <4>3. k - 1 <= r
        <5> SUFFICES ASSUME r < k - 1 PROVE FALSE
          BY <1>2, <3>1
        <5>1. n - r \in (i + 1)..(i + k) /\ r < n /\ n - r # x
          BY <1>2, <3>1, <4>1
        <5> QED
          BY <1>2, <3>2, <5>1
      <4> QED
        BY <1>2, <3>1, <4>2, <4>3
    <3> QED
      BY <3>3, <3>4
  <2> QED
    BY <2>1, <2>2
<1>10. r <= l
  <2>1. CASE r = 0
    BY <1>5, <2>1
  <2>2. CASE r # 0
    <3>1. r \in 1..n /\ n - r \in 0..(n - r) /\ (n - r) + r = n
      BY <1>2, <2>2
    <3>2. ((n - r) + 1)..((n - r) + r) \subseteq S
      BY <1>2, <3>1
    <3>3. r \in RunsAt(n, S)
      BY <3>1, <3>2 DEF RunsAt
    <3> QED
      BY <1>4, <3>3
  <2> QED
    BY <2>1, <2>2
<1>11. RunsAt(n + 1, T) \subseteq Int
  BY <1>9
<1> HIDE <1>1 DEF x, c
<1>12. CASE l >= q
  <2>1. \A k \in RunsAt(n + 1, T) : k <= l
    BY <1>5, <1>6, <1>9, <1>12
  <2>2. Statistics!Max(RunsAt(n + 1, T)) = l
    BY <1>7, <1>11, <2>1, StatisticsMaxIs
  <2>3. Statistics!Max({l, q}) = l
    BY <1>5, <1>6, <1>12, StatisticsMaxOfTwo
  <2> QED
    BY <1>5, <1>10, <2>2, <2>3 DEF l
<1>13. CASE ~(l >= q)
  <2>1. \A k \in RunsAt(n + 1, T) : k <= q
    BY <1>5, <1>6, <1>9, <1>13
  <2>2. Statistics!Max(RunsAt(n + 1, T)) = q
    BY <1>8, <1>11, <2>1, StatisticsMaxIs
  <2>3. Statistics!Max({l, q}) = q
    BY <1>5, <1>6, <1>13, StatisticsMaxOfTwo
  <2> QED
    BY <1>5, <1>10, <2>2, <2>3 DEF l
<1> QED
  BY <1>12, <1>13

-----------------------------------------------------------------------------
\* A mask is a factor.
LEMMA StatisticsWeighted ==
  ASSUME NEW a \in Int, NEW c \in BOOLEAN
  PROVE  a * Statistics!Bit(c) = IF c THEN a ELSE 0
BY DEF Statistics!Bit

\* The action history of the episode.
LEMMA StatisticsHistoryHas ==
  ASSUME Statistics!EpisodeIs, Statistics!HistoryIs
  PROVE  /\ v4.count = Statistics!Duration /\ v4.last \in {0, 1} /\ v4.before \in {0, 1}
         /\ Statistics!Duration >= 1 => v4.last = Statistics!Action[Statistics!Duration]
         /\ Statistics!Duration >= 2 => v4.before = Statistics!Action[Statistics!Duration - 1]
<1>1. /\ Statistics!Duration \in Nat /\ Statistics!Steps = 1..Statistics!Duration
      /\ \A i \in Statistics!Steps : v11[i].act \in {0, 1}
  BY StatisticsEpisodeHas
<1>2. \A i \in Statistics!Steps : Statistics!Action[i] \in {0, 1}
  BY <1>1 DEF Statistics!Action
<1>3. /\ v4.count = Statistics!Duration /\ v4.last = Statistics!Latest(Statistics!Action, 0)
      /\ v4.before = IF Statistics!Duration < 2 THEN 0 ELSE Statistics!Action[Statistics!Duration - 1]
  BY DEF Statistics!HistoryIs
<1>4. /\ Statistics!Duration >= 1 => Statistics!Duration \in Statistics!Steps /\ Statistics!Duration # 0
      /\ ~(Statistics!Duration >= 1) => Statistics!Duration = 0
      /\ Statistics!Duration >= 2 => Statistics!Duration - 1 \in Statistics!Steps /\ ~(Statistics!Duration < 2)
      /\ ~(Statistics!Duration >= 2) => Statistics!Duration < 2
  BY <1>1
<1>5. v4.last \in {0, 1} /\ (Statistics!Duration >= 1 => v4.last = Statistics!Action[Statistics!Duration])
  BY <1>2, <1>3, <1>4 DEF Statistics!Latest
<1>6. v4.before \in {0, 1} /\ (Statistics!Duration >= 2 => v4.before = Statistics!Action[Statistics!Duration - 1])
  BY <1>2, <1>3, <1>4
<1> QED
  BY <1>3, <1>5, <1>6

LEMMA StatisticsHistoryKept ==
  ASSUME Statistics!EpisodeIs, Statistics!HistoryIs, v2, NEW f \in Statistics!Frames,
         v11' = Append(v11, f), v4' = Statistics!History(f)
  PROVE  Statistics!HistoryIs'
<1> DEFINE n == Statistics!Duration
           x == Statistics!Duration + 1
<1>1. n \in Nat /\ Statistics!Steps = 1..n /\ Statistics!Duration' = x
  BY StatisticsEpisodeHas, StatisticsFrameAdded
<1>2. (\A i \in Statistics!Steps : Statistics!Action'[i] = Statistics!Action[i]) /\ Statistics!Action'[x] = f.act
  BY StatisticsValuesGrow
<1>3. v4' = [last |-> f.act, before |-> v4.last, count |-> v4.count + 1]
  BY DEF Statistics!History
<1>4. /\ v4.count = n /\ (n >= 1 => v4.last = Statistics!Action[n])
      /\ ~(n >= 1) => v4.last = 0
  BY <1>1, StatisticsHistoryHas DEF Statistics!HistoryIs, Statistics!Latest
<1>5. Statistics!Latest(Statistics!Action, 0)' = f.act
  <2>1. Statistics!Duration' # 0
    BY <1>1
  <2> QED
    BY <1>1, <1>2, <2>1 DEF Statistics!Latest
<1>6. (IF Statistics!Duration' < 2 THEN 0 ELSE Statistics!Action'[Statistics!Duration' - 1]) = v4.last
  <2>1. CASE n >= 1
    <3>1. ~(Statistics!Duration' < 2) /\ Statistics!Duration' - 1 = n /\ n \in Statistics!Steps
      BY <1>1, <2>1
    <3> QED
      BY <3>1, <2>1, <1>2, <1>4
  <2>2. CASE ~(n >= 1)
    <3>1. Statistics!Duration' < 2
      BY <1>1, <2>2
    <3> QED
      BY <3>1, <2>2, <1>4
  <2> QED
    BY <2>1, <2>2
<1>7. v4' = [last |-> Statistics!Latest(Statistics!Action, 0)', count |-> Statistics!Duration',
                  before |-> IF Statistics!Duration' < 2 THEN 0 ELSE Statistics!Action'[Statistics!Duration' - 1]]
  BY <1>1, <1>3, <1>4, <1>5, <1>6
<1> QED
  BY <1>7 DEF Statistics!HistoryIs

\* The two differences of the new frame, where they are taken.
LEMMA StatisticsDifferences ==
  ASSUME Statistics!EpisodeIs, Statistics!HistoryIs, v2, NEW f \in Statistics!Frames, v11' = Append(v11, f),
         NEW x, x = Statistics!Duration + 1
  PROVE  /\ Statistics!Delta(f) \in 0..4 /\ Statistics!Delta2(f) \in 0..4
         /\ Statistics!Duration >= 1 => Statistics!Change'[x] = Statistics!Delta(f)
         /\ Statistics!Duration >= 2 => Statistics!Bend'[x] = Statistics!Delta2(f)
         /\ (v4.count >= 1) = (Statistics!Duration >= 1) /\ (v4.count >= 2) = (Statistics!Duration >= 2)
<1>1. /\ v4.count = Statistics!Duration /\ v4.last \in {0, 1} /\ v4.before \in {0, 1}
      /\ Statistics!Duration >= 1 => v4.last = Statistics!Action[Statistics!Duration]
      /\ Statistics!Duration >= 2 => v4.before = Statistics!Action[Statistics!Duration - 1]
  BY StatisticsHistoryHas
<1>2. /\ Statistics!Duration >= 1 => Statistics!Change'[x] = Statistics!Sq(f.act - Statistics!Action[Statistics!Duration])
      /\ Statistics!Duration >= 2 => Statistics!Bend'[x] = Statistics!Sq(f.act - 2 * Statistics!Action[Statistics!Duration] + Statistics!Action[Statistics!Duration - 1])
      /\ f.act \in {0, 1}
  BY StatisticsValuesGrow
<1>3. Statistics!Delta(f) = Statistics!Sq(f.act - v4.last)
  BY DEF Statistics!Delta
<1>4. Statistics!Delta2(f) = Statistics!Sq(f.act - 2 * v4.last + v4.before)
  BY DEF Statistics!Delta2
<1>5. \A a, b, c \in {0, 1} : Statistics!Sq(a - b) \in 0..4 /\ Statistics!Sq(a - 2 * b + c) \in 0..4
  BY DEF Statistics!Sq
<1>6. Statistics!Delta(f) \in 0..4 /\ Statistics!Delta2(f) \in 0..4
  BY <1>1, <1>2, <1>3, <1>4, <1>5
<1>7. Statistics!Duration >= 2 => Statistics!Duration >= 1
  BY StatisticsEpisodeHas
<1> QED
  BY <1>1, <1>2, <1>3, <1>4, <1>6, <1>7

LEMMA StatisticsRatesKept ==
  ASSUME Statistics!EpisodeIs, Statistics!HistoryIs, Statistics!RatesAre, v2, NEW f \in Statistics!Frames,
         v11' = Append(v11, f), v5' = Statistics!Rates(f)
  PROVE  Statistics!RatesAre'
<1> DEFINE x == Statistics!Duration + 1
           one == Statistics!Duration >= 1
           two == Statistics!Duration >= 2
           S == Statistics!Later(Statistics!Steps)
           R == Statistics!Third(Statistics!Steps)
<1>1. Statistics!Duration \in Nat /\ Statistics!IsFiniteSet(Statistics!Steps) /\ x \notin Statistics!Steps /\ one \in BOOLEAN /\ two \in BOOLEAN
  BY StatisticsEpisodeHas, StatisticsFrameAdded
<1>2. S' = IF one THEN S \cup {x} ELSE S
  BY StatisticsLaterSetsGrow
<1>3. R' = IF two THEN R \cup {x} ELSE R
  BY StatisticsLaterSetsGrow
<1>4. S \in SUBSET Statistics!Steps /\ R \in SUBSET Statistics!Steps
  BY DEF Statistics!Later, Statistics!Third
<1>5. Statistics!IsFiniteSet(S) /\ Statistics!IsFiniteSet(R) /\ x \notin S /\ x \notin R
  BY <1>1, <1>4, FS_Subset, StatisticsFinite
<1>6. /\ \A i \in S : Statistics!Change[i] \in 0..4 /\ Statistics!Change'[i] = Statistics!Change[i]
      /\ \A i \in R : Statistics!Bend[i] \in 0..4 /\ Statistics!Bend'[i] = Statistics!Bend[i]
  BY StatisticsValuesGrow
<1>7. /\ Statistics!Delta(f) \in 0..4 /\ Statistics!Delta2(f) \in 0..4
      /\ one => Statistics!Change'[x] = Statistics!Delta(f)
      /\ two => Statistics!Bend'[x] = Statistics!Delta2(f)
      /\ (v4.count >= 1) = one /\ (v4.count >= 2) = two
  BY StatisticsDifferences
<1>8. v5' = [first |-> v5.first + Statistics!Delta(f) * Statistics!Bit(v2 /\ v4.count >= 1),
                firstN |-> v5.firstN + Statistics!Bit(v2 /\ v4.count >= 1),
                second |-> v5.second + Statistics!Delta2(f) * Statistics!Bit(v2 /\ v4.count >= 2),
                secondN |-> v5.secondN + Statistics!Bit(v2 /\ v4.count >= 2)]
  BY DEF Statistics!Rates
<1>9. /\ v5.first = Statistics!Total(S, Statistics!Change) /\ v5.firstN = Statistics!Cardinality(S)
      /\ v5.second = Statistics!Total(R, Statistics!Bend) /\ v5.secondN = Statistics!Cardinality(R)
  BY DEF Statistics!RatesAre
<1> HIDE DEF x, one, two, S, R
<1>10. PICK o \in {0, 1} : o = Statistics!Bit(one) /\ (o = 1 <=> one)
  BY <1>1, StatisticsBitIs
<1>11. PICK t \in {0, 1} : t = Statistics!Bit(two) /\ (t = 1 <=> two)
  BY <1>1, StatisticsBitIs
<1>12. v5' = [first |-> v5.first + Statistics!Delta(f) * o, firstN |-> v5.firstN + o,
                 second |-> v5.second + Statistics!Delta2(f) * t, secondN |-> v5.secondN + t]
  <2>1. Statistics!Bit(v2 /\ v4.count >= 1) = o /\ Statistics!Bit(v2 /\ v4.count >= 2) = t
    BY <1>7, <1>10, <1>11 DEF Statistics!Bit
  <2> QED
    BY <1>8, <2>1
<1>13. S' = (IF o = 1 THEN S \cup {x} ELSE S) /\ R' = (IF t = 1 THEN R \cup {x} ELSE R)
  BY <1>2, <1>3, <1>10, <1>11
<1>14. (o = 1 => Statistics!Change'[x] = Statistics!Delta(f)) /\ (t = 1 => Statistics!Bend'[x] = Statistics!Delta2(f))
  BY <1>7, <1>10, <1>11
<1>15. Statistics!Total(S', Statistics!Change') = Statistics!Total(S, Statistics!Change) + Statistics!Delta(f) * o
  BY <1>5, <1>6, <1>7, <1>13, <1>14, StatisticsAccumulated
<1>16. Statistics!Total(R', Statistics!Bend') = Statistics!Total(R, Statistics!Bend) + Statistics!Delta2(f) * t
  BY <1>5, <1>6, <1>7, <1>13, <1>14, StatisticsAccumulated
<1>17. Statistics!Cardinality(S') = Statistics!Cardinality(S) + o /\ Statistics!Cardinality(R') = Statistics!Cardinality(R) + t
  BY <1>5, <1>13, StatisticsTallied
<1>18. v5' = [first |-> Statistics!Total(S', Statistics!Change'), firstN |-> Statistics!Cardinality(S'),
                 second |-> Statistics!Total(R', Statistics!Bend'), secondN |-> Statistics!Cardinality(R')]
  BY <1>9, <1>12, <1>15, <1>16, <1>17
<1> QED
  BY <1>18 DEF Statistics!RatesAre, S, R

\* The greatest of one more.
LEMMA StatisticsMaxAdded ==
  ASSUME NEW n \in Nat, NEW S, S \subseteq 0..n, S # {}, NEW y \in 0..n
  PROVE  Statistics!Max(S \cup {y}) = Statistics!Max({Statistics!Max(S), y})
<1>1. Statistics!Max(S) \in S /\ \A i \in S : i <= Statistics!Max(S)
  BY StatisticsGreatestOf
<1> DEFINE m == Statistics!Max(S)
<1>2. m \in 0..n /\ m \in S /\ \A i \in S : i <= m
  BY <1>1
<1> HIDE DEF m
<1>3. S \cup {y} \subseteq Int /\ m \in Int /\ y \in Int
  BY <1>2
<1>4. CASE m >= y
  <2>1. \A i \in S \cup {y} : i <= m
    BY <1>2, <1>3, <1>4
  <2>2. Statistics!Max(S \cup {y}) = m
    BY <1>2, <1>3, <2>1, StatisticsMaxIs
  <2>3. Statistics!Max({m, y}) = m
    BY <1>3, <1>4, StatisticsMaxOfTwo
  <2> QED
    BY <2>2, <2>3 DEF m
<1>5. CASE ~(m >= y)
  <2>1. \A i \in S \cup {y} : i <= y
    BY <1>2, <1>3, <1>5
  <2>2. Statistics!Max(S \cup {y}) = y
    BY <1>3, <2>1, StatisticsMaxIs
  <2>3. Statistics!Max({m, y}) = y
    BY <1>3, <1>5, StatisticsMaxOfTwo
  <2> QED
    BY <2>2, <2>3 DEF m
<1> QED
  BY <1>4, <1>5

LEMMA StatisticsPeakGrows ==
  ASSUME Statistics!EpisodeIs, NEW f \in Statistics!Frames, v11' = Append(v11, f)
  PROVE  Statistics!Max({0} \cup {Statistics!Action[i] : i \in Statistics!Steps})'
           = Statistics!Max({Statistics!Max({0} \cup {Statistics!Action[i] : i \in Statistics!Steps}), f.act})
<1> DEFINE P == {0} \cup {Statistics!Action[i] : i \in Statistics!Steps}
           x == Statistics!Duration + 1
<1>1. /\ \A i \in Statistics!Steps : Statistics!Action[i] \in {0, 1} /\ Statistics!Action'[i] = Statistics!Action[i]
      /\ Statistics!Action'[x] = f.act /\ f.act \in {0, 1}
  BY StatisticsValuesGrow
<1>2. Statistics!Steps' = Statistics!Steps \cup {x}
  BY StatisticsFrameAdded
<1>3. P \subseteq 0..1 /\ P # {} /\ f.act \in 0..1
  BY <1>1
<1>4. P' = P \cup {f.act}
  <2>1. {Statistics!Action'[i] : i \in Statistics!Steps'} = {Statistics!Action[i] : i \in Statistics!Steps} \cup {f.act}
    BY <1>1, <1>2
  <2> QED
    BY <2>1
<1> HIDE DEF P
<1>5. Statistics!Max(P') = Statistics!Max({Statistics!Max(P), f.act})
  <2>1. 1 \in Nat
    OBVIOUS
  <2>2. Statistics!Max(P \cup {f.act}) = Statistics!Max({Statistics!Max(P), f.act})
    BY <1>3, <2>1, StatisticsMaxAdded
  <2> QED
    BY <1>4, <2>2
<1> QED
  BY <1>5 DEF P

\* The frames of the episode are finitely many, and so are those of its parts.
LEMMA StatisticsPartsAreFinite ==
  ASSUME Statistics!EpisodeIs, NEW x, x = Statistics!Duration + 1, NEW S \in SUBSET Statistics!Steps
  PROVE  Statistics!IsFiniteSet(S) /\ x \notin S
<1>1. Statistics!IsFiniteSet(Statistics!Steps) /\ x \notin Statistics!Steps
  <2>1. Statistics!Duration \in Nat /\ Statistics!Steps = 1..Statistics!Duration /\ Statistics!IsFiniteSet(Statistics!Steps)
    BY StatisticsEpisodeHas
  <2> QED
    BY <2>1
<1> QED
  BY <1>1, FS_Subset, StatisticsFinite

LEMMA StatisticsTotalsKept ==
  ASSUME Statistics!EpisodeIs, Statistics!TotalsAre, v2, NEW f \in Statistics!Frames,
         v11' = Append(v11, f), v7' = Statistics!Totals(f)
  PROVE  Statistics!TotalsAre'
<1> DEFINE x == Statistics!Duration + 1
           peak == Statistics!Max({0} \cup {Statistics!Action[i] : i \in Statistics!Steps})
<1>1. /\ Statistics!Duration \in Nat /\ Statistics!Steps = 1..Statistics!Duration /\ Statistics!Duration' = x
      /\ Statistics!Steps' = Statistics!Steps \cup {x} /\ x \notin Statistics!Steps /\ Statistics!IsFiniteSet(Statistics!Steps)
  BY StatisticsEpisodeHas, StatisticsFrameAdded
<1>2. f.left \in BOOLEAN /\ f.right \in BOOLEAN /\ f.near \in BOOLEAN /\ f.act \in {0, 1}
  BY DEF Statistics!Frames, Statistics!Acts
<1>3. /\ \A i \in Statistics!Steps : Statistics!Action[i] \in 0..4 /\ Statistics!Action'[i] = Statistics!Action[i]
      /\ Statistics!Action'[x] = f.act /\ Statistics!Place'[x] = f.near /\ f.act \in 0..4
  BY StatisticsValuesGrow
<1>4. /\ Statistics!Both' = IF f.left /\ f.right THEN Statistics!Both \cup {x} ELSE Statistics!Both
      /\ Statistics!LeftOnly' = IF f.left /\ ~f.right THEN Statistics!LeftOnly \cup {x} ELSE Statistics!LeftOnly
      /\ Statistics!RightOnly' = IF ~f.left /\ f.right THEN Statistics!RightOnly \cup {x} ELSE Statistics!RightOnly
      /\ Statistics!Airborne' = IF ~f.left /\ ~f.right THEN Statistics!Airborne \cup {x} ELSE Statistics!Airborne
  BY StatisticsContactSetsGrow
<1>5. Statistics!Moved' = IF f.near # Statistics!Latest(Statistics!Place, FALSE) THEN Statistics!Moved \cup {x} ELSE Statistics!Moved
  BY StatisticsPathSetsGrow
<1>6. /\ Statistics!Both \in SUBSET Statistics!Steps /\ Statistics!LeftOnly \in SUBSET Statistics!Steps /\ Statistics!RightOnly \in SUBSET Statistics!Steps
      /\ Statistics!Airborne \in SUBSET Statistics!Steps /\ Statistics!Moved \in SUBSET Statistics!Steps
  BY DEF Statistics!Both, Statistics!LeftOnly, Statistics!RightOnly, Statistics!Airborne,
     Statistics!Moved
<1>7. \A S \in SUBSET Statistics!Steps : Statistics!IsFiniteSet(S) /\ x \notin S
  BY StatisticsPartsAreFinite
<1>8. peak' = Statistics!Max({peak, f.act})
  BY StatisticsPeakGrows
<1>9. /\ v7.frames = Statistics!Duration /\ v7.sum = Statistics!Total(Statistics!Steps, Statistics!Action) /\ v7.peak = peak
      /\ v7.both = Statistics!Cardinality(Statistics!Both) /\ v7.leftOnly = Statistics!Cardinality(Statistics!LeftOnly)
      /\ v7.rightOnly = Statistics!Cardinality(Statistics!RightOnly) /\ v7.airborne = Statistics!Cardinality(Statistics!Airborne)
      /\ v7.path = Statistics!Cardinality(Statistics!Moved) /\ v7.place = Statistics!Latest(Statistics!Place, FALSE)
  <2>1. v7 = [frames |-> Statistics!Duration, sum |-> Statistics!Total(Statistics!Steps, Statistics!Action), peak |-> peak,
                  both |-> Statistics!Cardinality(Statistics!Both), leftOnly |-> Statistics!Cardinality(Statistics!LeftOnly),
                  rightOnly |-> Statistics!Cardinality(Statistics!RightOnly), airborne |-> Statistics!Cardinality(Statistics!Airborne),
                  path |-> Statistics!Cardinality(Statistics!Moved), place |-> v7.place]
    BY DEF Statistics!TotalsAre
  <2>2. v7.place = Statistics!Latest(Statistics!Place, FALSE)
    BY DEF Statistics!TotalsAre
  <2> HIDE DEF peak
  <2> QED
    BY <2>1, <2>2
<1>10. v7' = [frames |-> v7.frames + Statistics!Bit(v2),
                  sum |-> v7.sum + f.act * Statistics!Bit(v2),
                  peak |-> Statistics!Max({v7.peak, IF v2 THEN f.act ELSE 0}),
                  both |-> v7.both + Statistics!Bit(f.left /\ f.right) * Statistics!Bit(v2),
                  leftOnly |-> v7.leftOnly + Statistics!Bit(f.left /\ ~f.right) * Statistics!Bit(v2),
                  rightOnly |-> v7.rightOnly + Statistics!Bit(f.right /\ ~f.left) * Statistics!Bit(v2),
                  airborne |-> v7.airborne + Statistics!Bit(~f.left /\ ~f.right) * Statistics!Bit(v2),
                  path |-> v7.path + Statistics!Bit(f.near # v7.place) * Statistics!Bit(v2),
                  place |-> f.near]
  BY DEF Statistics!Totals
<1>11. Statistics!Latest(Statistics!Place, FALSE)' = f.near
  <2>1. Statistics!Duration' # 0
    BY <1>1
  <2> QED
    BY <1>1, <1>3, <2>1 DEF Statistics!Latest
<1> HIDE DEF x, peak
<1>12. PICK u \in {0, 1} : u = Statistics!Bit(v2) /\ u = 1
  BY DEF Statistics!Bit
<1>13. PICK b \in {0, 1} : b = Statistics!Bit(f.left /\ f.right) /\ (b = 1 <=> f.left /\ f.right)
  BY StatisticsBitIs
<1>14. PICK l \in {0, 1} : l = Statistics!Bit(f.left /\ ~f.right) /\ (l = 1 <=> f.left /\ ~f.right)
  BY StatisticsBitIs
<1>15. PICK r \in {0, 1} : r = Statistics!Bit(f.right /\ ~f.left) /\ (r = 1 <=> ~f.left /\ f.right)
  BY StatisticsBitIs
<1>16. PICK o \in {0, 1} : o = Statistics!Bit(~f.left /\ ~f.right) /\ (o = 1 <=> ~f.left /\ ~f.right)
  BY StatisticsBitIs
<1>17. PICK p \in {0, 1} : p = Statistics!Bit(f.near # v7.place)
                           /\ (p = 1 <=> f.near # Statistics!Latest(Statistics!Place, FALSE))
  BY <1>9, StatisticsBitIs
<1>18. v7' = [frames |-> v7.frames + 1, sum |-> v7.sum + f.act * u,
                  peak |-> Statistics!Max({v7.peak, f.act}), both |-> v7.both + b,
                  leftOnly |-> v7.leftOnly + l, rightOnly |-> v7.rightOnly + r,
                  airborne |-> v7.airborne + o, path |-> v7.path + p, place |-> f.near]
  <2>1. \A y \in {0, 1} : y * Statistics!Bit(v2) = y
    BY DEF Statistics!Bit
  <2>2. /\ Statistics!Bit(v2) = 1
        /\ Statistics!Bit(f.left /\ f.right) * Statistics!Bit(v2) = b
        /\ Statistics!Bit(f.left /\ ~f.right) * Statistics!Bit(v2) = l
        /\ Statistics!Bit(f.right /\ ~f.left) * Statistics!Bit(v2) = r
        /\ Statistics!Bit(~f.left /\ ~f.right) * Statistics!Bit(v2) = o
        /\ Statistics!Bit(f.near # v7.place) * Statistics!Bit(v2) = p
    BY <2>1, <1>12, <1>13, <1>14, <1>15, <1>16, <1>17
  <2>3. (IF v2 THEN f.act ELSE 0) = f.act
    OBVIOUS
  <2> QED
    BY <1>10, <1>12, <2>2, <2>3
<1>19. Statistics!Total(Statistics!Steps', Statistics!Action') = Statistics!Total(Statistics!Steps, Statistics!Action) + f.act * u
  <2>1. Statistics!Steps' = IF u = 1 THEN Statistics!Steps \cup {x} ELSE Statistics!Steps
    BY <1>1, <1>12
  <2>2. \A i \in Statistics!Steps : Statistics!Action[i] \in 0..4 /\ Statistics!Action'[i] = Statistics!Action[i]
    BY <1>3
  <2>3. f.act \in 0..4 /\ (u = 1 => Statistics!Action'[x] = f.act)
    BY <1>3
  <2>4. Statistics!IsFiniteSet(Statistics!Steps) /\ x \notin Statistics!Steps
    BY <1>1
  <2> QED
    BY <2>1, <2>2, <2>3, <2>4, StatisticsAccumulated
<1>20. Statistics!Cardinality(Statistics!Both') = Statistics!Cardinality(Statistics!Both) + b
  <2>1. Statistics!Both' = IF b = 1 THEN Statistics!Both \cup {x} ELSE Statistics!Both
    BY <1>4, <1>13
  <2> QED
    BY <2>1, <1>6, <1>7, StatisticsTallied
<1>21. Statistics!Cardinality(Statistics!LeftOnly') = Statistics!Cardinality(Statistics!LeftOnly) + l
  <2>1. Statistics!LeftOnly' = IF l = 1 THEN Statistics!LeftOnly \cup {x} ELSE Statistics!LeftOnly
    BY <1>4, <1>14
  <2> QED
    BY <2>1, <1>6, <1>7, StatisticsTallied
<1>22. Statistics!Cardinality(Statistics!RightOnly') = Statistics!Cardinality(Statistics!RightOnly) + r
  <2>1. Statistics!RightOnly' = IF r = 1 THEN Statistics!RightOnly \cup {x} ELSE Statistics!RightOnly
    BY <1>4, <1>15
  <2> QED
    BY <2>1, <1>6, <1>7, StatisticsTallied
<1>23. Statistics!Cardinality(Statistics!Airborne') = Statistics!Cardinality(Statistics!Airborne) + o
  <2>1. Statistics!Airborne' = IF o = 1 THEN Statistics!Airborne \cup {x} ELSE Statistics!Airborne
    BY <1>4, <1>16
  <2> QED
    BY <2>1, <1>6, <1>7, StatisticsTallied
<1>24. Statistics!Cardinality(Statistics!Moved') = Statistics!Cardinality(Statistics!Moved) + p
  <2>1. Statistics!Moved' = IF p = 1 THEN Statistics!Moved \cup {x} ELSE Statistics!Moved
    BY <1>5, <1>17
  <2> QED
    BY <2>1, <1>6, <1>7, StatisticsTallied
<1>25. Statistics!Duration' = v7.frames + 1
  BY <1>1, <1>9 DEF x
<1>26. v7' = [frames |-> Statistics!Duration', sum |-> Statistics!Total(Statistics!Steps', Statistics!Action'), peak |-> peak',
                  both |-> Statistics!Cardinality(Statistics!Both'), leftOnly |-> Statistics!Cardinality(Statistics!LeftOnly'),
                  rightOnly |-> Statistics!Cardinality(Statistics!RightOnly'), airborne |-> Statistics!Cardinality(Statistics!Airborne'),
                  path |-> Statistics!Cardinality(Statistics!Moved'), place |-> v7'.place]
  BY <1>8, <1>9, <1>18, <1>19, <1>20, <1>21, <1>22, <1>23, <1>24, <1>25
<1>27. v7'.place = f.near
  BY <1>18
<1> QED
  BY <1>2, <1>11, <1>26, <1>27 DEF Statistics!TotalsAre, peak

\* What the stationary sums add for the new frame.
LEMMA StatisticsStationaryIs ==
  ASSUME v2, NEW f \in Statistics!Frames,
         NEW q, q = Statistics!Bit(v2 /\ f.quiet),
         NEW o, o = Statistics!Bit(v2 /\ f.quiet /\ v4.count >= 1),
         NEW t, t = Statistics!Bit(v2 /\ f.quiet /\ v4.count >= 2),
         NEW s, s = IF v8.frames % 2 = 0 THEN 1 ELSE -1,
         NEW p, p = Statistics!Bit(f.near # v7.place)
  PROVE  Statistics!Stationary(f)
           = [frames |-> v8.frames + q, sum |-> v8.sum + f.act * q,
              squares |-> v8.squares + Statistics!Sq(f.act) * q,
              alternating |-> v8.alternating + f.act * q * s,
              first |-> v8.first + Statistics!Delta(f) * o, firstN |-> v8.firstN + o,
              second |-> v8.second + Statistics!Delta2(f) * t, secondN |-> v8.secondN + t,
              path |-> v8.path + p * q]
<1> DEFINE one == v2 /\ f.quiet /\ v4.count >= 1
           two == v2 /\ f.quiet /\ v4.count >= 2
<1>1. Statistics!Bit((v2 /\ f.quiet) /\ v4.count >= 1) = o
  BY DEF Statistics!Bit
<1>2. Statistics!Bit((v2 /\ f.quiet) /\ v4.count >= 2) = t
  BY DEF Statistics!Bit
<1> QED
  BY <1>1, <1>2 DEF Statistics!Stationary

LEMMA StatisticsStillKept ==
  ASSUME Statistics!EpisodeIs, Statistics!HistoryIs, Statistics!TotalsAre, Statistics!StillIs, v2, NEW f \in Statistics!Frames,
         v11' = Append(v11, f), v8' = Statistics!Stationary(f)
  PROVE  Statistics!StillIs'
<1> DEFINE x == Statistics!Duration + 1
           path == Statistics!Moved \cap Statistics!Quiet
           S == Statistics!Later(Statistics!Quiet)
           R == Statistics!Third(Statistics!Quiet)
           later == f.quiet /\ Statistics!Duration >= 1
           third == f.quiet /\ Statistics!Duration >= 2
           even == f.quiet /\ Statistics!Cardinality(Statistics!Quiet) % 2 = 0
           odd == f.quiet /\ Statistics!Cardinality(Statistics!Quiet) % 2 # 0
           moved == f.near # Statistics!Latest(Statistics!Place, FALSE)
<1>1. /\ Statistics!Quiet \in SUBSET Statistics!Steps /\ path \in SUBSET Statistics!Steps
      /\ S \in SUBSET Statistics!Later(Statistics!Steps) /\ S \in SUBSET Statistics!Steps
      /\ R \in SUBSET Statistics!Third(Statistics!Steps) /\ R \in SUBSET Statistics!Steps
      /\ Statistics!Plus \in SUBSET Statistics!Steps /\ Statistics!Minus \in SUBSET Statistics!Steps
  BY DEF Statistics!Quiet, Statistics!Later, Statistics!Third, Statistics!Plus,
     Statistics!Minus
<1>2. \A T \in SUBSET Statistics!Steps : Statistics!IsFiniteSet(T) /\ x \notin T
  BY StatisticsPartsAreFinite
<1>3. /\ \A i \in Statistics!Steps : /\ Statistics!Action[i] \in 0..4 /\ Statistics!Action'[i] = Statistics!Action[i]
                          /\ Statistics!Power[i] \in 0..4 /\ Statistics!Power'[i] = Statistics!Power[i]
      /\ \A i \in Statistics!Later(Statistics!Steps) : Statistics!Change[i] \in 0..4 /\ Statistics!Change'[i] = Statistics!Change[i]
      /\ \A i \in Statistics!Third(Statistics!Steps) : Statistics!Bend[i] \in 0..4 /\ Statistics!Bend'[i] = Statistics!Bend[i]
      /\ Statistics!Action'[x] = f.act /\ Statistics!Power'[x] = Statistics!Sq(f.act)
      /\ f.act \in {0, 1} /\ f.act \in 0..4 /\ Statistics!Sq(f.act) \in 0..4
  BY StatisticsValuesGrow
<1>4. /\ Statistics!Delta(f) \in 0..4 /\ Statistics!Delta2(f) \in 0..4
      /\ Statistics!Duration >= 1 => Statistics!Change'[x] = Statistics!Delta(f)
      /\ Statistics!Duration >= 2 => Statistics!Bend'[x] = Statistics!Delta2(f)
      /\ (v4.count >= 1) = (Statistics!Duration >= 1) /\ (v4.count >= 2) = (Statistics!Duration >= 2)
  BY StatisticsDifferences
<1>5. Statistics!Quiet' = IF f.quiet THEN Statistics!Quiet \cup {x} ELSE Statistics!Quiet
  BY StatisticsContactSetsGrow
<1>6. /\ S' = IF later THEN S \cup {x} ELSE S
      /\ R' = IF third THEN R \cup {x} ELSE R
  BY StatisticsLaterSetsGrow
<1>7. path' = IF moved /\ f.quiet THEN path \cup {x} ELSE path
  BY StatisticsPathSetsGrow
<1>8. /\ Statistics!Plus' = IF even THEN Statistics!Plus \cup {x} ELSE Statistics!Plus
      /\ Statistics!Minus' = IF odd THEN Statistics!Minus \cup {x} ELSE Statistics!Minus
  BY StatisticsSignsAlternate
<1>9. v8 = [frames |-> Statistics!Cardinality(Statistics!Quiet), sum |-> Statistics!Total(Statistics!Quiet, Statistics!Action),
               squares |-> Statistics!Total(Statistics!Quiet, Statistics!Power),
               alternating |-> Statistics!Total(Statistics!Plus, Statistics!Action) - Statistics!Total(Statistics!Minus, Statistics!Action),
               first |-> Statistics!Total(S, Statistics!Change), firstN |-> Statistics!Cardinality(S),
               second |-> Statistics!Total(R, Statistics!Bend), secondN |-> Statistics!Cardinality(R),
               path |-> Statistics!Cardinality(path)]
  BY DEF Statistics!StillIs
<1>10. v7.place = Statistics!Latest(Statistics!Place, FALSE)
  BY DEF Statistics!TotalsAre
<1>11. f.quiet \in BOOLEAN /\ f.near \in BOOLEAN
  BY DEF Statistics!Frames
<1>12. later \in BOOLEAN /\ third \in BOOLEAN /\ even \in BOOLEAN /\ odd \in BOOLEAN
       /\ moved \in BOOLEAN /\ (f.quiet <=> even \/ odd) /\ ~(even /\ odd)
       /\ (even <=> f.quiet /\ Statistics!Cardinality(Statistics!Quiet) % 2 = 0)
       /\ (later <=> f.quiet /\ Statistics!Duration >= 1) /\ (third <=> f.quiet /\ Statistics!Duration >= 2)
       /\ (moved <=> f.near # v7.place)
  BY <1>10, <1>11
<1> HIDE DEF x, path, S, R, later, third, even, odd, moved
<1>13. PICK q \in {0, 1} : q = Statistics!Bit(v2 /\ f.quiet) /\ (q = 1 <=> f.quiet)
  BY StatisticsBitIs
<1>14. PICK o \in {0, 1} : /\ o = Statistics!Bit(v2 /\ f.quiet /\ v4.count >= 1)
                           /\ (o = 1 <=> later)
  BY <1>4, <1>12, StatisticsBitIs
<1>15. PICK t \in {0, 1} : /\ t = Statistics!Bit(v2 /\ f.quiet /\ v4.count >= 2)
                           /\ (t = 1 <=> third)
  BY <1>4, <1>12, StatisticsBitIs
<1>16. PICK p \in {0, 1} : p = Statistics!Bit(f.near # v7.place) /\ (p = 1 <=> moved)
  BY <1>12, StatisticsBitIs
<1>17. PICK u \in {0, 1} : u = 1 <=> even
  BY <1>12
<1>18. PICK v \in {0, 1} : v = 1 <=> odd
  BY <1>12
<1>19. PICK s \in {1, -1} : /\ s = IF v8.frames % 2 = 0 THEN 1 ELSE -1
                            /\ (s = 1 <=> Statistics!Cardinality(Statistics!Quiet) % 2 = 0)
  BY <1>9
<1>20. v8' = [frames |-> v8.frames + q, sum |-> v8.sum + f.act * q,
                 squares |-> v8.squares + Statistics!Sq(f.act) * q,
                 alternating |-> v8.alternating + f.act * q * s,
                 first |-> v8.first + Statistics!Delta(f) * o, firstN |-> v8.firstN + o,
                 second |-> v8.second + Statistics!Delta2(f) * t, secondN |-> v8.secondN + t,
                 path |-> v8.path + p * q]
  BY <1>13, <1>14, <1>15, <1>16, <1>19, StatisticsStationaryIs
<1>21. f.act * q * s = f.act * u - f.act * v
  <2>1. CASE ~f.quiet
    <3>1. q = 0 /\ u = 0 /\ v = 0
      BY <2>1, <1>12, <1>13, <1>17, <1>18
    <3> QED
      BY <3>1, <1>3, <1>19
  <2>2. CASE f.quiet /\ even
    <3>1. q = 1 /\ u = 1 /\ v = 0 /\ s = 1
      BY <2>2, <1>12, <1>13, <1>17, <1>18, <1>19
    <3> QED
      BY <3>1, <1>3
  <2>3. CASE f.quiet /\ ~even
    <3>1. q = 1 /\ u = 0 /\ v = 1 /\ s = -1
      BY <2>3, <1>12, <1>13, <1>17, <1>18, <1>19
    <3> QED
      BY <3>1, <1>3
  <2> QED
    BY <2>1, <2>2, <2>3
<1>22. Statistics!Quiet' = IF q = 1 THEN Statistics!Quiet \cup {x} ELSE Statistics!Quiet
  BY <1>5, <1>13
<1>23. Statistics!IsFiniteSet(Statistics!Quiet) /\ x \notin Statistics!Quiet
  BY <1>1, <1>2
<1>24. /\ \A i \in Statistics!Quiet : Statistics!Action[i] \in 0..4 /\ Statistics!Action'[i] = Statistics!Action[i]
       /\ \A i \in Statistics!Quiet : Statistics!Power[i] \in 0..4 /\ Statistics!Power'[i] = Statistics!Power[i]
  BY <1>1, <1>3
<1>25. Statistics!Cardinality(Statistics!Quiet') = Statistics!Cardinality(Statistics!Quiet) + q
  BY <1>22, <1>23, StatisticsTallied
<1>26. Statistics!Total(Statistics!Quiet', Statistics!Action') = Statistics!Total(Statistics!Quiet, Statistics!Action) + f.act * q
  BY <1>3, <1>22, <1>23, <1>24, StatisticsAccumulated
<1>27. Statistics!Total(Statistics!Quiet', Statistics!Power') = Statistics!Total(Statistics!Quiet, Statistics!Power) + Statistics!Sq(f.act) * q
  BY <1>3, <1>22, <1>23, <1>24, StatisticsAccumulated
<1>28. /\ Statistics!Total(Statistics!Plus', Statistics!Action') = Statistics!Total(Statistics!Plus, Statistics!Action) + f.act * u
       /\ Statistics!Total(Statistics!Plus', Statistics!Action') \in Nat /\ Statistics!Total(Statistics!Plus, Statistics!Action) \in Nat
  <2>1. Statistics!Plus' = IF u = 1 THEN Statistics!Plus \cup {x} ELSE Statistics!Plus
    BY <1>8, <1>17
  <2>2. Statistics!IsFiniteSet(Statistics!Plus) /\ x \notin Statistics!Plus
    BY <1>1, <1>2
  <2>3. \A i \in Statistics!Plus : Statistics!Action[i] \in 0..4 /\ Statistics!Action'[i] = Statistics!Action[i]
    BY <1>1, <1>3
  <2> QED
    BY <2>1, <2>2, <2>3, <1>3, StatisticsAccumulated
<1>29. /\ Statistics!Total(Statistics!Minus', Statistics!Action') = Statistics!Total(Statistics!Minus, Statistics!Action) + f.act * v
       /\ Statistics!Total(Statistics!Minus', Statistics!Action') \in Nat /\ Statistics!Total(Statistics!Minus, Statistics!Action) \in Nat
  <2>1. Statistics!Minus' = IF v = 1 THEN Statistics!Minus \cup {x} ELSE Statistics!Minus
    BY <1>8, <1>18
  <2>2. Statistics!IsFiniteSet(Statistics!Minus) /\ x \notin Statistics!Minus
    BY <1>1, <1>2
  <2>3. \A i \in Statistics!Minus : Statistics!Action[i] \in 0..4 /\ Statistics!Action'[i] = Statistics!Action[i]
    BY <1>1, <1>3
  <2> QED
    BY <2>1, <2>2, <2>3, <1>3, StatisticsAccumulated
<1>30. Statistics!Total(Statistics!Plus', Statistics!Action') - Statistics!Total(Statistics!Minus', Statistics!Action')
         = Statistics!Total(Statistics!Plus, Statistics!Action) - Statistics!Total(Statistics!Minus, Statistics!Action) + f.act * q * s
  <2> DEFINE a == Statistics!Total(Statistics!Plus, Statistics!Action)
             b == Statistics!Total(Statistics!Minus, Statistics!Action)
             c == f.act * u
             d == f.act * v
             e == f.act * q * s
  <2>1. c \in Int /\ d \in Int /\ e \in Int
    BY <1>3, <1>19
  <2>2. a \in Nat /\ b \in Nat
    BY <1>28, <1>29
  <2>3. Statistics!Total(Statistics!Plus', Statistics!Action') = a + c /\ Statistics!Total(Statistics!Minus', Statistics!Action') = b + d /\ e = c - d
    BY <1>21, <1>28, <1>29
  <2>4. Statistics!Total(Statistics!Plus', Statistics!Action') - Statistics!Total(Statistics!Minus', Statistics!Action') = (a + c) - (b + d)
    BY <2>3
  <2> HIDE DEF a, b, c, d, e
  <2>5. (a + c) - (b + d) = a - b + e
    BY <2>1, <2>2, <2>3
  <2> QED
    BY <2>4, <2>5 DEF a, b, e
<1>31. Statistics!Total(S', Statistics!Change') = Statistics!Total(S, Statistics!Change) + Statistics!Delta(f) * o /\ Statistics!Cardinality(S') = Statistics!Cardinality(S) + o
  <2>1. S' = IF o = 1 THEN S \cup {x} ELSE S
    BY <1>6, <1>14
  <2>2. Statistics!IsFiniteSet(S) /\ x \notin S
    BY <1>1, <1>2
  <2>3. \A i \in S : Statistics!Change[i] \in 0..4 /\ Statistics!Change'[i] = Statistics!Change[i]
    BY <1>1, <1>3
  <2>4. o = 1 => Statistics!Change'[x] = Statistics!Delta(f)
    BY <1>4, <1>12, <1>14
  <2>5. Statistics!Cardinality(S') = Statistics!Cardinality(S) + o
    BY <2>1, <2>2, StatisticsTallied
  <2> QED
    BY <2>1, <2>2, <2>3, <2>4, <2>5, <1>4, StatisticsAccumulated
<1>32. Statistics!Total(R', Statistics!Bend') = Statistics!Total(R, Statistics!Bend) + Statistics!Delta2(f) * t /\ Statistics!Cardinality(R') = Statistics!Cardinality(R) + t
  <2>1. R' = IF t = 1 THEN R \cup {x} ELSE R
    BY <1>6, <1>15
  <2>2. Statistics!IsFiniteSet(R) /\ x \notin R
    BY <1>1, <1>2
  <2>3. \A i \in R : Statistics!Bend[i] \in 0..4 /\ Statistics!Bend'[i] = Statistics!Bend[i]
    BY <1>1, <1>3
  <2>4. t = 1 => Statistics!Bend'[x] = Statistics!Delta2(f)
    BY <1>4, <1>12, <1>15
  <2>5. Statistics!Cardinality(R') = Statistics!Cardinality(R) + t
    BY <2>1, <2>2, StatisticsTallied
  <2> QED
    BY <2>1, <2>2, <2>3, <2>4, <2>5, <1>4, StatisticsAccumulated
<1>33. Statistics!Cardinality(path') = Statistics!Cardinality(path) + p * q
  <2>1. p * q \in {0, 1} /\ (p * q = 1 <=> moved /\ f.quiet)
    <3>1. p * q \in {0, 1} /\ (p * q = 1 <=> p = 1 /\ q = 1)
      OBVIOUS
    <3> QED
      BY <3>1, <1>13, <1>16
  <2>2. PICK w \in {0, 1} : w = p * q
    BY <2>1
  <2>3. path' = IF w = 1 THEN path \cup {x} ELSE path
    BY <1>7, <2>1, <2>2
  <2>4. Statistics!IsFiniteSet(path) /\ x \notin path
    BY <1>1, <1>2
  <2>5. Statistics!Cardinality(path') = Statistics!Cardinality(path) + w
    BY <2>3, <2>4, StatisticsTallied
  <2> QED
    BY <2>2, <2>5
<1>34. v8' = [frames |-> Statistics!Cardinality(Statistics!Quiet'), sum |-> Statistics!Total(Statistics!Quiet', Statistics!Action'),
                 squares |-> Statistics!Total(Statistics!Quiet', Statistics!Power'),
                 alternating |-> Statistics!Total(Statistics!Plus', Statistics!Action') - Statistics!Total(Statistics!Minus', Statistics!Action'),
                 first |-> Statistics!Total(S', Statistics!Change'), firstN |-> Statistics!Cardinality(S'),
                 second |-> Statistics!Total(R', Statistics!Bend'), secondN |-> Statistics!Cardinality(R'),
                 path |-> Statistics!Cardinality(path')]
  BY <1>9, <1>20, <1>25, <1>26, <1>27, <1>30, <1>31, <1>32, <1>33
<1> QED
  BY <1>34 DEF Statistics!StillIs, S, R, path

-----------------------------------------------------------------------------
\* The runs of the episode are runs of its length.
LEMMA StatisticsRunsAre ==
  ASSUME Statistics!EpisodeIs, NEW S
  PROVE  Statistics!Longest(S) = Statistics!Max(RunsAt(Statistics!Duration, S))
BY StatisticsEpisodeHas DEF Statistics!Longest, RunsAt

LEMMA StatisticsEndsAre ==
  ASSUME NEW r, NEW S
  PROVE  Statistics!Ends(r, S) <=> EndsAt(Statistics!Duration, r, S)
BY DEF Statistics!Ends, EndsAt

LEMMA StatisticsContactsKept ==
  ASSUME Statistics!EpisodeIs, Statistics!ContactsAre, v2, NEW f \in Statistics!Frames,
         v11' = Append(v11, f), v6' = Statistics!Contacts(f)
  PROVE  Statistics!ContactsAre'
<1> DEFINE x == Statistics!Duration + 1
           single == f.left # f.right
           switched == Statistics!Duration >= 1 /\ (\/ f.left # v11[Statistics!Duration].left
                                         \/ f.right # v11[Statistics!Duration].right)
           r == v6.run
           q == IF single THEN r + 1 ELSE 0
           l == Statistics!Longest(Statistics!Single)
<1>1. /\ Statistics!Duration \in Nat /\ Statistics!Steps = 1..Statistics!Duration /\ Statistics!Duration' = x /\ x \notin Statistics!Steps
      /\ v11'[x] = f /\ Statistics!Duration' = Statistics!Duration + 1
  BY StatisticsEpisodeHas, StatisticsFrameAdded
<1>2. single \in BOOLEAN /\ switched \in BOOLEAN
  OBVIOUS
<1>3. Statistics!Single' = IF single THEN Statistics!Single \cup {x} ELSE Statistics!Single
  BY StatisticsContactSetsGrow
<1>4. Statistics!Switched' = IF switched THEN Statistics!Switched \cup {x} ELSE Statistics!Switched
  BY StatisticsPathSetsGrow
<1>5. Statistics!Single \subseteq 1..Statistics!Duration /\ Statistics!Switched \in SUBSET Statistics!Steps
  BY <1>1 DEF Statistics!Single, Statistics!Switched, Statistics!Later
<1>6. EndsAt(Statistics!Duration, r, Statistics!Single) /\ r \in 0..Statistics!Duration
  BY StatisticsEndsAre DEF Statistics!ContactsAre, Statistics!Ends
<1>7. v6 = [left |-> IF Statistics!Duration = 0 THEN FALSE ELSE v11[Statistics!Duration].left,
                 right |-> IF Statistics!Duration = 0 THEN FALSE ELSE v11[Statistics!Duration].right,
                 seen |-> Statistics!Duration > 0, run |-> r,
                 longest |-> l, changes |-> Statistics!Cardinality(Statistics!Switched)]
  BY DEF Statistics!ContactsAre
<1>8. v6' = [left |-> f.left, right |-> f.right, seen |-> TRUE, run |-> q,
                  longest |-> Statistics!Max({v6.longest, q}),
                  changes |-> v6.changes + Statistics!Bit(switched)]
  <2>1. (v6.seen \/ v2) = TRUE
    OBVIOUS
  <2>2. (CASE v2 /\ single -> r + 1 [] v2 /\ ~single -> 0 [] OTHER -> r) = q
    OBVIOUS
  <2>3. Statistics!Bit(v2 /\ v6.seen /\ (f.left # v6.left \/ f.right # v6.right))
          = Statistics!Bit(switched)
    <3> HIDE DEF r, l, q, x, single, switched
    <3>0. /\ v6.seen = (Statistics!Duration > 0)
          /\ v6.left = IF Statistics!Duration = 0 THEN FALSE ELSE v11[Statistics!Duration].left
          /\ v6.right = IF Statistics!Duration = 0 THEN FALSE ELSE v11[Statistics!Duration].right
      BY <1>7
    <3>1. (Statistics!Duration > 0 <=> Statistics!Duration >= 1) /\ (Statistics!Duration >= 1 => Statistics!Duration # 0)
      BY <1>1
    <3>2. v6.seen <=> Statistics!Duration >= 1
      BY <3>0, <3>1, Zenon
    <3>3. Statistics!Duration >= 1 => v6.left = v11[Statistics!Duration].left
      BY <3>0, <3>1, Zenon
    <3>4. Statistics!Duration >= 1 => v6.right = v11[Statistics!Duration].right
      BY <3>0, <3>1, Zenon
    <3> USE DEF switched
    <3> QED
      BY <3>2, <3>3, <3>4 DEF Statistics!Bit
  <2> QED
    BY <2>1, <2>2, <2>3 DEF Statistics!Contacts
<1>9. Statistics!Max(RunsAt(Statistics!Duration, Statistics!Single)) = l /\ Statistics!Longest(Statistics!Single)' = Statistics!Max(RunsAt(Statistics!Duration', Statistics!Single'))
  <2>1. Statistics!EpisodeIs => Statistics!Longest(Statistics!Single) = Statistics!Max(RunsAt(Statistics!Duration, Statistics!Single))
    BY StatisticsRunsAre
  <2>2. Statistics!Longest(Statistics!Single)' = Statistics!Max(RunsAt(Statistics!Duration', Statistics!Single'))
    <3>1. Statistics!Steps' = 1..Statistics!Duration'
      BY DEF Statistics!Steps
    <3> QED
      BY <3>1 DEF Statistics!Longest, RunsAt
  <2> QED
    BY <2>1, <2>2
<1> HIDE DEF single, switched, l, q, r, x
<1>10. PICK c \in BOOLEAN : c <=> single
  BY <1>2
<1>11. Statistics!Single' = IF c THEN Statistics!Single \cup {x} ELSE Statistics!Single
  BY <1>3, <1>10
<1>12. q = IF c THEN r + 1 ELSE 0
  BY <1>10 DEF q
<1>13. x = Statistics!Duration + 1
  BY DEF x
<1>14. EndsAt(Statistics!Duration + 1, q, Statistics!Single')
  BY <1>1, <1>5, <1>6, <1>11, <1>12, <1>13, StatisticsEndsGrow
<1>15. Statistics!Max(RunsAt(Statistics!Duration + 1, Statistics!Single')) = Statistics!Max({Statistics!Max(RunsAt(Statistics!Duration, Statistics!Single)), q})
  <2>1. Statistics!Duration \in Nat /\ Statistics!Single \subseteq 1..Statistics!Duration /\ EndsAt(Statistics!Duration, r, Statistics!Single)
    BY <1>1, <1>5, <1>6
  <2>2. Goes(Statistics!Duration, r, Statistics!Single, q, Statistics!Single')
    BY <2>1, <1>10, <1>11, <1>12, <1>13 DEF Goes
  <2> QED
    BY <2>2, StatisticsLongestGrows
<1>16. Statistics!Cardinality(Statistics!Switched') = Statistics!Cardinality(Statistics!Switched) + Statistics!Bit(switched)
  <2>1. Statistics!IsFiniteSet(Statistics!Switched) /\ x \notin Statistics!Switched
    BY <1>5, <1>13, StatisticsPartsAreFinite
  <2>2. PICK b \in {0, 1} : b = Statistics!Bit(switched) /\ (b = 1 <=> switched)
    BY <1>2, StatisticsBitIs
  <2>3. Statistics!Switched' = IF b = 1 THEN Statistics!Switched \cup {x} ELSE Statistics!Switched
    BY <1>4, <2>2
  <2> QED
    BY <2>1, <2>2, <2>3, StatisticsTallied
<1>17. /\ Statistics!Duration' # 0 /\ (Statistics!Duration' > 0) = TRUE
       /\ v11'[Statistics!Duration'].left = f.left /\ v11'[Statistics!Duration'].right = f.right
  BY <1>1, <1>13
<1>18. v6'.run = q /\ v6.longest = l /\ v6.changes = Statistics!Cardinality(Statistics!Switched)
  BY <1>7, <1>8
<1>19. v6' = [left |-> IF Statistics!Duration' = 0 THEN FALSE ELSE v11'[Statistics!Duration'].left,
                   right |-> IF Statistics!Duration' = 0 THEN FALSE ELSE v11'[Statistics!Duration'].right,
                   seen |-> Statistics!Duration' > 0, run |-> v6'.run,
                   longest |-> Statistics!Longest(Statistics!Single)', changes |-> Statistics!Cardinality(Statistics!Switched')]
  BY <1>1, <1>8, <1>9, <1>15, <1>16, <1>17, <1>18
<1>20. Statistics!Ends(v6.run, Statistics!Single)'
  BY <1>1, <1>14, <1>18 DEF Statistics!Ends, EndsAt
<1> QED
  BY <1>19, <1>20 DEF Statistics!ContactsAre

LEMMA StatisticsHeldGrows ==
  ASSUME Statistics!EpisodeIs, NEW f \in Statistics!Frames, v11' = Append(v11, f), NEW x, x = Statistics!Duration + 1,
         NEW q, EndsAt(x, q, Statistics!Upright')
  PROVE  Statistics!Held' = IF q >= HoldSteps THEN Statistics!Held \cup {x} ELSE Statistics!Held
<1>1. /\ Statistics!Duration \in Nat /\ Statistics!Steps = 1..Statistics!Duration /\ Statistics!Steps' = Statistics!Steps \cup {x}
      /\ x \notin Statistics!Steps /\ x \in Nat
  BY StatisticsEpisodeHas, StatisticsFrameAdded
<1>2. HoldSteps \in Nat /\ HoldSteps >= 1
  BY StatisticsParameters
<1>3. Statistics!Upright' = IF f.upright THEN Statistics!Upright \cup {x} ELSE Statistics!Upright
  BY StatisticsContactSetsGrow
<1>4. q \in 0..x /\ (x - q + 1)..x \subseteq Statistics!Upright' /\ (q < x => x - q \notin Statistics!Upright')
  BY DEF EndsAt
<1>5. ASSUME NEW e \in Statistics!Steps PROVE e \in Statistics!Held' <=> e \in Statistics!Held
  <2>1. \A j \in (e - HoldSteps + 1)..e : j # x
    BY <1>1, <1>2
  <2>2. \A j : j # x => (j \in Statistics!Upright' <=> j \in Statistics!Upright)
    BY <1>3
  <2>3. (e - HoldSteps + 1)..e \subseteq Statistics!Upright' <=> (e - HoldSteps + 1)..e \subseteq Statistics!Upright
    BY <2>1, <2>2
  <2> QED
    BY <1>1, <2>3 DEF Statistics!Held
<1>6. x \in Statistics!Held' <=> q >= HoldSteps
  <2>1. ASSUME q >= HoldSteps PROVE x \in Statistics!Held'
    <3>1. x >= HoldSteps /\ (x - HoldSteps + 1)..x \subseteq (x - q + 1)..x
      BY <1>1, <1>2, <1>4, <2>1
    <3> QED
      BY <1>1, <1>4, <3>1 DEF Statistics!Held
  <2>2. ASSUME x \in Statistics!Held', ~(q >= HoldSteps) PROVE FALSE
    <3>1. x >= HoldSteps /\ (x - HoldSteps + 1)..x \subseteq Statistics!Upright'
      BY <2>2 DEF Statistics!Held
    <3>2. q < x /\ x - q \in (x - HoldSteps + 1)..x
      BY <1>1, <1>2, <1>4, <2>2, <3>1
    <3> QED
      BY <1>4, <3>1, <3>2
  <2> QED
    BY <2>1, <2>2
<1>7. Statistics!Held \subseteq Statistics!Steps /\ Statistics!Held' \subseteq Statistics!Steps \cup {x}
  BY <1>1 DEF Statistics!Held
<1> DEFINE c == q >= HoldSteps
<1>8. x \in Statistics!Held' <=> c
  BY <1>6
<1> HIDE DEF c
<1>9. Statistics!Held' = IF c THEN Statistics!Held \cup {x} ELSE Statistics!Held
  <2>1. ASSUME c PROVE Statistics!Held' = Statistics!Held \cup {x}
    BY <1>1, <1>5, <1>7, <1>8, <2>1
  <2>2. ASSUME ~c PROVE Statistics!Held' = Statistics!Held
    BY <1>1, <1>5, <1>7, <1>8, <2>2
  <2> QED
    BY <2>1, <2>2
<1> QED
  BY <1>9 DEF c

LEMMA StatisticsHoldKept ==
  ASSUME Statistics!EpisodeIs, Statistics!HoldIs, v2, NEW f \in Statistics!Frames,
         v11' = Append(v11, f), v10' = Statistics!Hold(f)
  PROVE  Statistics!HoldIs'
<1> DEFINE x == Statistics!Duration + 1
           r == v10.count
           q == IF f.upright THEN r + 1 ELSE 0
           l == Statistics!Longest(Statistics!Upright)
           new == ~v10.success /\ q >= HoldSteps
<1>1. /\ Statistics!Duration \in Nat /\ Statistics!Steps = 1..Statistics!Duration /\ Statistics!Duration' = Statistics!Duration + 1
      /\ x \notin Statistics!Steps /\ v1 = Statistics!Duration
  BY StatisticsEpisodeHas, StatisticsFrameAdded DEF Statistics!EpisodeIs
<1>2. f.upright \in BOOLEAN
  BY DEF Statistics!Frames
<1>3. Statistics!Upright' = IF f.upright THEN Statistics!Upright \cup {x} ELSE Statistics!Upright
  BY StatisticsContactSetsGrow
<1>4. Statistics!Upright \subseteq 1..Statistics!Duration /\ Statistics!Held \subseteq 1..Statistics!Duration
  BY <1>1 DEF Statistics!Upright, Statistics!Held
<1>5. EndsAt(Statistics!Duration, r, Statistics!Upright) /\ r \in 0..Statistics!Duration
  BY StatisticsEndsAre DEF Statistics!HoldIs, Statistics!Ends
<1>6. v10 = [count |-> r, success |-> Statistics!Held # {},
              from |-> IF Statistics!Held = {} THEN 0 ELSE Statistics!Min(Statistics!Held) - HoldSteps, longest |-> l]
  BY DEF Statistics!HoldIs
<1>7. v10' = [count |-> q, success |-> v10.success \/ new,
               from |-> IF new THEN v1 - HoldSteps + 1 ELSE v10.from,
               longest |-> Statistics!Max({v10.longest, q})]
  <2>1. (CASE v2 /\ f.upright -> r + 1 [] v2 /\ ~f.upright -> 0 [] OTHER -> r) = q
    OBVIOUS
  <2> HIDE DEF q
  <2> QED
    BY <2>1 DEF Statistics!Hold
<1>8. Statistics!Max(RunsAt(Statistics!Duration, Statistics!Upright)) = l /\ Statistics!Longest(Statistics!Upright)' = Statistics!Max(RunsAt(Statistics!Duration', Statistics!Upright'))
  <2>1. Statistics!EpisodeIs => Statistics!Longest(Statistics!Upright) = Statistics!Max(RunsAt(Statistics!Duration, Statistics!Upright))
    BY StatisticsRunsAre
  <2>2. Statistics!Longest(Statistics!Upright)' = Statistics!Max(RunsAt(Statistics!Duration', Statistics!Upright'))
    <3>1. Statistics!Steps' = 1..Statistics!Duration'
      BY DEF Statistics!Steps
    <3> QED
      BY <3>1 DEF Statistics!Longest, RunsAt
  <2> QED
    BY <2>1, <2>2
<1>9. q = (IF f.upright THEN r + 1 ELSE 0) /\ x = Statistics!Duration + 1 /\ x \in Nat
  BY <1>1
<1>10. new <=> ~v10.success /\ q >= HoldSteps
  OBVIOUS
<1> HIDE DEF l, q, r, x, new
<1>11. EndsAt(Statistics!Duration + 1, q, Statistics!Upright')
  BY <1>1, <1>2, <1>3, <1>4, <1>5, <1>9, StatisticsEndsGrow
<1>12. Statistics!Max(RunsAt(Statistics!Duration + 1, Statistics!Upright')) = Statistics!Max({Statistics!Max(RunsAt(Statistics!Duration, Statistics!Upright)), q})
  <2>1. Statistics!Duration \in Nat /\ Statistics!Upright \subseteq 1..Statistics!Duration /\ EndsAt(Statistics!Duration, r, Statistics!Upright)
    BY <1>1, <1>4, <1>5
  <2>2. q = (IF f.upright THEN r + 1 ELSE 0) /\ x = Statistics!Duration + 1
    BY <1>9
  <2>3. Goes(Statistics!Duration, r, Statistics!Upright, q, Statistics!Upright')
    BY <2>1, <2>2, <1>2, <1>3 DEF Goes
  <2> QED
    BY <2>3, StatisticsLongestGrows
<1>13. Statistics!Held' = IF q >= HoldSteps THEN Statistics!Held \cup {x} ELSE Statistics!Held
  BY <1>9, <1>11, StatisticsHeldGrows
<1>14. PICK c \in BOOLEAN : c <=> q >= HoldSteps
  OBVIOUS
<1>15. Statistics!Held' = IF c THEN Statistics!Held \cup {x} ELSE Statistics!Held
  BY <1>13, <1>14
<1>16. /\ Statistics!Held' = {} <=> Statistics!Held = {} /\ ~c
       /\ Statistics!Held' # {} => Statistics!Min(Statistics!Held') = IF Statistics!Held = {} THEN x ELSE Statistics!Min(Statistics!Held)
  <2>1. Statistics!Duration \in Nat /\ Statistics!Held \subseteq 1..Statistics!Duration /\ x = Statistics!Duration + 1
    BY <1>1, <1>4, <1>9
  <2> QED
    <3>1. Statistics!Min(Statistics!Held \cup {x}) = IF Statistics!Held = {} THEN x ELSE Statistics!Min(Statistics!Held)
      BY <2>1, StatisticsLeastStands
    <3> QED
      BY <3>1, <1>14, <1>15
<1>17. new <=> Statistics!Held = {} /\ c
  BY <1>6, <1>10, <1>14
<1>18. (v10.success \/ new) = (Statistics!Held' # {})
  BY <1>6, <1>16, <1>17
<1>19. (IF new THEN v1 - HoldSteps + 1 ELSE v10.from)
         = (IF Statistics!Held' = {} THEN 0 ELSE Statistics!Min(Statistics!Held') - HoldSteps)
  <2>1. CASE new
    <3>1. Statistics!Min(Statistics!Held') = x /\ Statistics!Held' # {}
      BY <2>1, <1>16, <1>17
    <3>2. v1 - HoldSteps + 1 = x - HoldSteps
      BY <1>1, <1>9, StatisticsParameters
    <3> QED
      BY <2>1, <3>1, <3>2
  <2>2. CASE ~new /\ Statistics!Held = {}
    <3>1. Statistics!Held' = {} /\ v10.from = 0
      BY <2>2, <1>6, <1>16, <1>17
    <3> QED
      BY <2>2, <3>1
  <2>3. CASE ~new /\ Statistics!Held # {}
    <3>1. Statistics!Held' # {} /\ Statistics!Min(Statistics!Held') = Statistics!Min(Statistics!Held) /\ v10.from = Statistics!Min(Statistics!Held) - HoldSteps
      BY <2>3, <1>6, <1>16
    <3> QED
      BY <2>3, <3>1
  <2> QED
    BY <2>1, <2>2, <2>3
<1>20. v10'.count = q /\ v10.longest = l
  BY <1>6, <1>7
<1>21. v10' = [count |-> v10'.count, success |-> Statistics!Held' # {},
                from |-> IF Statistics!Held' = {} THEN 0 ELSE Statistics!Min(Statistics!Held') - HoldSteps,
                longest |-> Statistics!Longest(Statistics!Upright)']
  BY <1>1, <1>7, <1>8, <1>12, <1>18, <1>19, <1>20
<1>22. Statistics!Ends(v10.count, Statistics!Upright)'
  BY <1>1, <1>11, <1>20 DEF Statistics!Ends, EndsAt
<1> QED
  BY <1>21, <1>22 DEF Statistics!HoldIs

LEMMA StatisticsCrossedGrows ==
  ASSUME Statistics!EpisodeIs, v3' = v3, NEW f \in Statistics!Frames, v11' = Append(v11, f),
         NEW x, x = Statistics!Duration + 1
  PROVE  /\ Statistics!Commanded' = IF x > v3 THEN Statistics!Commanded \cup {x} ELSE Statistics!Commanded
         /\ Statistics!Crossed' = IF x > v3 /\ f.near THEN Statistics!Crossed \cup {x} ELSE Statistics!Crossed
         /\ ~(x > v3) => Statistics!Commanded = {}
         /\ Statistics!Commanded \subseteq 1..Statistics!Duration /\ Statistics!Crossed \subseteq Statistics!Commanded
<1>1. /\ Statistics!Duration \in Nat /\ Statistics!Steps = 1..Statistics!Duration /\ Statistics!Steps' = Statistics!Steps \cup {x}
      /\ x \notin Statistics!Steps /\ x \in Nat /\ v3 \in Nat
      /\ \A i \in Statistics!Steps : v11'[i] = v11[i]
      /\ v11'[x] = f
  <2>1. v3 \in Nat
    BY DEF Statistics!EpisodeIs
  <2>2. Statistics!Duration \in Nat /\ Statistics!Steps = 1..Statistics!Duration
    BY StatisticsEpisodeHas
  <2>3. /\ Statistics!Steps' = Statistics!Steps \cup {x} /\ x \notin Statistics!Steps
        /\ \A i \in Statistics!Steps : v11'[i] = v11[i]
        /\ v11'[x] = f
    BY StatisticsFrameAdded
  <2>4. x \in Nat
    BY <2>2
  <2> QED
    BY <2>1, <2>2, <2>3, <2>4, Zenon
<1>2. Statistics!Commanded' = IF x > v3 THEN Statistics!Commanded \cup {x} ELSE Statistics!Commanded
  <2>1. Statistics!Commanded' = {i \in Statistics!Steps \cup {x} : i > v3}
    BY <1>1 DEF Statistics!Commanded
  <2>2. Statistics!Commanded = {i \in Statistics!Steps : i > v3}
    BY DEF Statistics!Commanded
  <2>3. CASE x > v3
    <3>1. Statistics!Commanded' = Statistics!Commanded \cup {x}
      BY <2>1, <2>2, <2>3
    <3> QED
      BY <3>1, <2>3
  <2>4. CASE ~(x > v3)
    <3>1. Statistics!Commanded' = Statistics!Commanded
      BY <2>1, <2>2, <2>4
    <3> QED
      BY <3>1, <2>4
  <2> QED
    BY <2>3, <2>4
<1>3. Statistics!Commanded \subseteq Statistics!Steps
  BY DEF Statistics!Commanded
<1>4. Statistics!Crossed' = IF x > v3 /\ f.near THEN Statistics!Crossed \cup {x} ELSE Statistics!Crossed
  <2>1. \A i \in Statistics!Commanded : v11'[i].near <=> v11[i].near
    BY <1>1, <1>3
  <2>2. v11'[x].near <=> f.near
    BY <1>1
  <2>3. Statistics!Crossed' = {i \in Statistics!Commanded' : v11'[i].near} /\ Statistics!Crossed = {i \in Statistics!Commanded : v11[i].near}
    BY DEF Statistics!Crossed
  <2> QED
    BY <1>2, <2>1, <2>2, <2>3
<1>5. ~(x > v3) => Statistics!Commanded = {}
  BY <1>1 DEF Statistics!Commanded
<1>6. Statistics!Commanded \subseteq 1..Statistics!Duration
  BY <1>1, <1>3
<1>7. Statistics!Crossed \subseteq Statistics!Commanded
  BY DEF Statistics!Crossed
<1> QED
  BY <1>2, <1>4, <1>5, <1>6, <1>7

LEMMA StatisticsTargetKept ==
  ASSUME Statistics!EpisodeIs, Statistics!TargetIs, v2, v3' = v3, v1' = v1 + 1,
         NEW f \in Statistics!Frames, v11' = Append(v11, f), v9' = Statistics!Target(f)
  PROVE  Statistics!TargetIs'
<1> DEFINE x == Statistics!Duration + 1
           asked == v9.commanded \/ v1 = v3
           new == v2 /\ asked /\ ~v9.arrived /\ f.near
           due == x > v3
           crosses == due /\ f.near
<1>1. /\ Statistics!Duration \in Nat /\ Statistics!Steps = 1..Statistics!Duration /\ Statistics!Duration' = x /\ Statistics!Duration' = Statistics!Duration + 1
      /\ x \notin Statistics!Steps /\ v1 = Statistics!Duration /\ v3 \in Nat /\ x \in Nat
      /\ Statistics!Place'[x] = f.near /\ f.near \in BOOLEAN
  BY StatisticsEpisodeHas, StatisticsFrameAdded, StatisticsValuesGrow DEF Statistics!EpisodeIs
<1>2. /\ Statistics!Commanded' = IF due THEN Statistics!Commanded \cup {x} ELSE Statistics!Commanded
      /\ Statistics!Crossed' = IF crosses THEN Statistics!Crossed \cup {x} ELSE Statistics!Crossed
      /\ ~due => Statistics!Commanded = {}
      /\ Statistics!Commanded \subseteq 1..Statistics!Duration /\ Statistics!Crossed \subseteq Statistics!Commanded
  BY StatisticsCrossedGrows
<1>3. /\ v9.arrived = (Statistics!Crossed # {})
      /\ v9.at = IF Statistics!Crossed = {} THEN 0 ELSE Statistics!Min(Statistics!Crossed)
      /\ v9.near = IF Statistics!Commanded = {} THEN Statistics!Missing ELSE Statistics!Place[Statistics!Duration]
      /\ v9.post = IF Statistics!Crossed = {} THEN 0 ELSE Statistics!Duration - Statistics!Min(Statistics!Crossed) + 1
  BY DEF Statistics!TargetIs
<1>4. v9.commanded \in BOOLEAN /\ (v9.commanded <=> v3 < v1)
  BY DEF Statistics!TargetIs
<1>5. (asked <=> due) /\ asked \in BOOLEAN
  BY <1>1, <1>4
<1>6. v9' = [commanded |-> asked, arrived |-> v9.arrived \/ new,
                 at |-> IF new THEN v1 + 1 ELSE v9.at,
                 near |-> IF v2 /\ asked THEN f.near ELSE v9.near,
                 post |-> v9.post + Statistics!Bit(v2 /\ (v9.arrived \/ new))]
  BY DEF Statistics!Target
<1>7. new <=> Statistics!Crossed = {} /\ crosses
  BY <1>3, <1>5
<1>8. Statistics!Crossed' = {} <=> Statistics!Crossed = {} /\ ~crosses
  BY <1>2
<1>9. (v9.arrived \/ new) = (Statistics!Crossed' # {})
  BY <1>3, <1>7, <1>8
<1>10. Statistics!Min(Statistics!Crossed \cup {x}) = (IF Statistics!Crossed = {} THEN x ELSE Statistics!Min(Statistics!Crossed))
       /\ (Statistics!Crossed # {} => Statistics!Min(Statistics!Crossed) \in 1..Statistics!Duration)
  <2>1. Statistics!Crossed \subseteq 1..Statistics!Duration
    BY <1>2
  <2> HIDE DEF crosses, due, new, asked
  <2> QED
    BY <1>1, <2>1, StatisticsLeastStands
<1>11. asked => Statistics!Commanded' # {} /\ Statistics!Place'[Statistics!Duration'] = f.near
  BY <1>1, <1>2, <1>5
<1>12. ~asked => Statistics!Commanded' = {} /\ Statistics!Commanded = {}
  BY <1>2, <1>5
<1> HIDE DEF x, asked, new, due, crosses
<1>13. (IF new THEN v1 + 1 ELSE v9.at) = (IF Statistics!Crossed' = {} THEN 0 ELSE Statistics!Min(Statistics!Crossed'))
  <2>1. CASE new
    <3>1. Statistics!Crossed = {} /\ crosses /\ Statistics!Crossed' # {} /\ Statistics!Crossed' = Statistics!Crossed \cup {x}
      BY <2>1, <1>2, <1>7, <1>8
    <3>2. Statistics!Min(Statistics!Crossed') = x
      BY <3>1, <1>10
    <3>3. x = v1 + 1
      BY <1>1
    <3> QED
      BY <2>1, <3>1, <3>2, <3>3
  <2>2. CASE ~new /\ Statistics!Crossed = {}
    <3>1. Statistics!Crossed' = {}
      BY <2>2, <1>7, <1>8
    <3> QED
      BY <2>2, <3>1, <1>3
  <2>3. CASE Statistics!Crossed # {}
    <3>1. ~new /\ Statistics!Crossed' # {} /\ Statistics!Min(Statistics!Crossed') = Statistics!Min(Statistics!Crossed)
      BY <2>3, <1>2, <1>7, <1>8, <1>10
    <3> QED
      BY <2>3, <3>1, <1>3
  <2> QED
    BY <2>1, <2>2, <2>3
<1>14. (IF v2 /\ asked THEN f.near ELSE v9.near)
         = (IF Statistics!Commanded' = {} THEN Statistics!Missing ELSE Statistics!Place'[Statistics!Duration'])
  <2>1. CASE asked
    BY <2>1, <1>11
  <2>2. CASE ~asked
    BY <2>2, <1>3, <1>12
  <2> QED
    BY <2>1, <2>2
<1>15. v9.post + Statistics!Bit(v2 /\ (v9.arrived \/ new))
         = (IF Statistics!Crossed' = {} THEN 0 ELSE Statistics!Duration' - Statistics!Min(Statistics!Crossed') + 1)
  <2>1. CASE Statistics!Crossed' = {}
    <3>1. Statistics!Crossed = {} /\ ~(v9.arrived \/ new)
      BY <2>1, <1>8, <1>9
    <3>2. Statistics!Bit(v2 /\ (v9.arrived \/ new)) = 0 /\ v9.post = 0
      BY <3>1, <1>3 DEF Statistics!Bit
    <3> QED
      BY <2>1, <3>2
  <2>2. CASE Statistics!Crossed' # {} /\ Statistics!Crossed = {}
    <3>1. v9.arrived \/ new
      BY <2>2, <1>9
    <3>2. Statistics!Bit(v2 /\ (v9.arrived \/ new)) = 1 /\ v9.post = 0
      BY <2>2, <3>1, <1>3 DEF Statistics!Bit
    <3>3. Statistics!Crossed' = Statistics!Crossed \cup {x}
      BY <2>2, <1>2
    <3>4. Statistics!Min(Statistics!Crossed') = x
      BY <2>2, <3>3, <1>10
    <3>5. Statistics!Duration' - x + 1 = 1
      BY <1>1
    <3> QED
      BY <2>2, <3>2, <3>4, <3>5
  <2>3. CASE Statistics!Crossed # {}
    <3>1. Statistics!Crossed' # {} /\ Statistics!Min(Statistics!Crossed') = Statistics!Min(Statistics!Crossed)
      BY <2>3, <1>2, <1>8, <1>10
    <3>2. v9.arrived \/ new
      BY <3>1, <1>9
    <3>3. Statistics!Bit(v2 /\ (v9.arrived \/ new)) = 1
      BY <3>2 DEF Statistics!Bit
    <3>4. v9.post = Statistics!Duration - Statistics!Min(Statistics!Crossed) + 1
      BY <2>3, <1>3
    <3>5. Statistics!Min(Statistics!Crossed) \in Nat
      BY <2>3, <1>10
    <3>6. (Statistics!Duration - Statistics!Min(Statistics!Crossed) + 1) + 1 = Statistics!Duration' - Statistics!Min(Statistics!Crossed) + 1
      BY <1>1, <3>5
    <3> QED
      BY <3>1, <3>3, <3>4, <3>6
  <2> QED
    BY <2>1, <2>2, <2>3
<1>16. v9'.commanded = asked
  BY <1>6
<1>17. v9' = [commanded |-> v9'.commanded, arrived |-> Statistics!Crossed' # {},
                  at |-> IF Statistics!Crossed' = {} THEN 0 ELSE Statistics!Min(Statistics!Crossed'),
                  near |-> IF Statistics!Commanded' = {} THEN Statistics!Missing ELSE Statistics!Place'[Statistics!Duration'],
                  post |-> IF Statistics!Crossed' = {} THEN 0 ELSE Statistics!Duration' - Statistics!Min(Statistics!Crossed') + 1]
  BY <1>6, <1>9, <1>13, <1>14, <1>15, <1>16
<1>18. v9'.commanded \in BOOLEAN /\ (v9'.commanded <=> v3' < v1')
  <2>1. due <=> v3' < v1'
    BY <1>1 DEF due
  <2> QED
    BY <2>1, <1>5, <1>16
<1> QED
  BY <1>17, <1>18 DEF Statistics!TargetIs

-----------------------------------------------------------------------------
\* A finished slot: nothing is added, and the place is all that moves on.
LEMMA StatisticsValuesAre ==
  ASSUME Statistics!EpisodeIs
  PROVE  /\ \A i \in Statistics!Steps : Statistics!Action[i] \in 0..4 /\ Statistics!Power[i] \in 0..4 /\ Statistics!Place[i] \in BOOLEAN
         /\ \A i \in Statistics!Later(Statistics!Steps) : Statistics!Change[i] \in 0..4
         /\ \A i \in Statistics!Third(Statistics!Steps) : Statistics!Bend[i] \in 0..4
<1>1. /\ Statistics!Duration \in Nat /\ Statistics!Steps = 1..Statistics!Duration
      /\ \A i \in Statistics!Steps : v11[i].act \in {0, 1} /\ v11[i].near \in BOOLEAN
  BY StatisticsEpisodeHas
<1>2. \A a, b, c \in {0, 1} : Statistics!Sq(a) \in 0..4 /\ Statistics!Sq(a - b) \in 0..4 /\ Statistics!Sq(a - 2 * b + c) \in 0..4
  BY DEF Statistics!Sq
<1>3. ASSUME NEW i \in Statistics!Steps
      PROVE  Statistics!Action[i] \in 0..4 /\ Statistics!Power[i] \in 0..4 /\ Statistics!Place[i] \in BOOLEAN
  <2>1. v11[i].act \in {0, 1} /\ v11[i].near \in BOOLEAN
    BY <1>1
  <2>2. Statistics!Sq(v11[i].act) \in 0..4
    BY <2>1, <1>2
  <2> QED
    BY <2>1, <2>2 DEF Statistics!Action, Statistics!Power, Statistics!Place
<1>4. ASSUME NEW i \in Statistics!Later(Statistics!Steps)
      PROVE  Statistics!Change[i] \in 0..4
  <2>1. i \in Statistics!Steps /\ i - 1 \in Statistics!Steps
    BY <1>1 DEF Statistics!Later
  <2>2. v11[i].act \in {0, 1} /\ v11[i - 1].act \in {0, 1}
    BY <2>1, <1>1
  <2>3. Statistics!Sq(v11[i].act - v11[i - 1].act) \in 0..4
    BY <2>2, <1>2
  <2> QED
    BY <2>3 DEF Statistics!Change
<1>5. ASSUME NEW i \in Statistics!Third(Statistics!Steps)
      PROVE  Statistics!Bend[i] \in 0..4
  <2>1. i \in Statistics!Steps /\ i - 1 \in Statistics!Steps /\ i - 2 \in Statistics!Steps
    BY <1>1 DEF Statistics!Third
  <2>2. /\ v11[i].act \in {0, 1} /\ v11[i - 1].act \in {0, 1}
        /\ v11[i - 2].act \in {0, 1}
    BY <2>1, <1>1
  <2>3. Statistics!Sq(v11[i].act - 2 * v11[i - 1].act + v11[i - 2].act) \in 0..4
    BY <2>2, <1>2
  <2> QED
    BY <2>3 DEF Statistics!Bend
<1> QED
  BY <1>3, <1>4, <1>5

\* Everything that is counted or summed is a number.
LEMMA StatisticsNumbersAre ==
  ASSUME Statistics!EpisodeIs
  PROVE  /\ \A S \in SUBSET Statistics!Steps : Statistics!Cardinality(S) \in Nat /\ Statistics!Total(S, Statistics!Action) \in Nat
                                    /\ Statistics!Total(S, Statistics!Power) \in Nat
         /\ \A S \in SUBSET Statistics!Later(Statistics!Steps) : Statistics!Cardinality(S) \in Nat /\ Statistics!Total(S, Statistics!Change) \in Nat
         /\ \A S \in SUBSET Statistics!Third(Statistics!Steps) : Statistics!Cardinality(S) \in Nat /\ Statistics!Total(S, Statistics!Bend) \in Nat
<1>1. Statistics!IsFiniteSet(Statistics!Steps)
  BY StatisticsEpisodeHas
<1>2. \A S \in SUBSET Statistics!Steps : Statistics!IsFiniteSet(S) /\ Statistics!Cardinality(S) \in Nat
  BY <1>1, FS_Subset, FS_CardinalityType, StatisticsFinite
<1>3. Statistics!Later(Statistics!Steps) \in SUBSET Statistics!Steps /\ Statistics!Third(Statistics!Steps) \in SUBSET Statistics!Steps
  BY DEF Statistics!Later, Statistics!Third
<1>4. ASSUME NEW S \in SUBSET Statistics!Steps
      PROVE  Statistics!Total(S, Statistics!Action) \in Nat /\ Statistics!Total(S, Statistics!Power) \in Nat
  <2>1. Statistics!IsFiniteSet(S)
    BY <1>2
  <2>2. \A i \in S : Statistics!Action[i] \in 0..4
    BY StatisticsValuesAre
  <2>3. \A i \in S : Statistics!Power[i] \in 0..4
    BY StatisticsValuesAre
  <2>4. Statistics!Total(S, Statistics!Action) \in Nat
    BY <2>1, <2>2, StatisticsAreaIsFinite
  <2>5. Statistics!Total(S, Statistics!Power) \in Nat
    BY <2>1, <2>3, StatisticsAreaIsFinite
  <2> QED
    BY <2>4, <2>5
<1>5. ASSUME NEW S \in SUBSET Statistics!Later(Statistics!Steps) PROVE Statistics!Total(S, Statistics!Change) \in Nat
  <2>1. Statistics!IsFiniteSet(S)
    BY <1>2, <1>3
  <2>2. \A i \in S : Statistics!Change[i] \in 0..4
    BY StatisticsValuesAre
  <2> QED
    BY <2>1, <2>2, StatisticsAreaIsFinite
<1>6. ASSUME NEW S \in SUBSET Statistics!Third(Statistics!Steps) PROVE Statistics!Total(S, Statistics!Bend) \in Nat
  <2>1. Statistics!IsFiniteSet(S)
    BY <1>2, <1>3
  <2>2. \A i \in S : Statistics!Bend[i] \in 0..4
    BY StatisticsValuesAre
  <2> QED
    BY <2>1, <2>2, StatisticsAreaIsFinite
<1>7. \A S \in SUBSET Statistics!Later(Statistics!Steps) : Statistics!Cardinality(S) \in Nat
  BY <1>2, <1>3
<1>8. \A S \in SUBSET Statistics!Third(Statistics!Steps) : Statistics!Cardinality(S) \in Nat
  BY <1>2, <1>3
<1> QED
  BY <1>2, <1>4, <1>5, <1>6, <1>7, <1>8

\* The parts of a frame.
LEMMA StatisticsFrameIs ==
  ASSUME NEW f \in Statistics!Frames
  PROVE  f.act \in {0, 1} /\ f.left \in BOOLEAN /\ f.right \in BOOLEAN /\ f.near \in BOOLEAN
         /\ f.upright \in BOOLEAN /\ f.quiet \in BOOLEAN
BY DEF Statistics!Frames, Statistics!Acts

LEMMA StatisticsRatesIdle ==
  ASSUME Statistics!EpisodeIs, Statistics!HistoryIs, Statistics!RatesAre, ~v2, NEW f \in Statistics!Frames
  PROVE  Statistics!Rates(f) = v5
<1>1. /\ v5.first \in Nat /\ v5.firstN \in Nat /\ v5.second \in Nat
      /\ v5.secondN \in Nat
      /\ v5 = [first |-> v5.first, firstN |-> v5.firstN,
                  second |-> v5.second, secondN |-> v5.secondN]
  BY StatisticsNumbersAre DEF Statistics!RatesAre
<1>2. Statistics!Delta(f) \in Int /\ Statistics!Delta2(f) \in Int
  <2>1. f.act \in Int /\ v4.last \in Int /\ v4.before \in Int
    BY StatisticsFrameIs, StatisticsHistoryHas
  <2> QED
    BY <2>1 DEF Statistics!Delta, Statistics!Delta2, Statistics!Sq
<1>3. Statistics!Bit(v2 /\ v4.count >= 1) = 0 /\ Statistics!Bit(v2 /\ v4.count >= 2) = 0
  BY DEF Statistics!Bit
<1>4. Statistics!Rates(f) = [first |-> v5.first + Statistics!Delta(f) * Statistics!Bit(v2 /\ v4.count >= 1),
                  firstN |-> v5.firstN + Statistics!Bit(v2 /\ v4.count >= 1),
                  second |-> v5.second + Statistics!Delta2(f) * Statistics!Bit(v2 /\ v4.count >= 2),
                  secondN |-> v5.secondN + Statistics!Bit(v2 /\ v4.count >= 2)]
  BY DEF Statistics!Rates
<1>5. Statistics!Rates(f) = [first |-> v5.first + Statistics!Delta(f) * 0, firstN |-> v5.firstN + 0,
                  second |-> v5.second + Statistics!Delta2(f) * 0, secondN |-> v5.secondN + 0]
  BY <1>3, <1>4
<1> QED
  BY <1>1, <1>2, <1>5

LEMMA StatisticsStillIdle ==
  ASSUME Statistics!EpisodeIs, Statistics!HistoryIs, Statistics!StillIs, ~v2, NEW f \in Statistics!Frames
  PROVE  Statistics!Stationary(f) = v8
<1>1. Statistics!Quiet \in SUBSET Statistics!Steps /\ Statistics!Plus \in SUBSET Statistics!Steps /\ Statistics!Minus \in SUBSET Statistics!Steps
      /\ Statistics!Later(Statistics!Quiet) \in SUBSET Statistics!Later(Statistics!Steps) /\ Statistics!Third(Statistics!Quiet) \in SUBSET Statistics!Third(Statistics!Steps)
      /\ Statistics!Moved \cap Statistics!Quiet \in SUBSET Statistics!Steps
  BY DEF Statistics!Quiet, Statistics!Plus, Statistics!Minus, Statistics!Later,
     Statistics!Third
<1>2. v8 = [frames |-> Statistics!Cardinality(Statistics!Quiet), sum |-> Statistics!Total(Statistics!Quiet, Statistics!Action),
               squares |-> Statistics!Total(Statistics!Quiet, Statistics!Power),
               alternating |-> Statistics!Total(Statistics!Plus, Statistics!Action) - Statistics!Total(Statistics!Minus, Statistics!Action),
               first |-> Statistics!Total(Statistics!Later(Statistics!Quiet), Statistics!Change), firstN |-> Statistics!Cardinality(Statistics!Later(Statistics!Quiet)),
               second |-> Statistics!Total(Statistics!Third(Statistics!Quiet), Statistics!Bend), secondN |-> Statistics!Cardinality(Statistics!Third(Statistics!Quiet)),
               path |-> Statistics!Cardinality(Statistics!Moved \cap Statistics!Quiet)]
  BY DEF Statistics!StillIs
<1>3. /\ Statistics!Cardinality(Statistics!Quiet) \in Nat /\ Statistics!Total(Statistics!Quiet, Statistics!Action) \in Nat
      /\ Statistics!Total(Statistics!Quiet, Statistics!Power) \in Nat /\ Statistics!Total(Statistics!Plus, Statistics!Action) \in Nat
      /\ Statistics!Total(Statistics!Minus, Statistics!Action) \in Nat /\ Statistics!Cardinality(Statistics!Moved \cap Statistics!Quiet) \in Nat
  BY <1>1, StatisticsNumbersAre
<1>4. /\ Statistics!Total(Statistics!Later(Statistics!Quiet), Statistics!Change) \in Nat /\ Statistics!Cardinality(Statistics!Later(Statistics!Quiet)) \in Nat
      /\ Statistics!Total(Statistics!Third(Statistics!Quiet), Statistics!Bend) \in Nat /\ Statistics!Cardinality(Statistics!Third(Statistics!Quiet)) \in Nat
  BY <1>1, StatisticsNumbersAre
<1>5. /\ v8.frames \in Nat /\ v8.sum \in Nat /\ v8.squares \in Nat
      /\ v8.alternating \in Int /\ v8.first \in Nat /\ v8.firstN \in Nat
      /\ v8.second \in Nat /\ v8.secondN \in Nat /\ v8.path \in Nat
  BY <1>2, <1>3, <1>4
<1>6. Statistics!Delta(f) \in Int /\ Statistics!Delta2(f) \in Int /\ f.act \in Int /\ Statistics!Sq(f.act) \in Int
  <2>1. f.act \in Int /\ v4.last \in Int /\ v4.before \in Int
    BY StatisticsFrameIs, StatisticsHistoryHas
  <2> QED
    BY <2>1 DEF Statistics!Delta, Statistics!Delta2, Statistics!Sq
<1>7. PICK s \in {1, -1} : s = IF v8.frames % 2 = 0 THEN 1 ELSE -1
  OBVIOUS
<1>8. PICK p \in {0, 1} : p = Statistics!Bit(f.near # v7.place)
  BY StatisticsBitIs
<1>9. /\ Statistics!Bit(v2 /\ f.quiet) = 0 /\ Statistics!Bit((v2 /\ f.quiet) /\ v4.count >= 1) = 0
      /\ Statistics!Bit((v2 /\ f.quiet) /\ v4.count >= 2) = 0
  BY DEF Statistics!Bit
<1>10. Statistics!Stationary(f)
         = [frames |-> v8.frames + 0, sum |-> v8.sum + f.act * 0,
            squares |-> v8.squares + Statistics!Sq(f.act) * 0,
            alternating |-> v8.alternating + f.act * 0 * s,
            first |-> v8.first + Statistics!Delta(f) * 0, firstN |-> v8.firstN + 0,
            second |-> v8.second + Statistics!Delta2(f) * 0, secondN |-> v8.secondN + 0,
            path |-> v8.path + p * 0]
  BY <1>7, <1>8, <1>9 DEF Statistics!Stationary
<1>11. /\ v8.frames + 0 = v8.frames /\ v8.sum + f.act * 0 = v8.sum
       /\ v8.squares + Statistics!Sq(f.act) * 0 = v8.squares
       /\ v8.alternating + f.act * 0 * s = v8.alternating
       /\ v8.first + Statistics!Delta(f) * 0 = v8.first /\ v8.firstN + 0 = v8.firstN
       /\ v8.second + Statistics!Delta2(f) * 0 = v8.second /\ v8.secondN + 0 = v8.secondN
       /\ v8.path + p * 0 = v8.path
  BY <1>5, <1>6
<1>12. v8 = [frames |-> v8.frames, sum |-> v8.sum, squares |-> v8.squares,
                alternating |-> v8.alternating, first |-> v8.first,
                firstN |-> v8.firstN, second |-> v8.second,
                secondN |-> v8.secondN, path |-> v8.path]
  BY <1>2
<1> QED
  BY <1>10, <1>11, <1>12

LEMMA StatisticsTotalsIdle ==
  ASSUME Statistics!EpisodeIs, Statistics!TotalsAre, ~v2, NEW f \in Statistics!Frames
  PROVE  Statistics!Totals(f) = [v7 EXCEPT !.place = f.near]
<1> DEFINE P == {0} \cup {Statistics!Action[i] : i \in Statistics!Steps}
<1>1. Statistics!Steps \in SUBSET Statistics!Steps /\ Statistics!Both \in SUBSET Statistics!Steps /\ Statistics!LeftOnly \in SUBSET Statistics!Steps
      /\ Statistics!RightOnly \in SUBSET Statistics!Steps /\ Statistics!Airborne \in SUBSET Statistics!Steps /\ Statistics!Moved \in SUBSET Statistics!Steps
  BY DEF Statistics!Both, Statistics!LeftOnly, Statistics!RightOnly, Statistics!Airborne,
     Statistics!Moved
<1>2. v7 = [frames |-> Statistics!Duration, sum |-> Statistics!Total(Statistics!Steps, Statistics!Action), peak |-> Statistics!Max(P),
                both |-> Statistics!Cardinality(Statistics!Both), leftOnly |-> Statistics!Cardinality(Statistics!LeftOnly),
                rightOnly |-> Statistics!Cardinality(Statistics!RightOnly), airborne |-> Statistics!Cardinality(Statistics!Airborne),
                path |-> Statistics!Cardinality(Statistics!Moved), place |-> v7.place]
  BY DEF Statistics!TotalsAre
<1>3. /\ Statistics!Total(Statistics!Steps, Statistics!Action) \in Nat /\ Statistics!Cardinality(Statistics!Both) \in Nat
      /\ Statistics!Cardinality(Statistics!LeftOnly) \in Nat /\ Statistics!Cardinality(Statistics!RightOnly) \in Nat
      /\ Statistics!Cardinality(Statistics!Airborne) \in Nat /\ Statistics!Cardinality(Statistics!Moved) \in Nat
  BY <1>1, StatisticsNumbersAre
<1>4. Statistics!Duration \in Nat
  BY StatisticsEpisodeHas
<1>5. Statistics!Max(P) \in 0..4 /\ Statistics!Max({Statistics!Max(P), 0}) = Statistics!Max(P)
  <2>1. P \subseteq 0..4 /\ P # {}
    BY StatisticsValuesAre
  <2>2. 4 \in Nat
    OBVIOUS
  <2> HIDE DEF P
  <2>3. Statistics!Max(P) \in P
    BY <2>1, <2>2, StatisticsGreatestOf
  <2>4. Statistics!Max(P) \in 0..4
    BY <2>1, <2>3
  <2> DEFINE m == Statistics!Max(P)
  <2>5. m \in Int /\ 0 \in Int /\ m >= 0
    BY <2>4
  <2> HIDE DEF m
  <2>6. Statistics!Max({m, 0}) = m
    BY <2>5, StatisticsMaxOfTwo
  <2> QED
    BY <2>4, <2>6 DEF m
<1> HIDE DEF P
<1>6. Statistics!Bit(v2) = 0 /\ (IF v2 THEN f.act ELSE 0) = 0
  BY DEF Statistics!Bit
<1>7. f.act \in Int
  BY StatisticsFrameIs
<1>8. \A c \in BOOLEAN : Statistics!Bit(c) \in Int
  BY DEF Statistics!Bit
<1>9. /\ Statistics!Bit(f.left /\ f.right) \in Int /\ Statistics!Bit(f.left /\ ~f.right) \in Int
      /\ Statistics!Bit(f.right /\ ~f.left) \in Int /\ Statistics!Bit(~f.left /\ ~f.right) \in Int
      /\ Statistics!Bit(f.near # v7.place) \in Int
  BY <1>8
<1>10. Statistics!Totals(f) = [frames |-> v7.frames + 0, sum |-> v7.sum + f.act * 0,
                    peak |-> Statistics!Max({v7.peak, 0}),
                    both |-> v7.both + Statistics!Bit(f.left /\ f.right) * 0,
                    leftOnly |-> v7.leftOnly + Statistics!Bit(f.left /\ ~f.right) * 0,
                    rightOnly |-> v7.rightOnly + Statistics!Bit(f.right /\ ~f.left) * 0,
                    airborne |-> v7.airborne + Statistics!Bit(~f.left /\ ~f.right) * 0,
                    path |-> v7.path + Statistics!Bit(f.near # v7.place) * 0,
                    place |-> f.near]
  BY <1>6 DEF Statistics!Totals
<1>11. /\ v7.frames + 0 = v7.frames /\ v7.sum + f.act * 0 = v7.sum
       /\ Statistics!Max({v7.peak, 0}) = v7.peak
  <2>1. v7.frames \in Nat /\ v7.sum \in Nat /\ v7.peak = Statistics!Max(P)
    BY <1>2, <1>3, <1>4
  <2>2. v7.frames + 0 = v7.frames /\ v7.sum + f.act * 0 = v7.sum
    BY <2>1, <1>7
  <2> QED
    BY <2>1, <2>2, <1>5
<1>12. /\ v7.both + Statistics!Bit(f.left /\ f.right) * 0 = v7.both
       /\ v7.leftOnly + Statistics!Bit(f.left /\ ~f.right) * 0 = v7.leftOnly
       /\ v7.rightOnly + Statistics!Bit(f.right /\ ~f.left) * 0 = v7.rightOnly
       /\ v7.airborne + Statistics!Bit(~f.left /\ ~f.right) * 0 = v7.airborne
       /\ v7.path + Statistics!Bit(f.near # v7.place) * 0 = v7.path
  BY <1>2, <1>3, <1>9
<1>13. Statistics!Totals(f) = [frames |-> v7.frames, sum |-> v7.sum, peak |-> v7.peak,
                    both |-> v7.both, leftOnly |-> v7.leftOnly,
                    rightOnly |-> v7.rightOnly, airborne |-> v7.airborne,
                    path |-> v7.path, place |-> f.near]
  BY <1>10, <1>11, <1>12
<1>14. v7 = [frames |-> v7.frames, sum |-> v7.sum, peak |-> v7.peak,
                 both |-> v7.both, leftOnly |-> v7.leftOnly,
                 rightOnly |-> v7.rightOnly, airborne |-> v7.airborne,
                 path |-> v7.path, place |-> v7.place]
  BY <1>2
<1> QED
  BY <1>13, <1>14

\* A run at the end is no longer than the longest.
LEMMA StatisticsRunIsShorter ==
  ASSUME Statistics!EpisodeIs, NEW S, S \subseteq Statistics!Steps, NEW r, Statistics!Ends(r, S)
  PROVE  r \in Nat /\ Statistics!Longest(S) \in Nat /\ r <= Statistics!Longest(S) /\ Statistics!Max({Statistics!Longest(S), r}) = Statistics!Longest(S)
<1> DEFINE l == Statistics!Longest(S)
<1>1. Statistics!Duration \in Nat /\ Statistics!Steps = 1..Statistics!Duration
  BY StatisticsEpisodeHas
<1>2. EndsAt(Statistics!Duration, r, S)
  BY StatisticsEndsAre
<1>3. Goes(Statistics!Duration, r, S, 0, S)
  BY <1>1, <1>2 DEF Goes
<1>4. r <= Statistics!Max(RunsAt(Statistics!Duration, S)) /\ Statistics!Max(RunsAt(Statistics!Duration, S)) \in Nat
  BY <1>3, StatisticsLongestGrows
<1>5. l = Statistics!Max(RunsAt(Statistics!Duration, S))
  BY StatisticsRunsAre
<1>6. r \in Nat
  BY <1>1 DEF Statistics!Ends
<1>7. l \in Int /\ r \in Int /\ l >= r /\ l \in Nat
  BY <1>4, <1>5, <1>6
<1> HIDE DEF l
<1>8. Statistics!Max({l, r}) = l
  BY <1>7, StatisticsMaxOfTwo
<1> QED
  BY <1>6, <1>7, <1>8 DEF l

LEMMA StatisticsContactsIdle ==
  ASSUME Statistics!EpisodeIs, Statistics!ContactsAre, ~v2, NEW f \in Statistics!Frames
  PROVE  Statistics!Contacts(f) = v6
<1> DEFINE run == CASE v2 /\ (f.left # f.right) -> v6.run + 1
                    [] v2 /\ ~(f.left # f.right) -> 0
                    [] OTHER -> v6.run
<1>1. v6 = [left |-> IF Statistics!Duration = 0 THEN FALSE ELSE v11[Statistics!Duration].left,
                 right |-> IF Statistics!Duration = 0 THEN FALSE ELSE v11[Statistics!Duration].right,
                 seen |-> Statistics!Duration > 0, run |-> v6.run,
                 longest |-> Statistics!Longest(Statistics!Single), changes |-> Statistics!Cardinality(Statistics!Switched)]
  BY DEF Statistics!ContactsAre
<1>2. Statistics!Single \subseteq Statistics!Steps /\ Statistics!Switched \in SUBSET Statistics!Steps
  BY DEF Statistics!Single, Statistics!Switched, Statistics!Later
<1>3. Statistics!Ends(v6.run, Statistics!Single)
  BY DEF Statistics!ContactsAre
<1>4. Statistics!Max({v6.longest, v6.run}) = v6.longest
  <2>1. Statistics!Max({Statistics!Longest(Statistics!Single), v6.run}) = Statistics!Longest(Statistics!Single)
    BY <1>2, <1>3, StatisticsRunIsShorter
  <2>2. v6.longest = Statistics!Longest(Statistics!Single)
    BY <1>1
  <2> QED
    BY <2>1, <2>2
<1>5. run = v6.run
  OBVIOUS
<1>6. v6.changes \in Nat
  BY <1>1, <1>2, StatisticsNumbersAre
<1>7. Statistics!Bit(v2 /\ v6.seen /\ (f.left # v6.left \/ f.right # v6.right)) = 0
  BY DEF Statistics!Bit
<1>8. v6.changes
        + Statistics!Bit(v2 /\ v6.seen /\ (f.left # v6.left \/ f.right # v6.right))
        = v6.changes
  BY <1>6, <1>7
<1>9. v6.seen = (Statistics!Duration > 0)
  BY <1>1
<1>10. (v6.seen \/ v2) = v6.seen
  <2>1. v6.seen \in BOOLEAN
    BY <1>9
  <2> QED
    BY <2>1
<1> HIDE DEF run
<1>11. Statistics!Contacts(f) = [left |-> v6.left, right |-> v6.right, seen |-> v6.seen,
                      run |-> v6.run, longest |-> v6.longest,
                      changes |-> v6.changes]
  <2>1. Statistics!Contacts(f)
          = [left |-> IF v2 THEN f.left ELSE v6.left,
             right |-> IF v2 THEN f.right ELSE v6.right,
             seen |-> v6.seen \/ v2, run |-> run,
             longest |-> Statistics!Max({v6.longest, run}),
             changes |-> v6.changes
               + Statistics!Bit(v2 /\ v6.seen /\ (f.left # v6.left \/ f.right # v6.right))]
    BY DEF Statistics!Contacts, run
  <2>2. (IF v2 THEN f.left ELSE v6.left) = v6.left
        /\ (IF v2 THEN f.right ELSE v6.right) = v6.right
    OBVIOUS
  <2> QED
    BY <2>1, <2>2, <1>4, <1>5, <1>8, <1>10
<1>12. v6 = [left |-> v6.left, right |-> v6.right, seen |-> v6.seen,
                  run |-> v6.run, longest |-> v6.longest,
                  changes |-> v6.changes]
  BY <1>1
<1> QED
  BY <1>11, <1>12

LEMMA StatisticsHoldIdle ==
  ASSUME Statistics!EpisodeIs, Statistics!HoldIs, ~v2, NEW f \in Statistics!Frames
  PROVE  Statistics!Hold(f) = v10
<1> DEFINE count == CASE v2 /\ f.upright -> v10.count + 1
                      [] v2 /\ ~f.upright -> 0
                      [] OTHER -> v10.count
           new == v2 /\ ~v10.success /\ count >= HoldSteps
<1>1. v10 = [count |-> v10.count, success |-> Statistics!Held # {},
              from |-> IF Statistics!Held = {} THEN 0 ELSE Statistics!Min(Statistics!Held) - HoldSteps,
              longest |-> Statistics!Longest(Statistics!Upright)]
  BY DEF Statistics!HoldIs
<1>2. Statistics!Upright \subseteq Statistics!Steps
  BY DEF Statistics!Upright
<1>3. Statistics!Ends(v10.count, Statistics!Upright)
  BY DEF Statistics!HoldIs
<1>4. Statistics!Max({v10.longest, v10.count}) = v10.longest
  <2>1. Statistics!Max({Statistics!Longest(Statistics!Upright), v10.count}) = Statistics!Longest(Statistics!Upright)
    BY <1>2, <1>3, StatisticsRunIsShorter
  <2>2. v10.longest = Statistics!Longest(Statistics!Upright)
    BY <1>1
  <2> QED
    BY <2>1, <2>2
<1>5. count = v10.count
  OBVIOUS
<1>6. v10.success = (Statistics!Held # {})
  BY <1>1
<1>7. ~new
  OBVIOUS
<1>8. (v10.success \/ new) = v10.success
  <2>1. v10.success \in BOOLEAN
    BY <1>6
  <2> HIDE DEF new
  <2> QED
    BY <2>1, <1>7
<1>9. Statistics!Hold(f) = [count |-> count, success |-> v10.success \/ new,
                 from |-> IF new THEN v1 - HoldSteps + 1 ELSE v10.from,
                 longest |-> Statistics!Max({v10.longest, count})]
  BY DEF Statistics!Hold
<1> HIDE DEF count, new
<1>10. Statistics!Hold(f) = [count |-> v10.count, success |-> v10.success, from |-> v10.from,
                  longest |-> v10.longest]
  BY <1>4, <1>5, <1>7, <1>8, <1>9
<1>11. v10 = [count |-> v10.count, success |-> v10.success, from |-> v10.from,
               longest |-> v10.longest]
  BY <1>1
<1> QED
  BY <1>10, <1>11

LEMMA StatisticsTargetIdle ==
  ASSUME Statistics!EpisodeIs, Statistics!TargetIs, ~v2, NEW f \in Statistics!Frames
  PROVE  /\ Statistics!Target(f) = [v9 EXCEPT !.commanded = Statistics!Target(f).commanded]
         /\ Statistics!Target(f).commanded \in BOOLEAN
<1> DEFINE asked == v9.commanded \/ v1 = v3
           new == v2 /\ asked /\ ~v9.arrived /\ f.near
<1>1. v9 = [commanded |-> v9.commanded, arrived |-> Statistics!Crossed # {},
                at |-> IF Statistics!Crossed = {} THEN 0 ELSE Statistics!Min(Statistics!Crossed),
                near |-> IF Statistics!Commanded = {} THEN Statistics!Missing ELSE Statistics!Place[Statistics!Duration],
                post |-> IF Statistics!Crossed = {} THEN 0 ELSE Statistics!Duration - Statistics!Min(Statistics!Crossed) + 1]
  BY DEF Statistics!TargetIs
<1>2. v9.arrived = (Statistics!Crossed # {})
      /\ v9.post = IF Statistics!Crossed = {} THEN 0 ELSE Statistics!Duration - Statistics!Min(Statistics!Crossed) + 1
  BY <1>1
<1>3. v9.post \in Int
  <2>1. Statistics!Crossed # {} => Statistics!Min(Statistics!Crossed) \in Int
    <3>1. Statistics!Crossed \subseteq Nat
      <4>1. Statistics!Steps \subseteq Nat /\ Statistics!Crossed \subseteq Statistics!Steps
        BY StatisticsEpisodeHas DEF Statistics!Crossed, Statistics!Commanded
      <4> QED
        BY <4>1
    <3>2. ASSUME Statistics!Crossed # {} PROVE Statistics!Min(Statistics!Crossed) \in Int
      <4>1. Statistics!Min(Statistics!Crossed) \in Statistics!Crossed
        BY <3>1, <3>2, StatisticsLeastOf
      <4>2. Statistics!Min(Statistics!Crossed) \in Nat
        BY <3>1, <4>1, Zenon
      <4> QED
        BY <4>2
    <3> QED
      BY <3>2
  <2>2. Statistics!Duration \in Nat
    BY StatisticsEpisodeHas
  <2> QED
    BY <1>2, <2>1, <2>2
<1>4. ~new /\ ~(v2 /\ asked) /\ ~(v2 /\ (v9.arrived \/ new)) /\ asked \in BOOLEAN
  OBVIOUS
<1>5. Statistics!Target(f) = [commanded |-> asked, arrived |-> v9.arrived \/ new,
                   at |-> IF new THEN v1 + 1 ELSE v9.at,
                   near |-> IF v2 /\ asked THEN f.near ELSE v9.near,
                   post |-> v9.post + Statistics!Bit(v2 /\ (v9.arrived \/ new))]
  BY DEF Statistics!Target
<1>6. v9.arrived \in BOOLEAN
  BY <1>2
<1> HIDE DEF asked, new
<1>7. (v9.arrived \/ new) = v9.arrived
  BY <1>4, <1>6
<1>8. v9.post + Statistics!Bit(v2 /\ (v9.arrived \/ new)) = v9.post
  <2>1. Statistics!Bit(v2 /\ (v9.arrived \/ new)) = 0
    BY <1>4 DEF Statistics!Bit
  <2> QED
    BY <2>1, <1>3
<1>9. Statistics!Target(f) = [commanded |-> asked, arrived |-> v9.arrived, at |-> v9.at,
                   near |-> v9.near, post |-> v9.post]
  BY <1>4, <1>5, <1>7, <1>8
<1>10. v9 = [commanded |-> v9.commanded, arrived |-> v9.arrived, at |-> v9.at,
                 near |-> v9.near, post |-> v9.post]
  BY <1>1
<1> QED
  BY <1>4, <1>9, <1>10

-----------------------------------------------------------------------------
\* What does not move stays as it is.
LEMMA StatisticsEpisodeStands ==
  ASSUME Statistics!EpisodeIs, v11' = v11, v3' = v3, v1' \in Nat,
         v2' \in BOOLEAN, v2' => Statistics!Duration = v1'
  PROVE  Statistics!EpisodeIs'
BY DEF Statistics!EpisodeIs, Statistics!Duration

LEMMA StatisticsHistoryStands ==
  ASSUME Statistics!HistoryIs, v11' = v11, v4' = v4
  PROVE  Statistics!HistoryIs'
BY DEF Statistics!HistoryIs, Statistics!Latest, Statistics!Action, Statistics!Steps,
   Statistics!Duration

LEMMA StatisticsRatesStand ==
  ASSUME Statistics!RatesAre, v11' = v11, v5' = v5
  PROVE  Statistics!RatesAre'
BY DEF Statistics!RatesAre, Statistics!Total, Statistics!Later, Statistics!Third,
   Statistics!Change, Statistics!Bend, Statistics!Steps, Statistics!Duration

LEMMA StatisticsContactsStand ==
  ASSUME Statistics!ContactsAre, v11' = v11, v6' = v6
  PROVE  Statistics!ContactsAre'
BY DEF Statistics!ContactsAre, Statistics!Ends, Statistics!Single, Statistics!Longest,
   Statistics!Switched, Statistics!Later, Statistics!Steps, Statistics!Duration

LEMMA StatisticsStillStands ==
  ASSUME Statistics!StillIs, v11' = v11, v8' = v8
  PROVE  Statistics!StillIs'
<1>1. /\ Statistics!Quiet' = Statistics!Quiet /\ Statistics!Action' = Statistics!Action /\ Statistics!Power' = Statistics!Power /\ Statistics!Plus' = Statistics!Plus
      /\ Statistics!Minus' = Statistics!Minus
  BY DEF Statistics!Quiet, Statistics!Action, Statistics!Power, Statistics!Plus,
     Statistics!Minus, Statistics!Steps, Statistics!Duration
<1>2. /\ Statistics!Later(Statistics!Quiet)' = Statistics!Later(Statistics!Quiet) /\ Statistics!Third(Statistics!Quiet)' = Statistics!Third(Statistics!Quiet)
      /\ Statistics!Change' = Statistics!Change /\ Statistics!Bend' = Statistics!Bend
  BY <1>1 DEF Statistics!Later, Statistics!Third, Statistics!Change, Statistics!Bend,
     Statistics!Steps, Statistics!Duration
<1>3. Statistics!Moved' = Statistics!Moved
  BY DEF Statistics!Moved, Statistics!Place, Statistics!Steps, Statistics!Duration
<1>4. (Statistics!Moved \cap Statistics!Quiet)' = Statistics!Moved \cap Statistics!Quiet
  BY <1>1, <1>3
<1>5. /\ Statistics!Total(Statistics!Quiet, Statistics!Action)' = Statistics!Total(Statistics!Quiet, Statistics!Action)
      /\ Statistics!Total(Statistics!Quiet, Statistics!Power)' = Statistics!Total(Statistics!Quiet, Statistics!Power)
      /\ Statistics!Total(Statistics!Plus, Statistics!Action)' = Statistics!Total(Statistics!Plus, Statistics!Action)
      /\ Statistics!Total(Statistics!Minus, Statistics!Action)' = Statistics!Total(Statistics!Minus, Statistics!Action)
      /\ Statistics!Total(Statistics!Later(Statistics!Quiet), Statistics!Change)' = Statistics!Total(Statistics!Later(Statistics!Quiet), Statistics!Change)
      /\ Statistics!Total(Statistics!Third(Statistics!Quiet), Statistics!Bend)' = Statistics!Total(Statistics!Third(Statistics!Quiet), Statistics!Bend)
  BY <1>1, <1>2
<1> QED
  BY <1>1, <1>2, <1>4, <1>5 DEF Statistics!StillIs

LEMMA StatisticsTotalsStand ==
  ASSUME Statistics!TotalsAre, v11' = v11, v7'.place \in BOOLEAN,
         v7' = [v7 EXCEPT !.place = v7'.place],
         v2' => v7'.place = Statistics!Latest(Statistics!Place, FALSE)
  PROVE  Statistics!TotalsAre'
<1> DEFINE peak == Statistics!Max({0} \cup {Statistics!Action[i] : i \in Statistics!Steps})
<1>1. /\ Statistics!Duration' = Statistics!Duration /\ Statistics!Steps' = Statistics!Steps /\ Statistics!Action' = Statistics!Action
      /\ Statistics!Both' = Statistics!Both /\ Statistics!LeftOnly' = Statistics!LeftOnly /\ Statistics!RightOnly' = Statistics!RightOnly
      /\ Statistics!Airborne' = Statistics!Airborne
  BY DEF Statistics!Duration, Statistics!Steps, Statistics!Action, Statistics!Both,
     Statistics!LeftOnly, Statistics!RightOnly, Statistics!Airborne
<1>2. Statistics!Moved' = Statistics!Moved /\ Statistics!Latest(Statistics!Place, FALSE)' = Statistics!Latest(Statistics!Place, FALSE)
  BY DEF Statistics!Moved, Statistics!Latest, Statistics!Place, Statistics!Steps,
     Statistics!Duration
<1>3. peak' = peak /\ Statistics!Total(Statistics!Steps, Statistics!Action)' = Statistics!Total(Statistics!Steps, Statistics!Action)
  BY <1>1
<1>4. v7 = [frames |-> Statistics!Duration, sum |-> Statistics!Total(Statistics!Steps, Statistics!Action), peak |-> peak,
                both |-> Statistics!Cardinality(Statistics!Both), leftOnly |-> Statistics!Cardinality(Statistics!LeftOnly),
                rightOnly |-> Statistics!Cardinality(Statistics!RightOnly), airborne |-> Statistics!Cardinality(Statistics!Airborne),
                path |-> Statistics!Cardinality(Statistics!Moved), place |-> v7.place]
  BY DEF Statistics!TotalsAre
<1> HIDE DEF peak
<1>5. v7' = [frames |-> Statistics!Duration, sum |-> Statistics!Total(Statistics!Steps, Statistics!Action), peak |-> peak,
                 both |-> Statistics!Cardinality(Statistics!Both), leftOnly |-> Statistics!Cardinality(Statistics!LeftOnly),
                 rightOnly |-> Statistics!Cardinality(Statistics!RightOnly), airborne |-> Statistics!Cardinality(Statistics!Airborne),
                 path |-> Statistics!Cardinality(Statistics!Moved), place |-> v7'.place]
  BY <1>4
<1>6. v7' = [frames |-> Statistics!Duration', sum |-> Statistics!Total(Statistics!Steps, Statistics!Action)', peak |-> peak',
                 both |-> Statistics!Cardinality(Statistics!Both'), leftOnly |-> Statistics!Cardinality(Statistics!LeftOnly'),
                 rightOnly |-> Statistics!Cardinality(Statistics!RightOnly'), airborne |-> Statistics!Cardinality(Statistics!Airborne'),
                 path |-> Statistics!Cardinality(Statistics!Moved'), place |-> v7'.place]
  BY <1>1, <1>2, <1>3, <1>5
<1> QED
  BY <1>2, <1>6 DEF Statistics!TotalsAre, peak

LEMMA StatisticsTargetStands ==
  ASSUME Statistics!TargetIs, v11' = v11, v3' = v3, v9'.commanded \in BOOLEAN,
         v9' = [v9 EXCEPT !.commanded = v9'.commanded],
         v2' => (v9'.commanded <=> v3 < v1')
  PROVE  Statistics!TargetIs'
<1>1. Statistics!Duration' = Statistics!Duration /\ Statistics!Commanded' = Statistics!Commanded /\ Statistics!Place' = Statistics!Place
  BY DEF Statistics!Duration, Statistics!Commanded, Statistics!Place, Statistics!Steps
<1>2. Statistics!Crossed' = Statistics!Crossed
  BY <1>1 DEF Statistics!Crossed
<1>3. v9 = [commanded |-> v9.commanded, arrived |-> Statistics!Crossed # {},
                at |-> IF Statistics!Crossed = {} THEN 0 ELSE Statistics!Min(Statistics!Crossed),
                near |-> IF Statistics!Commanded = {} THEN Statistics!Missing ELSE Statistics!Place[Statistics!Duration],
                post |-> IF Statistics!Crossed = {} THEN 0 ELSE Statistics!Duration - Statistics!Min(Statistics!Crossed) + 1]
  BY DEF Statistics!TargetIs
<1>4. v9' = [commanded |-> v9'.commanded, arrived |-> Statistics!Crossed # {},
                 at |-> IF Statistics!Crossed = {} THEN 0 ELSE Statistics!Min(Statistics!Crossed),
                 near |-> IF Statistics!Commanded = {} THEN Statistics!Missing ELSE Statistics!Place[Statistics!Duration],
                 post |-> IF Statistics!Crossed = {} THEN 0 ELSE Statistics!Duration - Statistics!Min(Statistics!Crossed) + 1]
  BY <1>3
<1> QED
  BY <1>1, <1>2, <1>4 DEF Statistics!TargetIs

LEMMA StatisticsHoldStands ==
  ASSUME Statistics!HoldIs, v11' = v11, v10' = v10
  PROVE  Statistics!HoldIs'
<1>1. Statistics!Duration' = Statistics!Duration /\ Statistics!Upright' = Statistics!Upright /\ Statistics!Held' = Statistics!Held /\ Statistics!Steps' = Statistics!Steps
  BY DEF Statistics!Duration, Statistics!Upright, Statistics!Held, Statistics!Steps
<1>2. Statistics!Longest(Statistics!Upright)' = Statistics!Longest(Statistics!Upright)
  BY <1>1 DEF Statistics!Longest
<1>3. Statistics!Ends(v10.count, Statistics!Upright)' <=> Statistics!Ends(v10.count, Statistics!Upright)
  BY <1>1 DEF Statistics!Ends
<1> QED
  BY <1>1, <1>2, <1>3 DEF Statistics!HoldIs

LEMMA StatisticsEpisodeKept ==
  ASSUME Statistics!EpisodeIs, v2, NEW f \in Statistics!Frames, v11' = Append(v11, f),
         v3' = v3, v1' = v1 + 1, v2' \in BOOLEAN
  PROVE  Statistics!EpisodeIs'
<1>1. v11' \in Seq(Statistics!Frames) /\ Statistics!Duration' = Statistics!Duration + 1
  BY StatisticsFrameAdded
<1>2. v1 \in Nat /\ v3 \in Nat /\ Statistics!Duration = v1
  BY DEF Statistics!EpisodeIs
<1> QED
  BY <1>1, <1>2 DEF Statistics!EpisodeIs

LEMMA StatisticsStepPreserves ==
  ASSUME Statistics!IInv, [Statistics!Next]_Statistics!vars
  PROVE  Statistics!IInv'
<1> USE DEF Statistics!IInv
<1>1. CASE UNCHANGED Statistics!vars
  <2>1. UNCHANGED <<v1, v2, v3, v4, v5, v6, v7, v8, v9,
                    v10, v11>>
    BY <1>1 DEF Statistics!vars
  <2>2. v1' \in Nat /\ v2' \in BOOLEAN /\ (v2' => Statistics!Duration = v1')
    BY <2>1 DEF Statistics!EpisodeIs
  <2>3. Statistics!EpisodeIs'
    BY <2>1, <2>2, StatisticsEpisodeStands
  <2>4. Statistics!HistoryIs' /\ Statistics!RatesAre' /\ Statistics!ContactsAre' /\ Statistics!StillIs' /\ Statistics!HoldIs'
    BY <2>1, StatisticsHistoryStands, StatisticsRatesStand, StatisticsContactsStand,
       StatisticsStillStands, StatisticsHoldStands
  <2>5. Statistics!TotalsAre'
    <3>1. /\ v7'.place \in BOOLEAN /\ v7' = [v7 EXCEPT !.place = v7'.place]
          /\ v2' => v7'.place = Statistics!Latest(Statistics!Place, FALSE)
      BY <2>1 DEF Statistics!TotalsAre
    <3> QED
      BY <2>1, <3>1, StatisticsTotalsStand
  <2>6. Statistics!TargetIs'
    <3>1. /\ v9'.commanded \in BOOLEAN
          /\ v9' = [v9 EXCEPT !.commanded = v9'.commanded]
          /\ v2' => (v9'.commanded <=> v3 < v1')
      BY <2>1 DEF Statistics!TargetIs
    <3> QED
      BY <2>1, <3>1, StatisticsTargetStands
  <2> QED
    BY <2>3, <2>4, <2>5, <2>6
<1>2. ASSUME NEW f \in Statistics!Frames, NEW done \in BOOLEAN, Statistics!Frame(f, done)
      PROVE  Statistics!IInv'
  <2>1. /\ v5' = Statistics!Rates(f) /\ v6' = Statistics!Contacts(f) /\ v9' = Statistics!Target(f)
        /\ v7' = Statistics!Totals(f) /\ v8' = Statistics!Stationary(f) /\ v4' = Statistics!History(f)
        /\ v10' = Statistics!Hold(f) /\ v11' = (IF v2 THEN Append(v11, f) ELSE v11)
        /\ v2' = (v2 /\ ~done) /\ v1' = v1 + 1 /\ v3' = v3
    BY <1>2 DEF Statistics!Frame
  <2>2. v2' \in BOOLEAN /\ (v2' => v2) /\ v1' \in Nat
    BY <2>1 DEF Statistics!EpisodeIs
  <2>3. CASE v2
    <3>1. v11' = Append(v11, f)
      BY <2>1, <2>3
    <3>2. Statistics!EpisodeIs'
      BY <2>1, <2>2, <2>3, <3>1, StatisticsEpisodeKept
    <3>3. Statistics!HistoryIs'
      BY <2>1, <2>3, <3>1, StatisticsHistoryKept
    <3>4. Statistics!RatesAre'
      BY <2>1, <2>3, <3>1, StatisticsRatesKept
    <3>5. Statistics!ContactsAre'
      BY <2>1, <2>3, <3>1, StatisticsContactsKept
    <3>6. Statistics!TotalsAre'
      BY <2>1, <2>3, <3>1, StatisticsTotalsKept
    <3>7. Statistics!StillIs'
      BY <2>1, <2>3, <3>1, StatisticsStillKept
    <3>8. Statistics!TargetIs'
      BY <2>1, <2>3, <3>1, StatisticsTargetKept
    <3>9. Statistics!HoldIs'
      BY <2>1, <2>3, <3>1, StatisticsHoldKept
    <3> QED
      BY <3>2, <3>3, <3>4, <3>5, <3>6, <3>7, <3>8, <3>9
  <2>4. CASE ~v2
    <3>1. v11' = v11 /\ ~v2'
      BY <2>1, <2>2, <2>4
    <3>2. Statistics!EpisodeIs'
      BY <2>1, <2>2, <3>1, StatisticsEpisodeStands
    <3>3. Statistics!HistoryIs'
      <4>1. v4' = v4
        BY <2>1, <2>4 DEF Statistics!History
      <4> QED
        BY <3>1, <4>1, StatisticsHistoryStands
    <3>4. Statistics!RatesAre'
      <4>1. v5' = v5
        BY <2>1, <2>4, StatisticsRatesIdle
      <4> QED
        BY <3>1, <4>1, StatisticsRatesStand
    <3>5. Statistics!ContactsAre'
      <4>1. v6' = v6
        BY <2>1, <2>4, StatisticsContactsIdle
      <4> QED
        BY <3>1, <4>1, StatisticsContactsStand
    <3>6. Statistics!TotalsAre'
      <4>1. v7' = [v7 EXCEPT !.place = f.near]
        BY <2>1, <2>4, StatisticsTotalsIdle
      <4>2. f.near \in BOOLEAN
        BY StatisticsFrameIs
      <4>3. v7 = [frames |-> v7.frames, sum |-> v7.sum, peak |-> v7.peak,
                      both |-> v7.both, leftOnly |-> v7.leftOnly,
                      rightOnly |-> v7.rightOnly, airborne |-> v7.airborne,
                      path |-> v7.path, place |-> v7.place]
        BY DEF Statistics!TotalsAre
      <4>4. v7'.place = f.near
        BY <4>1, <4>3
      <4> QED
        BY <3>1, <4>1, <4>2, <4>4, StatisticsTotalsStand
    <3>7. Statistics!StillIs'
      <4>1. v8' = v8
        BY <2>1, <2>4, StatisticsStillIdle
      <4> QED
        BY <3>1, <4>1, StatisticsStillStands
    <3>8. Statistics!TargetIs'
      <4>1. v9' = [v9 EXCEPT !.commanded = v9'.commanded]
            /\ v9'.commanded \in BOOLEAN
        BY <2>1, <2>4, StatisticsTargetIdle
      <4> QED
        BY <2>1, <3>1, <4>1, StatisticsTargetStands
    <3>9. Statistics!HoldIs'
      <4>1. v10' = v10
        BY <2>1, <2>4, StatisticsHoldIdle
      <4> QED
        BY <3>1, <4>1, StatisticsHoldStands
    <3> QED
      BY <3>2, <3>3, <3>4, <3>5, <3>6, <3>7, <3>8, <3>9
  <2> QED
    BY <2>3, <2>4
<1> QED
  BY <1>1, <1>2 DEF Statistics!Next

-----------------------------------------------------------------------------
LEMMA StatisticsSumOfNothing ==
  ASSUME NEW v
  PROVE  Statistics!Total({}, v) = 0
<1>1. UNION {{i} \X (1..v[i]) : i \in {}} = {}
  OBVIOUS
<1> QED
  BY <1>1, FS_EmptySet, StatisticsFinite DEF Statistics!Total

LEMMA StatisticsInitIInv ==
  ASSUME Statistics!Init
  PROVE  Statistics!IInv
<1>1. /\ v11 = <<>> /\ v1 = 0 /\ v2 = TRUE /\ v3 \in Nat
  BY StatisticsParameters DEF Statistics!Init
<1>2. Statistics!Duration = 0
  BY <1>1 DEF Statistics!Duration
<1>3. Statistics!Steps = {}
  <2>1. 1..0 = {}
    OBVIOUS
  <2> QED
    BY <1>2, <2>1 DEF Statistics!Steps
<1>4. /\ Statistics!Later(Statistics!Steps) = {} /\ Statistics!Third(Statistics!Steps) = {} /\ Statistics!Both = {} /\ Statistics!LeftOnly = {}
      /\ Statistics!RightOnly = {} /\ Statistics!Airborne = {} /\ Statistics!Single = {} /\ Statistics!Upright = {}
  BY <1>3 DEF Statistics!Later, Statistics!Third, Statistics!Both, Statistics!LeftOnly,
     Statistics!RightOnly, Statistics!Airborne, Statistics!Single, Statistics!Upright
<1>5. /\ Statistics!Switched = {} /\ Statistics!Moved = {} /\ Statistics!Quiet = {} /\ Statistics!Plus = {} /\ Statistics!Minus = {}
      /\ Statistics!Later(Statistics!Quiet) = {} /\ Statistics!Third(Statistics!Quiet) = {} /\ Statistics!Moved \cap Statistics!Quiet = {}
  <2>1. Statistics!Switched = {} /\ Statistics!Moved = {} /\ Statistics!Quiet = {}
    BY <1>3, <1>4 DEF Statistics!Switched, Statistics!Moved, Statistics!Quiet
  <2>2. Statistics!Plus = {} /\ Statistics!Minus = {}
    BY <2>1 DEF Statistics!Plus, Statistics!Minus
  <2>3. Statistics!Later(Statistics!Quiet) = {} /\ Statistics!Third(Statistics!Quiet) = {} /\ Statistics!Moved \cap Statistics!Quiet = {}
    BY <2>1 DEF Statistics!Later, Statistics!Third
  <2> QED
    BY <2>1, <2>2, <2>3
<1>6. Statistics!Commanded = {} /\ Statistics!Crossed = {} /\ Statistics!Held = {}
  <2>1. Statistics!Commanded = {} /\ Statistics!Held = {}
    BY <1>3 DEF Statistics!Commanded, Statistics!Held
  <2> QED
    BY <2>1 DEF Statistics!Crossed
<1>7. /\ Statistics!Total({}, Statistics!Action) = 0 /\ Statistics!Total({}, Statistics!Power) = 0 /\ Statistics!Total({}, Statistics!Change) = 0
      /\ Statistics!Total({}, Statistics!Bend) = 0 /\ Statistics!Cardinality({}) = 0
  BY StatisticsSumOfNothing, FS_EmptySet, StatisticsFinite
<1>8. \A S : Statistics!Longest(S) = 0
  <2> TAKE S
  <2>1. {m \in Statistics!Steps : \E i \in 0..(Statistics!Duration - m) : (i + 1)..(i + m) \subseteq S} = {}
    BY <1>3
  <2>2. {0} \cup {m \in Statistics!Steps : \E i \in 0..(Statistics!Duration - m) : (i + 1)..(i + m) \subseteq S} = {0}
    BY <2>1
  <2>3. Statistics!Max({0}) = 0
    BY StatisticsMaxIs
  <2> QED
    BY <2>2, <2>3 DEF Statistics!Longest
<1>9. Statistics!Max({0} \cup {Statistics!Action[i] : i \in Statistics!Steps}) = 0
  <2>1. {0} \cup {Statistics!Action[i] : i \in Statistics!Steps} = {0}
    BY <1>3
  <2>2. Statistics!Max({0}) = 0
    BY StatisticsMaxIs
  <2> QED
    BY <2>1, <2>2
<1>10. \A S : Statistics!Ends(0, S)
  <2>1. 0 \in 0..0 /\ (0 - 0 + 1)..0 = {} /\ ~(0 < 0)
    OBVIOUS
  <2> QED
    BY <1>2, <2>1 DEF Statistics!Ends
<1>11. Statistics!EpisodeIs
  BY <1>1, <1>2 DEF Statistics!EpisodeIs
<1>12. Statistics!HistoryIs
  BY <1>2 DEF Statistics!Init, Statistics!HistoryIs, Statistics!Latest
<1>13. Statistics!RatesAre
  BY <1>4, <1>7 DEF Statistics!Init, Statistics!RatesAre
<1>14. Statistics!ContactsAre
  <2>1. v6 = [left |-> FALSE, right |-> FALSE, seen |-> FALSE,
                   run |-> 0, longest |-> 0, changes |-> 0]
    BY DEF Statistics!Init
  <2>2. (Statistics!Duration > 0) = FALSE
    BY <1>2
  <2> QED
    BY <1>2, <1>5, <1>7, <1>8, <1>10, <2>1, <2>2 DEF Statistics!ContactsAre
<1>15. Statistics!TotalsAre
  <2>1. v7 = [frames |-> 0, sum |-> 0, peak |-> 0, both |-> 0, leftOnly |-> 0,
                  rightOnly |-> 0, airborne |-> 0, path |-> 0, place |-> FALSE]
    BY DEF Statistics!Init
  <2>2. Statistics!Latest(Statistics!Place, FALSE) = FALSE
    BY <1>2 DEF Statistics!Latest
  <2>3. Statistics!Total(Statistics!Steps, Statistics!Action) = 0
    BY <1>3, <1>7
  <2> QED
    BY <1>2, <1>4, <1>5, <1>7, <1>9, <2>1, <2>2, <2>3 DEF Statistics!TotalsAre
<1>16. Statistics!StillIs
  <2>1. v8 = [frames |-> 0, sum |-> 0, squares |-> 0, alternating |-> 0,
                 first |-> 0, firstN |-> 0, second |-> 0, secondN |-> 0, path |-> 0]
    BY DEF Statistics!Init
  <2>2. Statistics!Total(Statistics!Quiet, Statistics!Action) = 0 /\ Statistics!Total(Statistics!Quiet, Statistics!Power) = 0
        /\ Statistics!Total(Statistics!Plus, Statistics!Action) - Statistics!Total(Statistics!Minus, Statistics!Action) = 0
    BY <1>5, <1>7
  <2>3. Statistics!Total(Statistics!Later(Statistics!Quiet), Statistics!Change) = 0 /\ Statistics!Total(Statistics!Third(Statistics!Quiet), Statistics!Bend) = 0
    BY <1>5, <1>7
  <2>4. Statistics!Cardinality(Statistics!Quiet) = 0 /\ Statistics!Cardinality(Statistics!Moved \cap Statistics!Quiet) = 0
        /\ Statistics!Cardinality(Statistics!Later(Statistics!Quiet)) = 0 /\ Statistics!Cardinality(Statistics!Third(Statistics!Quiet)) = 0
    BY <1>5, <1>7
  <2> QED
    BY <2>1, <2>2, <2>3, <2>4 DEF Statistics!StillIs
<1>17. Statistics!TargetIs
  <2>1. v9 = [commanded |-> FALSE, arrived |-> FALSE, at |-> 0,
                  near |-> Statistics!Missing, post |-> 0]
    BY DEF Statistics!Init
  <2>2. ~(v3 < v1)
    BY <1>1
  <2>3. (Statistics!Crossed # {}) = FALSE
    BY <1>6
  <2> QED
    BY <1>6, <2>1, <2>2, <2>3 DEF Statistics!TargetIs
<1>18. Statistics!HoldIs
  <2>1. v10 = [count |-> 0, success |-> FALSE, from |-> 0, longest |-> 0]
    BY DEF Statistics!Init
  <2>2. (Statistics!Held # {}) = FALSE
    BY <1>6
  <2> QED
    BY <1>6, <1>8, <1>10, <2>1, <2>2 DEF Statistics!HoldIs
<1> QED
  BY <1>11, <1>12, <1>13, <1>14, <1>15, <1>16, <1>17, <1>18 DEF Statistics!IInv

LEMMA StatisticsStatisticsAreRight ==
  ASSUME Statistics!IInv
  PROVE  Statistics!StatisticsAreOfTheEpisode
<1> USE DEF Statistics!IInv
<1>1. Statistics!Means = Statistics!MeansOfEpisode
  <2>1. /\ v5.first = Statistics!Total(Statistics!Later(Statistics!Steps), Statistics!Change) /\ v5.firstN = Statistics!Cardinality(Statistics!Later(Statistics!Steps))
        /\ v5.second = Statistics!Total(Statistics!Third(Statistics!Steps), Statistics!Bend)
        /\ v5.secondN = Statistics!Cardinality(Statistics!Third(Statistics!Steps))
    BY DEF Statistics!RatesAre
  <2>2. /\ v7.frames = Statistics!Duration /\ v7.sum = Statistics!Total(Statistics!Steps, Statistics!Action)
        /\ v7.peak = Statistics!Max({0} \cup {Statistics!Action[i] : i \in Statistics!Steps})
        /\ v7.path = Statistics!Cardinality(Statistics!Moved)
    BY DEF Statistics!TotalsAre
  <2> QED
    BY <2>1, <2>2 DEF Statistics!Means, Statistics!MeansOfEpisode
<1>2. Statistics!Morphology = Statistics!MorphologyOfEpisode
  <2>1. v6.longest = Statistics!Longest(Statistics!Single) /\ v6.changes = Statistics!Cardinality(Statistics!Switched)
    BY DEF Statistics!ContactsAre
  <2>2. /\ v7.frames = Statistics!Duration /\ v7.both = Statistics!Cardinality(Statistics!Both)
        /\ v7.leftOnly = Statistics!Cardinality(Statistics!LeftOnly) /\ v7.rightOnly = Statistics!Cardinality(Statistics!RightOnly)
    BY DEF Statistics!TotalsAre
  <2> QED
    BY <2>1, <2>2 DEF Statistics!Morphology, Statistics!MorphologyOfEpisode
<1>3. Statistics!Quality = Statistics!QualityOfEpisode
  <2>1. /\ v8.frames = Statistics!Cardinality(Statistics!Quiet) /\ v8.sum = Statistics!Total(Statistics!Quiet, Statistics!Action)
        /\ v8.squares = Statistics!Total(Statistics!Quiet, Statistics!Power)
        /\ v8.alternating = Statistics!Total(Statistics!Plus, Statistics!Action) - Statistics!Total(Statistics!Minus, Statistics!Action)
        /\ v8.path = Statistics!Cardinality(Statistics!Moved \cap Statistics!Quiet)
    BY DEF Statistics!StillIs
  <2>2. /\ v8.first = Statistics!Total(Statistics!Later(Statistics!Quiet), Statistics!Change)
        /\ v8.firstN = Statistics!Cardinality(Statistics!Later(Statistics!Quiet))
        /\ v8.second = Statistics!Total(Statistics!Third(Statistics!Quiet), Statistics!Bend)
        /\ v8.secondN = Statistics!Cardinality(Statistics!Third(Statistics!Quiet))
    BY DEF Statistics!StillIs
  <2> QED
    BY <2>1, <2>2 DEF Statistics!Quality, Statistics!QualityOfEpisode
<1>4. Statistics!Arrival = Statistics!ArrivalOfEpisode
  <2>1. /\ v9.arrived = (Statistics!Crossed # {})
        /\ v9.at = IF Statistics!Crossed = {} THEN 0 ELSE Statistics!Min(Statistics!Crossed)
        /\ v9.near = IF Statistics!Commanded = {} THEN Statistics!Missing ELSE Statistics!Place[Statistics!Duration]
        /\ v9.post = IF Statistics!Crossed = {} THEN 0 ELSE Statistics!Duration - Statistics!Min(Statistics!Crossed) + 1
    BY DEF Statistics!TargetIs
  <2>2. Statistics!Present(v9.post, v9.post)
          = IF Statistics!Crossed = {} THEN Statistics!Missing ELSE Statistics!Duration - Statistics!Min(Statistics!Crossed) + 1
    <3>1. CASE Statistics!Crossed = {}
      BY <2>1, <3>1 DEF Statistics!Present
    <3>2. CASE Statistics!Crossed # {}
      <4>1. Statistics!Crossed \subseteq 1..Statistics!Duration /\ Statistics!Crossed \subseteq Nat /\ Statistics!Duration \in Nat
        <5>1. Statistics!Crossed \subseteq Statistics!Steps
          BY DEF Statistics!Crossed, Statistics!Commanded
        <5>2. Statistics!Duration \in Nat /\ Statistics!Steps = 1..Statistics!Duration
          BY StatisticsEpisodeHas
        <5> QED
          BY <5>1, <5>2
      <4>2. Statistics!Min(Statistics!Crossed) \in Statistics!Crossed
        BY <3>2, <4>1, StatisticsLeastOf
      <4>3. Statistics!Min(Statistics!Crossed) \in 1..Statistics!Duration /\ Statistics!Duration \in Nat
        BY <4>1, <4>2, Zenon
      <4>4. Statistics!Duration - Statistics!Min(Statistics!Crossed) + 1 > 0
        BY <4>3
      <4> QED
        BY <2>1, <3>2, <4>4 DEF Statistics!Present
    <3> QED
      BY <3>1, <3>2
  <2> QED
    BY <2>1, <2>2 DEF Statistics!Arrival, Statistics!ArrivalOfEpisode
<1>5. Statistics!Recovery = Statistics!RecoveryOfEpisode
  <2>1. /\ v10.success = (Statistics!Held # {})
        /\ v10.from = IF Statistics!Held = {} THEN 0 ELSE Statistics!Min(Statistics!Held) - HoldSteps
        /\ v10.longest = Statistics!Longest(Statistics!Upright)
    BY DEF Statistics!HoldIs
  <2> QED
    BY <2>1 DEF Statistics!Recovery, Statistics!RecoveryOfEpisode
<1> QED
  BY <1>1, <1>2, <1>3, <1>4, <1>5 DEF Statistics!StatisticsAreOfTheEpisode

-----------------------------------------------------------------------------
\* Suite (EvaluationSuite): results, recordings and files are of the scenarios the loop
\* has passed.
\* Variables: v1 suite, v2 batchSize, v3 file, v4 stage, v5 digests, v6 results, v7 loop,
\*   v8 frames, v9 labels, v10 gates, v11 status, v12 artifacts.

\* Finite sets, in the instance and in the library.
LEMMA SuiteFinite ==
  \A S : (Suite!IsFiniteSet(S) <=> IsFiniteSet(S)) /\ Suite!Cardinality(S) = Cardinality(S)
BY Zenon DEF Suite!IsFiniteSet, IsFiniteSet, Suite!Cardinality, Cardinality

\* A part of a finite set has fewer members, unless it is the whole.
LEMMA SuiteWithin ==
  ASSUME NEW T, Suite!IsFiniteSet(T), NEW S \in SUBSET T
  PROVE  Suite!Cardinality(S) <= Suite!Cardinality(T) /\ (Suite!Cardinality(S) = Suite!Cardinality(T) => S = T)
BY FS_Subset, SuiteFinite

\* One to one between finite sets of one size reaches every member.
LEMMA SuiteOneToOne ==
  ASSUME NEW S, NEW T, NEW f \in Injection(S, T), Suite!IsFiniteSet(T),
         Suite!Cardinality(S) = Suite!Cardinality(T)
  PROVE  f \in Surjection(S, T)
BY FS_Injection, SuiteFinite

\* A finite set of numbers in its order: every member once, from the least up.
LEMMA SuiteOrderedIs ==
  ASSUME NEW S, S \subseteq Nat, Suite!IsFiniteSet(S)
  PROVE  /\ Suite!Cardinality(S) \in Nat
         /\ Suite!Ordered(S) \in [1..Suite!Cardinality(S) -> S]
         /\ \A k, l \in 1..Suite!Cardinality(S) : k < l => Suite!Ordered(S)[k] < Suite!Ordered(S)[l]
         /\ \A i \in S : \E k \in 1..Suite!Cardinality(S) : Suite!Ordered(S)[k] = i
<1> DEFINE n == Suite!Cardinality(S)
           Upto(i) == {j \in S : j <= i}
           R == [i \in S |-> Suite!Cardinality(Upto(i))]
<1>1. n \in Nat /\ Suite!IsFiniteSet(1..n) /\ Suite!Cardinality(1..n) = n
  <2>1. n \in Nat
    BY FS_CardinalityType, SuiteFinite
  <2> QED
    BY <2>1, FS_Interval, SuiteFinite
<1>2. \A i \in S : Suite!IsFiniteSet(Upto(i)) /\ R[i] \in 1..n
  <2> TAKE i \in S
  <2>1. Upto(i) \in SUBSET S /\ i \in Upto(i)
    OBVIOUS
  <2>2. Suite!IsFiniteSet(Upto(i)) /\ Suite!Cardinality(Upto(i)) <= n
    BY <2>1, FS_Subset, SuiteFinite
  <2>3. Suite!Cardinality(Upto(i)) \in Nat /\ Suite!Cardinality(Upto(i)) # 0
    BY <2>1, <2>2, FS_CardinalityType, FS_EmptySet, SuiteFinite
  <2> QED
    BY <2>2, <2>3, <1>1
<1>3. \A i, j \in S : i < j => R[i] < R[j]
  <2> SUFFICES ASSUME NEW i \in S, NEW j \in S, i < j PROVE R[i] < R[j]
    OBVIOUS
  <2>1. Upto(i) \in SUBSET Upto(j) /\ j \in Upto(j) /\ j \notin Upto(i)
    <3>1. \A x \in S : x \in Nat
      OBVIOUS
    <3>2. \A x \in S : x <= i => x <= j
      BY <3>1
    <3>3. ~ (j <= i) /\ j <= j
      BY <3>1
    <3> QED
      BY <3>2, <3>3
  <2>2. Suite!IsFiniteSet(Upto(j)) /\ R[i] \in Nat /\ R[j] \in Nat
    <3>1. Suite!IsFiniteSet(Upto(j)) /\ R[i] \in 1..n /\ R[j] \in 1..n
      BY <1>2
    <3> HIDE DEF n, R, Upto
    <3> QED
      BY <3>1, <1>1
  <2>3. /\ Suite!Cardinality(Upto(i)) <= Suite!Cardinality(Upto(j))
        /\ Suite!Cardinality(Upto(i)) = Suite!Cardinality(Upto(j)) => Upto(i) = Upto(j)
    <3> HIDE DEF Upto, R
    <3> QED
      BY <2>1, <2>2, SuiteWithin
  <2>4. Suite!Cardinality(Upto(i)) # Suite!Cardinality(Upto(j))
    BY <2>1, <2>3
  <2> QED
    BY <2>2, <2>3, <2>4
<1>4. \A i, j \in S : R[i] = R[j] => i = j
  <2> SUFFICES ASSUME NEW i \in S, NEW j \in S, R[i] = R[j] PROVE i = j
    OBVIOUS
  <2>1. i \in Nat /\ j \in Nat /\ R[i] \in Nat /\ R[j] \in Nat
    BY <1>1, <1>2
  <2>2. (i < j => R[i] < R[j]) /\ (j < i => R[j] < R[i])
    BY <1>3
  <2> HIDE DEF R
  <2> QED
    BY <2>1, <2>2
<1>5. R \in Injection(S, 1..n)
  <2>1. R \in [S -> 1..n]
    BY <1>2
  <2> HIDE DEF R
  <2> QED
    BY <2>1, <1>4, Fun_IsInj
<1>6. R \in Surjection(S, 1..n)
  <2> HIDE DEF R
  <2> QED
    BY <1>1, <1>5, SuiteOneToOne DEF n
<1>7. \A k \in 1..n : \E i \in S : R[i] = k
  <2> HIDE DEF R
  <2> QED
    BY <1>6 DEF Surjection
<1>8. \A k \in 1..n : Suite!Ordered(S)[k] \in S /\ R[Suite!Ordered(S)[k]] = k
  <2> TAKE k \in 1..n
  <2>1. Suite!Ordered(S)[k] = CHOOSE i \in S : Suite!Cardinality(Upto(i)) = k
    BY DEF Suite!Ordered
  <2>2. \E i \in S : Suite!Cardinality(Upto(i)) = k
    BY <1>7
  <2> HIDE DEF Upto
  <2>3. Suite!Ordered(S)[k] \in S /\ Suite!Cardinality(Upto(Suite!Ordered(S)[k])) = k
    BY <2>1, <2>2, Zenon
  <2> QED
    BY <2>3
<1>9. Suite!Ordered(S) \in [1..n -> S]
  <2> DEFINE nth(k) == CHOOSE i \in S : Suite!Cardinality(Upto(i)) = k
  <2>1. Suite!Ordered(S) = [k \in 1..n |-> nth(k)]
    BY DEF Suite!Ordered
  <2> HIDE DEF nth
  <2>2. \A k \in 1..n : nth(k) \in S
    BY <2>1, <1>8
  <2> QED
    BY <2>1, <2>2
<1>10. \A i, j \in S : i < j => R[i] < R[j]
  BY <1>3
<1>11. \A i \in S : R[i] \in 1..n
  BY <1>2
<1> HIDE DEF n, R
<1>12. \A k, l \in 1..n : k < l => Suite!Ordered(S)[k] < Suite!Ordered(S)[l]
  <2> SUFFICES ASSUME NEW k \in 1..n, NEW l \in 1..n, k < l
               PROVE  Suite!Ordered(S)[k] < Suite!Ordered(S)[l]
    OBVIOUS
  <2> DEFINE i == Suite!Ordered(S)[k]
             j == Suite!Ordered(S)[l]
  <2>1. i \in S /\ j \in S /\ R[i] = k /\ R[j] = l
    BY <1>8
  <2> HIDE DEF i, j
  <2>2. i \in Nat /\ j \in Nat /\ k \in Nat /\ l \in Nat
    BY <2>1, <1>1
  <2>3. i # j /\ ~ (j < i)
    <3>1. i # j
      BY <2>1, <2>2
    <3>2. ASSUME j < i PROVE FALSE
      <4>1. R[j] < R[i]
        BY <3>2, <2>1, <1>10
      <4> QED
        BY <4>1, <2>1, <2>2
    <3> QED
      BY <3>1, <3>2
  <2>4. i < j
    BY <2>2, <2>3
  <2> QED
    BY <2>4 DEF i, j
<1>13. \A i \in S : \E k \in 1..n : Suite!Ordered(S)[k] = i
  <2> TAKE i \in S
  <2>1. R[i] \in 1..n
    BY <1>11
  <2>2. Suite!Ordered(S)[R[i]] = i
    <3>1. Suite!Ordered(S)[R[i]] \in S /\ R[Suite!Ordered(S)[R[i]]] = R[i]
      BY <2>1, <1>8
    <3> QED
      BY <3>1, <1>4
  <2> QED
    BY <2>1, <2>2
<1> QED
  BY <1>1, <1>9, <1>12, <1>13 DEF n

\* Two members of an ordered set are the same when their numbers are.
LEMMA SuiteOrderedOnce ==
  ASSUME NEW S, S \subseteq Nat, Suite!IsFiniteSet(S),
         NEW k \in 1..Suite!Cardinality(S), NEW l \in 1..Suite!Cardinality(S),
         Suite!Ordered(S)[k] <= Suite!Ordered(S)[l]
  PROVE  k <= l
<1>1. Suite!Ordered(S)[k] \in Nat /\ Suite!Ordered(S)[l] \in Nat /\ k \in Nat /\ l \in Nat
  <2>1. Suite!Ordered(S) \in [1..Suite!Cardinality(S) -> S] /\ Suite!Cardinality(S) \in Nat
    BY SuiteOrderedIs
  <2>2. Suite!Ordered(S)[k] \in S /\ Suite!Ordered(S)[l] \in S
    BY <2>1
  <2>3. \A n \in Nat : \A i \in 1..n : i \in Nat
    OBVIOUS
  <2>4. k \in Nat /\ l \in Nat
    BY <2>1, <2>3
  <2>5. \A i \in S : i \in Nat
    OBVIOUS
  <2> QED
    BY <2>2, <2>4, <2>5
<1>2. l < k => Suite!Ordered(S)[l] < Suite!Ordered(S)[k]
  BY SuiteOrderedIs
<1> QED
  BY <1>1, <1>2

\* A restricted sequence: its members are those at the places kept.
LEMMA SuitePickedIs ==
  ASSUME NEW s, NEW S, S \subseteq Nat, Suite!IsFiniteSet(S)
  PROVE  /\ Suite!Picked(s, S) = [k \in 1..Suite!Cardinality(S) |-> s[Suite!Ordered(S)[k]]]
         /\ Suite!Cardinality(S) \in Nat
         /\ Len(Suite!Picked(s, S)) = Suite!Cardinality(S)
         /\ DOMAIN Suite!Picked(s, S) = 1..Suite!Cardinality(S)
         /\ \A i \in S : \E k \in 1..Suite!Cardinality(S) : Suite!Picked(s, S)[k] = s[i]
<1>1. Suite!Cardinality(S) \in Nat
  BY FS_CardinalityType, SuiteFinite
<1>2. \A i \in S : \E k \in 1..Suite!Cardinality(S) : Suite!Picked(s, S)[k] = s[i]
  <2> TAKE i \in S
  <2>1. PICK k \in 1..Suite!Cardinality(S) : Suite!Ordered(S)[k] = i
    BY SuiteOrderedIs
  <2> QED
    BY <2>1 DEF Suite!Picked
<1>3. Len(Suite!Picked(s, S)) = Suite!Cardinality(S)
  <2> DEFINE n == Suite!Cardinality(S)
             p == [k \in 1..n |-> s[Suite!Ordered(S)[k]]]
  <2>2. Suite!Picked(s, S) = p
    BY DEF Suite!Picked
  <2> HIDE DEF n
  <2>3. n \in Nat
    BY <1>1 DEF n
  <2>4. Len(p) = n
    BY <2>3
  <2> QED
    BY <2>2, <2>4 DEF n
<1> QED
  BY <1>1, <1>2, <1>3 DEF Suite!Picked
-----------------------------------------------------------------------------
\* Whether the m-th family has a k-th scenario.
Valid(m, k) == m \in Suite!Order /\ k \in Suite!Scenarios(m)

\* A suite holds its scenarios once each.
LEMMA SuiteSuiteIs ==
  ASSUME v1 \in Suite!Suites
  PROVE  /\ Len(v1) \in Nat \ {0} /\ DOMAIN v1 = 1..Len(v1)
         /\ \A i \in 1..Len(v1) : v1[i] \in Suite!Ids
         /\ \A i, j \in 1..Len(v1) : v1[i] = v1[j] => i = j
<1>1. Suite!IsFiniteSet(Suite!Ids)
  <2> DEFINE P == 1..PerFamily
  <2>1. Suite!IsFiniteSet(P)
    BY SuiteParameters, FS_Interval, SuiteFinite
  <2>2. Suite!IsFiniteSet(Families \X P)
    BY <2>1, SuiteParameters, FS_Product, SuiteFinite
  <2> DEFINE f == [x \in Families \X P |-> [family |-> x[1], index |-> x[2]]]
  <2>3. f \in Surjection(Families \X P, Suite!Ids)
    <3>1. f \in [Families \X P -> Suite!Ids]
      BY DEF Suite!Ids
    <3>2. \A id \in Suite!Ids : \E x \in Families \X P : f[x] = id
      <4> TAKE id \in Suite!Ids
      <4>1. id.family \in Families /\ id.index \in P
                /\ id = [family |-> id.family, index |-> id.index]
        BY DEF Suite!Ids
      <4>2. <<id.family, id.index>> \in Families \X P
        BY <4>1
      <4>3. f[<<id.family, id.index>>] = id
        BY <4>1, <4>2
      <4> QED
        BY <4>2, <4>3
    <3> HIDE DEF f
    <3> QED
      BY <3>1, <3>2 DEF Surjection
  <2> QED
    BY <2>2, <2>3, FS_Surjection, SuiteFinite
<1>2. Suite!Cardinality(Suite!Ids) \in Nat
  BY <1>1, FS_CardinalityType, SuiteFinite
<1>3. PICK n \in 1..Suite!Cardinality(Suite!Ids) : v1 \in [1..n -> Suite!Ids]
  BY DEF Suite!Suites
<1>4. n \in Nat \ {0} /\ DOMAIN v1 = 1..n /\ Len(v1) = n
  BY <1>2, <1>3
<1>5. \A i, j \in DOMAIN v1 : v1[i] = v1[j] => i = j
  BY DEF Suite!Suites, Suite!IsInjective
<1> QED
  BY <1>3, <1>4, <1>5

\* The places of a suite are finite sets of numbers, whatever selects them.
LEMMA SuitePlacesAre ==
  ASSUME v1 \in Suite!Suites
  PROVE  /\ Suite!Firsts \subseteq Nat /\ Suite!IsFiniteSet(Suite!Firsts)
         /\ \A f : Suite!PlacesOf(f) \subseteq Nat /\ Suite!IsFiniteSet(Suite!PlacesOf(f))
<1>1. 1..Len(v1) \subseteq Nat /\ Suite!IsFiniteSet(1..Len(v1)) /\ DOMAIN v1 = 1..Len(v1)
  BY SuiteSuiteIs, FS_Interval, SuiteFinite
<1>2. Suite!Firsts \in SUBSET (1..Len(v1))
  BY <1>1 DEF Suite!Firsts
<1>3. \A f : Suite!PlacesOf(f) \in SUBSET (1..Len(v1))
  BY <1>1 DEF Suite!PlacesOf
<1> QED
  BY <1>1, <1>2, <1>3, FS_Subset, SuiteFinite

\* The first place of a family of the suite begins it.
LEMMA SuiteFamilyBegins ==
  ASSUME v1 \in Suite!Suites, NEW i \in 1..Len(v1)
  PROVE  \E p \in Suite!Firsts : v1[p].family = v1[i].family
<1> DEFINE S == Suite!PlacesOf(v1[i].family)
<1>1. S \subseteq 1..Len(v1) /\ i \in S /\ Suite!IsFiniteSet(S) /\ S \subseteq Nat
  BY SuiteSuiteIs, SuitePlacesAre DEF Suite!PlacesOf
<1>2. Suite!Cardinality(S) \in Nat \ {0}
  BY <1>1, FS_CardinalityType, FS_EmptySet, SuiteFinite
<1> DEFINE p == Suite!Ordered(S)[1]
<1>3. p \in S
  BY <1>1, <1>2, SuiteOrderedIs
<1>4. \A q \in S : p <= q
  <2> TAKE q \in S
  <2>1. PICK k \in 1..Suite!Cardinality(S) : Suite!Ordered(S)[k] = q
    BY <1>1, SuiteOrderedIs
  <2>2. k = 1 \/ 1 < k
    BY <1>2
  <2>3. 1 < k => p < q
    BY <1>1, <1>2, <2>1, SuiteOrderedIs
  <2>4. p \in Nat /\ q \in Nat
    BY <1>1, <1>3
  <2> HIDE DEF p, S
  <2>5. k = 1 => p = q
    BY <2>1 DEF p
  <2> QED
    BY <2>2, <2>3, <2>4, <2>5
<1> HIDE DEF p
<1>5. p \in 1..Len(v1) /\ v1[p].family = v1[i].family
  BY <1>3, <1>1 DEF Suite!PlacesOf
<1>6. \A q \in 1..(p - 1) : v1[q].family # v1[p].family
  <2> SUFFICES ASSUME NEW q \in 1..(p - 1), v1[q].family = v1[p].family PROVE FALSE
    OBVIOUS
  <2>1. q \in 1..Len(v1) /\ ~ (p <= q)
    BY <1>5, SuiteSuiteIs
  <2>2. q \in S
    BY <2>1, <1>5, SuiteSuiteIs DEF Suite!PlacesOf
  <2> QED
    BY <2>1, <2>2, <1>4
<1> QED
  BY <1>5, <1>6, SuiteSuiteIs DEF Suite!Firsts

\* No two beginnings are of one family.
LEMMA SuiteOneBeginning ==
  ASSUME v1 \in Suite!Suites, NEW p \in Suite!Firsts, NEW q \in Suite!Firsts,
         v1[p].family = v1[q].family
  PROVE  p = q
<1>1. p \in 1..Len(v1) /\ q \in 1..Len(v1)
  BY SuiteSuiteIs DEF Suite!Firsts
<1>2. p \in Int /\ q \in Int /\ p > 0 /\ q > 0
  BY <1>1
<1>3. ~ (p < q)
  <2> SUFFICES ASSUME p < q PROVE FALSE
    OBVIOUS
  <2>1. p \in 1..(q - 1)
    BY <1>2
  <2> QED
    BY <2>1 DEF Suite!Firsts
<1>4. ~ (q < p)
  <2> SUFFICES ASSUME q < p PROVE FALSE
    OBVIOUS
  <2>1. q \in 1..(p - 1)
    BY <1>2
  <2> QED
    BY <2>1 DEF Suite!Firsts
<1> QED
  BY <1>2, <1>3, <1>4

\* The families in order of first appearance: each once, by their beginnings.
LEMMA SuiteFamiliesAre ==
  ASSUME v1 \in Suite!Suites
  PROVE  /\ Len(Suite!FamilyOrder) \in Nat
         /\ \A i \in 1..Len(v1) :
              \E m \in 1..Len(Suite!FamilyOrder) : Suite!FamilyOrder[m] = v1[i].family
         /\ \A m, q \in 1..Len(Suite!FamilyOrder) :
              Suite!First(Suite!FamilyOrder[m]) < Suite!First(Suite!FamilyOrder[q]) <=> m < q
         /\ \A m, q \in 1..Len(Suite!FamilyOrder) : Suite!FamilyOrder[m] = Suite!FamilyOrder[q] => m = q
         /\ \A m \in 1..Len(Suite!FamilyOrder) : Suite!PlacesOf(Suite!FamilyOrder[m]) # {}
<1> DEFINE s == [i \in DOMAIN v1 |-> v1[i].family]
           M == Suite!Cardinality(Suite!Firsts)
<1>1. /\ M \in Nat /\ Len(Suite!FamilyOrder) = M
      /\ Suite!FamilyOrder = [m \in 1..M |-> s[Suite!Ordered(Suite!Firsts)[m]]]
      /\ \A i \in Suite!Firsts : \E m \in 1..M : Suite!FamilyOrder[m] = s[i]
  <2>1. Suite!FamilyOrder = Suite!Picked(s, Suite!Firsts)
    BY DEF Suite!FamilyOrder
  <2> HIDE DEF s
  <2> QED
    BY <2>1, SuitePlacesAre, SuitePickedIs
<1>2. /\ Suite!Ordered(Suite!Firsts) \in [1..M -> Suite!Firsts]
      /\ \A k, l \in 1..M : k < l => Suite!Ordered(Suite!Firsts)[k] < Suite!Ordered(Suite!Firsts)[l]
  BY SuitePlacesAre, SuiteOrderedIs
<1>3. \A i \in Suite!Firsts : i \in 1..Len(v1) /\ s[i] = v1[i].family
  BY SuiteSuiteIs DEF Suite!Firsts
<1> HIDE DEF s
<1>4. \A m \in 1..M : Suite!FamilyOrder[m] = v1[Suite!Ordered(Suite!Firsts)[m]].family
  <2> TAKE m \in 1..M
  <2>1. Suite!FamilyOrder[m] = s[Suite!Ordered(Suite!Firsts)[m]]
    BY <1>1
  <2>2. Suite!Ordered(Suite!Firsts)[m] \in Suite!Firsts
    BY <1>2
  <2> QED
    BY <2>1, <2>2, <1>3
<1>5. \A m \in 1..M : Suite!First(Suite!FamilyOrder[m]) = Suite!Ordered(Suite!Firsts)[m]
  <2> TAKE m \in 1..M
  <2> DEFINE p == Suite!Ordered(Suite!Firsts)[m]
             f == Suite!FamilyOrder[m]
  <2>1. p \in Suite!Firsts /\ v1[p].family = f
    BY <1>2, <1>4
  <2> HIDE DEF p, f
  <2>2. Suite!First(f) \in Suite!Firsts /\ v1[Suite!First(f)].family = f
    BY <2>1 DEF Suite!First
  <2>3. Suite!First(f) = p
    BY <2>1, <2>2, SuiteOneBeginning
  <2> QED
    BY <2>3 DEF p, f
<1>6. \A m, q \in 1..M : Suite!Ordered(Suite!Firsts)[m] < Suite!Ordered(Suite!Firsts)[q] <=> m < q
  <2> SUFFICES ASSUME NEW m \in 1..M, NEW q \in 1..M
               PROVE  Suite!Ordered(Suite!Firsts)[m] < Suite!Ordered(Suite!Firsts)[q] <=> m < q
    OBVIOUS
  <2> DEFINE a == Suite!Ordered(Suite!Firsts)[m]
             b == Suite!Ordered(Suite!Firsts)[q]
  <2>1. a \in Suite!Firsts /\ b \in Suite!Firsts
    BY <1>2
  <2>2. \A i \in Suite!Firsts : i \in Int
    BY SuitePlacesAre
  <2>3. a \in Int /\ b \in Int /\ m \in Int /\ q \in Int
    BY <2>1, <2>2, <1>1
  <2>4. (m < q => a < b) /\ (q < m => b < a) /\ (m = q => a = b)
    BY <1>2
  <2> HIDE DEF a, b
  <2> QED
    <3>1. a < b <=> m < q
      BY <2>3, <2>4
    <3> QED
      BY <3>1 DEF a, b
<1>7. \A i \in 1..Len(v1) : \E m \in 1..M : Suite!FamilyOrder[m] = v1[i].family
  <2> TAKE i \in 1..Len(v1)
  <2>1. PICK p \in Suite!Firsts : v1[p].family = v1[i].family
    BY SuiteFamilyBegins
  <2>2. PICK m \in 1..M : Suite!FamilyOrder[m] = s[p]
    BY <1>1
  <2> QED
    BY <2>1, <2>2, <1>3
<1>8. \A m, q \in 1..M : Suite!First(Suite!FamilyOrder[m]) < Suite!First(Suite!FamilyOrder[q]) <=> m < q
  BY <1>5, <1>6
<1>9. \A m, q \in 1..M : Suite!FamilyOrder[m] = Suite!FamilyOrder[q] => m = q
  <2> SUFFICES ASSUME NEW m \in 1..M, NEW q \in 1..M, Suite!FamilyOrder[m] = Suite!FamilyOrder[q]
               PROVE  m = q
    OBVIOUS
  <2>1. ~ (m < q) /\ ~ (q < m)
    BY <1>8
  <2>2. m \in Int /\ q \in Int
    BY <1>1
  <2> QED
    BY <2>1, <2>2
<1>10. \A m \in 1..M : Suite!PlacesOf(Suite!FamilyOrder[m]) # {}
  <2> TAKE m \in 1..M
  <2> DEFINE p == Suite!Ordered(Suite!Firsts)[m]
  <2>1. p \in Suite!Firsts /\ v1[p].family = Suite!FamilyOrder[m]
    BY <1>2, <1>4
  <2>2. p \in DOMAIN v1
    BY <2>1 DEF Suite!Firsts
  <2>3. p \in Suite!PlacesOf(Suite!FamilyOrder[m])
    BY <2>1, <2>2 DEF Suite!PlacesOf
  <2> QED
    BY <2>3
<1> QED
  BY <1>1, <1>7, <1>8, <1>9, <1>10

\* The scenarios of a family, in the order of the suite.
LEMMA SuiteOwnIs ==
  ASSUME v1 \in Suite!Suites, NEW f
  PROVE  /\ Len(Suite!Own(f)) \in Nat
         /\ DOMAIN Suite!Own(f) = 1..Len(Suite!Own(f))
         /\ Suite!PlacesOf(f) # {} => Len(Suite!Own(f)) > 0
         /\ \A k \in 1..Len(Suite!Own(f)) :
              Suite!Own(f)[k] \in Suite!Ids /\ Suite!Own(f)[k] \in Suite!Range(v1) /\ Suite!Own(f)[k].family = f
         /\ \A k, l \in 1..Len(Suite!Own(f)) : Suite!Place(Suite!Own(f)[k]) < Suite!Place(Suite!Own(f)[l]) <=> k < l
         /\ \A k, l \in 1..Len(Suite!Own(f)) : Suite!Own(f)[k] = Suite!Own(f)[l] => k = l
         /\ \A i \in Suite!PlacesOf(f) : \E k \in 1..Len(Suite!Own(f)) : Suite!Own(f)[k] = v1[i]
<1> DEFINE P == Suite!PlacesOf(f)
           N == Suite!Cardinality(P)
<1>1. P \subseteq Nat /\ Suite!IsFiniteSet(P)
  BY SuitePlacesAre
<1>2. /\ N \in Nat /\ Len(Suite!Own(f)) = N /\ DOMAIN Suite!Own(f) = 1..N
      /\ Suite!Own(f) = [k \in 1..N |-> v1[Suite!Ordered(P)[k]]]
      /\ \A i \in P : \E k \in 1..N : Suite!Own(f)[k] = v1[i]
  BY <1>1, SuitePickedIs DEF Suite!Own
<1>3. /\ Suite!Ordered(P) \in [1..N -> P]
      /\ \A k, l \in 1..N : k < l => Suite!Ordered(P)[k] < Suite!Ordered(P)[l]
  BY <1>1, SuiteOrderedIs
<1>4. \A i \in P : i \in 1..Len(v1) /\ i \in DOMAIN v1 /\ v1[i].family = f /\ i \in Int
  BY SuiteSuiteIs DEF Suite!PlacesOf
<1> HIDE DEF P, N
<1>5. \A k \in 1..N : Suite!Own(f)[k] = v1[Suite!Ordered(P)[k]] /\ Suite!Ordered(P)[k] \in P
  BY <1>2, <1>3
<1>6. \A k \in 1..N : Suite!Own(f)[k] \in Suite!Ids /\ Suite!Own(f)[k] \in Suite!Range(v1) /\ Suite!Own(f)[k].family = f
  BY <1>4, <1>5, SuiteSuiteIs DEF Suite!Range
<1>7. \A k \in 1..N : Suite!Place(Suite!Own(f)[k]) = Suite!Ordered(P)[k]
  <2> TAKE k \in 1..N
  <2> DEFINE p == Suite!Ordered(P)[k]
             id == Suite!Own(f)[k]
  <2>1. p \in DOMAIN v1 /\ v1[p] = id
    BY <1>4, <1>5
  <2> HIDE DEF p, id
  <2>2. Suite!Place(id) \in DOMAIN v1 /\ v1[Suite!Place(id)] = id
    BY <2>1 DEF Suite!Place
  <2>3. Suite!Place(id) = p
    BY <2>1, <2>2, SuiteSuiteIs
  <2> QED
    BY <2>3 DEF p, id
<1>8. \A k, l \in 1..N : Suite!Ordered(P)[k] < Suite!Ordered(P)[l] <=> k < l
  <2> SUFFICES ASSUME NEW k \in 1..N, NEW l \in 1..N
               PROVE  Suite!Ordered(P)[k] < Suite!Ordered(P)[l] <=> k < l
    OBVIOUS
  <2> DEFINE a == Suite!Ordered(P)[k]
             b == Suite!Ordered(P)[l]
  <2>1. a \in Int /\ b \in Int /\ k \in Int /\ l \in Int
    BY <1>4, <1>5, <1>2
  <2>2. (k < l => a < b) /\ (l < k => b < a) /\ (k = l => a = b)
    BY <1>3
  <2> HIDE DEF a, b
  <2>3. a < b <=> k < l
    BY <2>1, <2>2
  <2> QED
    BY <2>3 DEF a, b
<1>9. \A k, l \in 1..N : Suite!Place(Suite!Own(f)[k]) < Suite!Place(Suite!Own(f)[l]) <=> k < l
  BY <1>7, <1>8
<1>10. \A k, l \in 1..N : Suite!Own(f)[k] = Suite!Own(f)[l] => k = l
  <2> SUFFICES ASSUME NEW k \in 1..N, NEW l \in 1..N, Suite!Own(f)[k] = Suite!Own(f)[l]
               PROVE  k = l
    OBVIOUS
  <2>1. Suite!Place(Suite!Own(f)[k]) = Suite!Place(Suite!Own(f)[l]) /\ Suite!Ordered(P)[k] \in Int
    BY <1>4, <1>5
  <2>2. ~ (k < l) /\ ~ (l < k)
    BY <2>1, <1>7, <1>8, <1>9
  <2>3. k \in Int /\ l \in Int
    BY <1>2
  <2> QED
    BY <2>2, <2>3
<1>11. P # {} => N > 0
  <2>1. P # {} => N # 0
    BY <1>1, FS_EmptySet, SuiteFinite DEF N
  <2> QED
    BY <2>1, <1>2
<1> QED
  <2> USE DEF P
  <2> QED
    BY <1>2, <1>6, <1>9, <1>10, <1>11

\* The suite regrouped by family: every scenario has one place in it, and Before is the
\* order of these places.
LEMMA SuiteRegrouped ==
  ASSUME v1 \in Suite!Suites
  PROVE  /\ \A m, k : Valid(m, k) =>
              Suite!At(m, k) \in Suite!Ids /\ Suite!At(m, k) \in Suite!Range(v1) /\ Suite!At(m, k).family = Suite!FamilyOrder[m]
         /\ \A id \in Suite!Range(v1) : \E m, k : Valid(m, k) /\ Suite!At(m, k) = id
         /\ \A m, k, q, l : Valid(m, k) /\ Valid(q, l) =>
              (Suite!Before(Suite!At(m, k), Suite!At(q, l)) <=> m < q \/ (m = q /\ k < l))
         /\ \A m, k, q, l : Valid(m, k) /\ Valid(q, l) /\ Suite!At(m, k) = Suite!At(q, l) => m = q /\ k = l
<1>1. \A m, k : Valid(m, k) =>
              Suite!At(m, k) \in Suite!Ids /\ Suite!At(m, k) \in Suite!Range(v1) /\ Suite!At(m, k).family = Suite!FamilyOrder[m]
  BY SuiteOwnIs DEF Valid, Suite!Order, Suite!Scenarios, Suite!At
<1>2. \A id \in Suite!Range(v1) : \E m, k : Valid(m, k) /\ Suite!At(m, k) = id
  <2> TAKE id \in Suite!Range(v1)
  <2>1. PICK i \in 1..Len(v1) : id = v1[i]
    BY SuiteSuiteIs DEF Suite!Range
  <2>2. PICK m \in 1..Len(Suite!FamilyOrder) : Suite!FamilyOrder[m] = v1[i].family
    BY SuiteFamiliesAre
  <2>3. i \in Suite!PlacesOf(Suite!FamilyOrder[m])
    BY <2>2, SuiteSuiteIs DEF Suite!PlacesOf
  <2>4. PICK k \in 1..Len(Suite!Own(Suite!FamilyOrder[m])) : Suite!Own(Suite!FamilyOrder[m])[k] = v1[i]
    BY <2>3, SuiteOwnIs
  <2> QED
    BY <2>1, <2>4 DEF Valid, Suite!Order, Suite!Scenarios, Suite!At
<1>3. ASSUME NEW m, NEW k, NEW q, NEW l, Valid(m, k), Valid(q, l)
      PROVE  /\ Suite!Before(Suite!At(m, k), Suite!At(q, l)) <=> m < q \/ (m = q /\ k < l)
             /\ Suite!At(m, k) = Suite!At(q, l) => m = q /\ k = l
  <2>1. m \in 1..Len(Suite!FamilyOrder) /\ q \in 1..Len(Suite!FamilyOrder)
    BY <1>3 DEF Valid, Suite!Order
  <2>2. Suite!At(m, k).family = Suite!FamilyOrder[m] /\ Suite!At(q, l).family = Suite!FamilyOrder[q]
    BY <1>1, <1>3
  <2>3. Suite!FamilyOrder[m] = Suite!FamilyOrder[q] <=> m = q
    BY <2>1, SuiteFamiliesAre
  <2>4. Suite!First(Suite!FamilyOrder[m]) < Suite!First(Suite!FamilyOrder[q]) <=> m < q
    BY <2>1, SuiteFamiliesAre
  <2>5. m = q => (Suite!Place(Suite!At(m, k)) < Suite!Place(Suite!At(q, l)) <=> k < l)
    BY <1>3, SuiteOwnIs DEF Valid, Suite!Order, Suite!Scenarios, Suite!At
  <2>6. m = q /\ Suite!At(m, k) = Suite!At(q, l) => k = l
    BY <1>3, SuiteOwnIs DEF Valid, Suite!Order, Suite!Scenarios, Suite!At
  <2>7. Suite!At(m, k) = Suite!At(q, l) => m = q
    BY <2>2, <2>3
  <2> QED
    BY <2>2, <2>3, <2>4, <2>5, <2>6, <2>7 DEF Suite!Before
<1> QED
  BY <1>1, <1>2, <1>3

-----------------------------------------------------------------------------
\* The next batch: as many scenarios as the world has robots or as are left, and the
\* padding only repeats them.
LEMMA SuiteBatchIs ==
  ASSUME Suite!SuiteIsAsked, Suite!LoopIsInTheSuite, Suite!BatchesLeft
  PROVE  /\ Suite!Capacity \in Nat \ {0}
         /\ v7.family \in Suite!Order /\ v7.start \in Nat /\ Suite!End \in Suite!Scenarios(v7.family)
         /\ v7.start < Suite!End /\ Suite!End <= Len(Suite!Family) /\ Len(Suite!Family) \in Nat
         /\ Suite!Batch \in Seq(Suite!Ids) /\ Len(Suite!Batch) = Suite!End - v7.start /\ Len(Suite!Batch) <= Suite!Capacity
         /\ \A i \in 1..Len(Suite!Batch) : Suite!Batch[i] = Suite!At(v7.family, v7.start + i)
         /\ Suite!Padded(Suite!Batch) \in [1..Suite!Capacity -> Suite!Ids]
         /\ \A i \in 1..Len(Suite!Batch) : Suite!Padded(Suite!Batch)[i] = Suite!Batch[i]
         /\ \A i \in 1..Suite!Capacity : \E j \in 1..Len(Suite!Batch) : Suite!Padded(Suite!Batch)[i] = Suite!Batch[j]
<1> DEFINE F == Suite!Family
           n == Len(F)
           c == Suite!Capacity
           e == Suite!End
           b == Suite!Batch
           s == v7.start
<1>1. v1 \in Suite!Suites /\ v2 \in Nat \ {0}
  BY DEF Suite!SuiteIsAsked
<1>2. c \in Nat \ {0}
  BY <1>1, SuiteSuiteIs DEF Suite!Capacity
<1>3. v7.family \in Suite!Order /\ s \in Nat /\ s < n
  BY <1>1, SuiteFamiliesAre DEF Suite!LoopIsInTheSuite, Suite!BatchesLeft, Suite!Order
<1>4. F \in [1..n -> Suite!Ids] /\ n \in Nat /\ F = Suite!Own(Suite!FamilyOrder[v7.family])
  <2>1. F = Suite!Own(Suite!FamilyOrder[v7.family])
    BY DEF Suite!Family
  <2>2. n \in Nat /\ DOMAIN F = 1..n /\ \A k \in 1..n : F[k] \in Suite!Ids
    BY <1>1, <2>1, SuiteOwnIs
  <2>3. F = [k \in 1..n |-> F[k]]
    BY <1>1, <2>1, SuitePlacesAre, SuitePickedIs, <2>2 DEF Suite!Own
  <2> HIDE DEF F
  <2> QED
    BY <2>1, <2>2, <2>3
<1>5. e = IF s + c < n THEN s + c ELSE n
  BY DEF Suite!End
<1>6. b = SubSeq(F, s + 1, e)
  BY DEF Suite!Batch
<1> HIDE DEF F, c, e, b, s
<1>7. e \in 1..n /\ s < e /\ e - s <= c
  BY <1>2, <1>3, <1>4, <1>5
<1>8. F \in Seq(Suite!Ids)
  BY <1>4
<1>9. b \in Seq(Suite!Ids) /\ Len(b) = e - s /\ \A i \in 1..(e - s) : b[i] = F[s + i]
  <2>1. s + 1 \in 1..(n + 1) /\ e \in (s + 1)..n /\ e \in s..n
    BY <1>3, <1>4, <1>7
  <2>2. Len(b) = e - s
    BY <1>3, <1>4, <1>6, <1>7, <1>8
  <2>3. \A i \in 1..(e - s) : b[i] = F[s + i]
    BY <1>3, <1>4, <1>6, <1>7, <1>8
  <2>4. b \in Seq(Suite!Ids)
    BY <1>3, <1>4, <1>6, <1>7, <1>8
  <2> QED
    BY <2>2, <2>3, <2>4
<1>10. \A i \in 1..Len(b) : b[i] = Suite!At(v7.family, s + i)
  BY <1>4, <1>9 DEF Suite!At
<1>11. Len(b) \in Nat \ {0} /\ Len(b) <= c
  BY <1>3, <1>7, <1>9
<1>12. Suite!Padded(b) = [i \in 1..c |-> b[IF i <= Len(b) THEN i ELSE Len(b)]]
  BY DEF Suite!Padded, c
<1>13. \A i \in 1..c : (IF i <= Len(b) THEN i ELSE Len(b)) \in 1..Len(b)
  BY <1>2, <1>11
<1>14. \A i \in 1..Len(b) : b[i] \in Suite!Ids
  BY <1>9
<1>15. Suite!Padded(b) \in [1..c -> Suite!Ids]
  BY <1>12, <1>13, <1>14
<1>16. \A i \in 1..Len(b) : i \in 1..c /\ Suite!Padded(b)[i] = b[i]
  BY <1>2, <1>11, <1>12
<1>17. \A i \in 1..c : \E j \in 1..Len(b) : Suite!Padded(b)[i] = b[j]
  BY <1>12, <1>13
<1>18. e \in Suite!Scenarios(v7.family)
  BY <1>4, <1>7 DEF Suite!Scenarios
<1>19. \A i \in 1..Len(b) : Suite!Padded(b)[i] = b[i]
  BY <1>16
<1>20. e <= n
  BY <1>4, <1>7
<1> QED
  BY <1>2, <1>3, <1>4, <1>7, <1>9, <1>10, <1>11, <1>15, <1>17, <1>18, <1>19, <1>20, Zenon
     DEF F, n, c, e, b, s

\* The results of the padding are dropped.
LEMMA SuiteKeptIs ==
  ASSUME Suite!SuiteIsAsked, Suite!LoopIsInTheSuite, Suite!BatchesLeft
  PROVE  Suite!Kept(Suite!Batch) = Suite!Batch
<1> DEFINE b == Suite!Batch
           p == Suite!Padded(b)
           c == Suite!Capacity
<1>1. /\ c \in Nat /\ b \in Seq(Suite!Ids) /\ Len(b) <= c /\ p \in [1..c -> Suite!Ids]
      /\ \A i \in 1..Len(b) : p[i] = b[i]
  BY SuiteBatchIs
<1> HIDE DEF b, p, c
<1>2. p \in Seq(Suite!Ids) /\ Len(p) = c /\ Len(b) \in Nat
  BY <1>1
<1>3. SubSeq(p, 1, Len(b)) \in Seq(Suite!Ids) /\ Len(SubSeq(p, 1, Len(b))) = Len(b)
  BY <1>1, <1>2
<1>4. \A i \in 1..Len(b) : SubSeq(p, 1, Len(b))[i] = b[i]
  BY <1>1, <1>2
<1>5. SubSeq(p, 1, Len(b)) = b
  BY <1>1, <1>3, <1>4, SeqEqual
<1> QED
  BY <1>5 DEF Suite!Kept, b, p

-----------------------------------------------------------------------------
\* Every step as many times as there are copies, in order.
LEMMA SuiteStepsRepeated ==
  ASSUME NEW c \in Nat \ {0}, NEW n \in Nat, NEW q,
         q = [i \in 1..(c * n) |-> ((i - 1) \div c) + 1]
  PROVE  /\ q \in Seq(Int) /\ Suite!Range(q) = 1..n
         /\ \A i, j \in DOMAIN q : i < j => q[i] <= q[j]
<1>1. c * n \in Nat
  OBVIOUS
<1> DEFINE N == c * n
<1> HIDE DEF N
<1>2. \A a \in Nat : a \div c \in Nat
  OBVIOUS
<1>3. \A a \in Nat : a < c * n => a \div c < n
  OBVIOUS
<1>4. \A a, b \in Nat : a <= b => a \div c <= b \div c
  OBVIOUS
<1>5. \A r \in Nat : (c * r) \div c = r
  OBVIOUS
<1>6. \A r \in Nat : r < n => c * r < c * n /\ c * r \in Nat
  <2> SUFFICES ASSUME NEW r \in Nat, r < n PROVE c * r < c * n /\ c * r \in Nat
    OBVIOUS
  <2>1. c * (r + 1) <= c * n /\ c * (r + 1) = c * r + c
    OBVIOUS
  <2> QED
    BY <2>1
<1>7. N \in Nat /\ q = [i \in 1..N |-> ((i - 1) \div c) + 1]
  BY <1>1 DEF N
<1>8. \A i \in 1..N : i - 1 \in Nat /\ i - 1 < c * n
  BY <1>1 DEF N
<1>9. \A i \in 1..N : q[i] = ((i - 1) \div c) + 1
  BY <1>7
<1>10. \A i \in 1..N : q[i] \in 1..n
  <2> TAKE i \in 1..N
  <2>1. (i - 1) \div c \in Nat /\ (i - 1) \div c < n
    BY <1>2, <1>3, <1>8
  <2> QED
    BY <2>1, <1>9
<1>11. q \in [1..N -> 1..n] /\ q \in [1..N -> Int]
  BY <1>7, <1>10
<1>12. \A r \in 1..n : \E i \in 1..N : q[i] = r
  <2> TAKE r \in 1..n
  <2>1. r - 1 \in Nat /\ r - 1 < n
    OBVIOUS
  <2>2. c * (r - 1) < c * n /\ c * (r - 1) \in Nat
    BY <2>1, <1>6
  <2> DEFINE i == c * (r - 1) + 1
  <2>3. i \in 1..N /\ i - 1 = c * (r - 1)
    BY <2>2, <1>1 DEF N
  <2>4. (i - 1) \div c = r - 1
    BY <2>1, <2>3, <1>5
  <2> HIDE DEF i
  <2>5. q[i] = r
    BY <2>3, <2>4, <1>9
  <2> QED
    BY <2>3, <2>5
<1>13. Suite!Range(q) = 1..n
  <2>1. DOMAIN q = 1..N
    BY <1>7
  <2> QED
    BY <2>1, <1>10, <1>12 DEF Suite!Range
<1>14. \A i, j \in 1..N : i < j => q[i] <= q[j]
  <2> SUFFICES ASSUME NEW i \in 1..N, NEW j \in 1..N, i < j PROVE q[i] <= q[j]
    OBVIOUS
  <2>1. i - 1 \in Nat /\ j - 1 \in Nat /\ i - 1 <= j - 1
    BY <1>7
  <2>2. (i - 1) \div c <= (j - 1) \div c /\ (i - 1) \div c \in Nat /\ (j - 1) \div c \in Nat
    BY <2>1, <1>2, <1>4
  <2> QED
    BY <2>2, <1>9
<1>15. q \in Seq(Int)
  <2> HIDE DEF N
  <2> QED
    BY <1>7, <1>11
<1>16. DOMAIN q = 1..N
  BY <1>7
<1> QED
  BY <1>13, <1>14, <1>15, <1>16

\* What does not touch the suite leaves its order as it was.
LEMMA SuiteOrderStands ==
  ASSUME v1' = v1
  PROVE  /\ Suite!FamilyOrder' = Suite!FamilyOrder /\ Suite!Order' = Suite!Order
         /\ \A m : Suite!Scenarios(m)' = Suite!Scenarios(m)
         /\ \A m, k : Suite!At(m, k)' = Suite!At(m, k)
         /\ \A a, b : Suite!Before(a, b)' = Suite!Before(a, b)
<1>1. Suite!FamilyOrder' = Suite!FamilyOrder /\ Suite!Firsts' = Suite!Firsts
  BY DEF Suite!FamilyOrder, Suite!Firsts
<1>2. \A f : Suite!Own(f)' = Suite!Own(f)
  BY DEF Suite!Own, Suite!PlacesOf
<1>3. Suite!Order' = Suite!Order /\ \A m : Suite!Scenarios(m)' = Suite!Scenarios(m)
  BY <1>1, <1>2 DEF Suite!Order, Suite!Scenarios
<1>4. \A m, k : Suite!At(m, k)' = Suite!At(m, k)
  BY <1>1, <1>2 DEF Suite!At
<1>5. \A a, b : Suite!Before(a, b)' = Suite!Before(a, b)
  BY <1>1 DEF Suite!Before, Suite!First, Suite!Place
<1> QED
  BY <1>1, <1>3, <1>4, <1>5

\* A batch passes the scenarios it runs, and leaves the loop between two batches.
LEMMA SuiteBatchPasses ==
  ASSUME Suite!SuiteIsAsked, Suite!LoopIsInTheSuite, Suite!RunBatch
  PROVE  /\ Suite!LoopIsInTheSuite'
         /\ \A m \in Suite!Order : \A k \in Suite!Scenarios(m) :
              Suite!Passed(m, k)' <=> Suite!Passed(m, k) \/ (m = v7.family /\ v7.start < k /\ k <= Suite!End)
<1> DEFINE f == v7.family
           s == v7.start
           e == Suite!End
           M == Len(Suite!FamilyOrder)
           n == Len(Suite!Family)
<1>1. /\ Suite!BatchesLeft /\ v1' = v1 /\ v1 \in Suite!Suites
      /\ v7' = IF e < n THEN [v7 EXCEPT !.start = e] ELSE [family |-> f + 1, start |-> 0]
      /\ v7 \in [family : Nat \ {0}, start : Nat]
  BY DEF Suite!RunBatch, Suite!SuiteIsAsked, Suite!LoopIsInTheSuite
<1>2. M \in Nat /\ f \in 1..M /\ s \in Nat /\ e \in 1..n /\ s < e /\ n \in Nat
  BY <1>1, SuiteBatchIs, SuiteFamiliesAre DEF Suite!Order, Suite!Scenarios, Suite!Family
<1>3. n = Len(Suite!Own(Suite!FamilyOrder[f]))
  BY DEF Suite!Family
<1>4. Suite!FamilyOrder' = Suite!FamilyOrder /\ \A g : Suite!Scenarios(g)' = Suite!Scenarios(g)
  BY <1>1, SuiteOrderStands
<1>5. \A g : Suite!Own(g)' = Suite!Own(g)
  BY <1>1 DEF Suite!Own, Suite!PlacesOf
<1> HIDE DEF e, n
<1>6. CASE e < n
  <2>1. v7'.family = f /\ v7'.start = e /\ v7' \in [family : Nat \ {0}, start : Nat]
    BY <1>1, <1>2, <1>6
  <2>2. Suite!Family' = Suite!Family
    BY <2>1, <1>4, <1>5 DEF Suite!Family
  <2>3. Suite!LoopIsInTheSuite'
    <3>1. v7'.start < Len(Suite!Family')
      BY <2>1, <2>2, <1>6 DEF n
    <3>2. v7'.family <= Len(Suite!FamilyOrder') + 1
      BY <2>1, <1>2, <1>4
    <3> QED
      BY <2>1, <3>1, <3>2 DEF Suite!LoopIsInTheSuite
  <2>4. ASSUME NEW m \in Suite!Order, NEW k \in Suite!Scenarios(m)
        PROVE  Suite!Passed(m, k)' <=> Suite!Passed(m, k) \/ (m = f /\ s < k /\ k <= e)
    <3>1. m \in Nat /\ k \in Nat
      BY <1>1, <1>2, SuiteOwnIs DEF Suite!Order, Suite!Scenarios
    <3>2. Suite!Passed(m, k)' <=> m < f \/ (m = f /\ k <= e)
      BY <2>1 DEF Suite!Passed
    <3> QED
      BY <3>1, <3>2, <1>2 DEF Suite!Passed
  <2> QED
    BY <2>3, <2>4 DEF e
<1>7. CASE ~ (e < n)
  <2>1. v7'.family = f + 1 /\ v7'.start = 0 /\ v7' \in [family : Nat \ {0}, start : Nat]
    BY <1>1, <1>2, <1>7
  <2>2. Suite!LoopIsInTheSuite'
    <3>1. v7'.family <= Len(Suite!FamilyOrder') + 1
      BY <2>1, <1>2, <1>4
    <3>2. ASSUME Suite!BatchesLeft' PROVE v7'.start < Len(Suite!Family')
      <4>1. f + 1 \in 1..M
        BY <3>2, <2>1, <1>2, <1>4 DEF Suite!BatchesLeft
      <4>2. Suite!Family' = Suite!Own(Suite!FamilyOrder[f + 1])
        BY <2>1, <1>4, <1>5 DEF Suite!Family
      <4>3. Suite!PlacesOf(Suite!FamilyOrder[f + 1]) # {}
        BY <4>1, <1>1, SuiteFamiliesAre
      <4>4. Len(Suite!Own(Suite!FamilyOrder[f + 1])) > 0
        BY <4>3, <1>1, SuiteOwnIs
      <4> QED
        BY <4>2, <4>4, <2>1
    <3> QED
      BY <2>1, <3>1, <3>2 DEF Suite!LoopIsInTheSuite
  <2>3. ASSUME NEW m \in Suite!Order, NEW k \in Suite!Scenarios(m)
        PROVE  Suite!Passed(m, k)' <=> Suite!Passed(m, k) \/ (m = f /\ s < k /\ k <= e)
    <3>1. m \in Nat /\ k \in Nat /\ k > 0
      BY <1>1, <1>2, SuiteOwnIs DEF Suite!Order, Suite!Scenarios
    <3>2. m = f => k <= e
      BY <3>1, <1>2, <1>3, <1>7 DEF Suite!Scenarios
    <3>3. Suite!Passed(m, k)' <=> m < f + 1
      BY <2>1, <3>1 DEF Suite!Passed
    <3> QED
      BY <3>1, <3>2, <3>3, <1>2 DEF Suite!Passed
  <2> QED
    BY <2>2, <2>3 DEF e
<1> QED
  BY <1>6, <1>7

\* The scenarios of a batch, by their places.
LEMMA SuiteBatchScenarios ==
  ASSUME Suite!SuiteIsAsked, Suite!LoopIsInTheSuite, Suite!BatchesLeft
  PROVE  /\ \A i \in 1..Len(Suite!Batch) :
              /\ v7.start + i \in Suite!Scenarios(v7.family)
              /\ Suite!Batch[i] = Suite!At(v7.family, v7.start + i)
              /\ ~Suite!Passed(v7.family, v7.start + i)
              /\ v7.start + i <= Suite!End
         /\ \A k \in Suite!Scenarios(v7.family) : v7.start < k /\ k <= Suite!End =>
              k - v7.start \in 1..Len(Suite!Batch) /\ Suite!At(v7.family, k) = Suite!Batch[k - v7.start]
<1>1. /\ v7.family \in Suite!Order /\ v7.start \in Nat /\ Suite!End \in Nat /\ v7.start < Suite!End
      /\ Suite!End <= Len(Suite!Family) /\ Len(Suite!Family) \in Nat /\ Len(Suite!Batch) = Suite!End - v7.start
      /\ \A i \in 1..Len(Suite!Batch) : Suite!Batch[i] = Suite!At(v7.family, v7.start + i)
  BY SuiteBatchIs DEF Suite!Scenarios, Suite!Family
<1>2. v7.family \in Nat /\ Suite!Scenarios(v7.family) = 1..Len(Suite!Family)
  BY <1>1, SuiteFamiliesAre DEF Suite!Order, Suite!Scenarios, Suite!Family, Suite!SuiteIsAsked
<1> DEFINE s == v7.start
           e == Suite!End
           L == Len(Suite!Batch)
<1>3. \A i \in 1..L : s + i \in 1..Len(Suite!Family) /\ s + i <= e /\ ~ (s + i <= s)
  BY <1>1
<1>4. \A k \in 1..Len(Suite!Family) : s < k /\ k <= e => k - s \in 1..L /\ s + (k - s) = k
  BY <1>1
<1> HIDE DEF s, e, L
<1>5. \A i \in 1..L : ~Suite!Passed(v7.family, s + i)
  BY <1>2, <1>3 DEF Suite!Passed, s
<1>6. \A i \in 1..L : Suite!Batch[i] = Suite!At(v7.family, s + i)
  BY <1>1 DEF L, s
<1>7. \A k \in 1..Len(Suite!Family) : s < k /\ k <= e => Suite!At(v7.family, k) = Suite!Batch[k - s]
  BY <1>4, <1>6
<1> QED
  BY <1>2, <1>3, <1>4, <1>5, <1>6, <1>7 DEF s, e, L

-----------------------------------------------------------------------------
\* A batch adds its scenarios to the results, after those passed before.
LEMMA SuiteBatchResults ==
  ASSUME Suite!SuiteIsAsked, Suite!LoopIsInTheSuite, Suite!ResultsArePassed, Suite!RunBatch
  PROVE  v6' \in Seq(Suite!Ids) /\ Suite!ResultsArePassed'
<1>1. /\ Suite!BatchesLeft /\ v1' = v1 /\ v1 \in Suite!Suites /\ v4 = "run" /\ v4' = "run"
      /\ v6 \in Seq(Suite!Ids) /\ Suite!Batch \in Seq(Suite!Ids) /\ v6' = v6 \o Suite!Batch
      /\ v7.family \in Suite!Order
  BY SuiteKeptIs, SuiteBatchIs DEF Suite!RunBatch, Suite!SuiteIsAsked
<1> DEFINE f == v7.family
           s == v7.start
           b == Suite!Batch
           n == Len(v6)
           L == Len(b)
<1>2. /\ Suite!Order' = Suite!Order /\ \A m : Suite!Scenarios(m)' = Suite!Scenarios(m)
      /\ \A m, k : Suite!At(m, k)' = Suite!At(m, k)
      /\ \A x, y : Suite!Before(x, y)' = Suite!Before(x, y)
  BY <1>1, SuiteOrderStands
<1>3. \A m \in Suite!Order : \A k \in Suite!Scenarios(m) :
        Suite!Passed(m, k)' <=> Suite!Passed(m, k) \/ (m = f /\ s < k /\ k <= Suite!End)
  BY SuiteBatchPasses
<1>4. /\ \A i \in 1..L : /\ s + i \in Suite!Scenarios(f) /\ b[i] = Suite!At(f, s + i)
                         /\ ~Suite!Passed(f, s + i) /\ s + i <= Suite!End
      /\ \A k \in Suite!Scenarios(f) : s < k /\ k <= Suite!End =>
              k - s \in 1..L /\ Suite!At(f, k) = b[k - s]
  BY <1>1, SuiteBatchScenarios
<1>5. /\ \A i \in 1..n : \E m \in Suite!Order : \E k \in Suite!Scenarios(m) :
           Suite!Passed(m, k) /\ v6[i] = Suite!At(m, k)
      /\ \A i, j \in 1..n : i < j => Suite!Before(v6[i], v6[j])
      /\ \A m \in Suite!Order : \A k \in Suite!Scenarios(m) : Suite!Passed(m, k) => Suite!At(m, k) \in Suite!Range(v6)
  BY <1>1 DEF Suite!ResultsArePassed
<1> DEFINE r == v6'
<1>6. r \in Seq(Suite!Ids) /\ Len(r) = n + L /\ n \in Nat /\ L \in Nat /\ DOMAIN r = 1..(n + L)
  BY <1>1
<1>7. \A i \in 1..n : r[i] = v6[i]
  BY <1>1
<1>8. \A i \in 1..L : r[n + i] = b[i]
  BY <1>1
<1>9. \A i \in 1..(n + L) : i \in 1..n \/ (i - n \in 1..L /\ r[i] = b[i - n])
  <2> TAKE i \in 1..(n + L)
  <2>1. i \in 1..n \/ (i - n \in 1..L /\ n + (i - n) = i)
    BY <1>6
  <2> QED
    BY <2>1, <1>8
<1>10. s \in Nat /\ f \in Nat /\ f \in Suite!Order
  BY <1>1, SuiteBatchIs, SuiteFamiliesAre DEF Suite!Order
<1> HIDE DEF f, s, b, n, L, r
<1>11. \A i \in 1..L : \E m \in Suite!Order : \E k \in Suite!Scenarios(m) :
          Suite!Passed(m, k)' /\ b[i] = Suite!At(m, k)
  <2> TAKE i \in 1..L
  <2>1. s + i \in Suite!Scenarios(f) /\ b[i] = Suite!At(f, s + i) /\ s + i <= Suite!End /\ s < s + i
    BY <1>4, <1>10, <1>6
  <2>2. PICK m \in Suite!Order : m = f
    BY <1>10
  <2>3. PICK k \in Suite!Scenarios(m) : k = s + i
    BY <2>1, <2>2
  <2>4. Suite!Passed(m, k)'
    BY <2>1, <2>2, <2>3, <1>3
  <2> QED
    BY <2>1, <2>2, <2>3, <2>4
<1>12. \A i \in 1..(n + L) : \E m \in Suite!Order : \E k \in Suite!Scenarios(m) : Suite!Passed(m, k)' /\ r[i] = Suite!At(m, k)
  <2> TAKE i \in 1..(n + L)
  <2>1. CASE i \in 1..n
    <3>1. PICK m \in Suite!Order : \E k \in Suite!Scenarios(m) : Suite!Passed(m, k) /\ v6[i] = Suite!At(m, k)
      BY <1>5, <2>1
    <3>2. PICK k \in Suite!Scenarios(m) : Suite!Passed(m, k) /\ v6[i] = Suite!At(m, k)
      BY <3>1
    <3> QED
      BY <3>2, <1>3, <1>7, <2>1
  <2>2. CASE i - n \in 1..L /\ r[i] = b[i - n]
    BY <2>2, <1>11
  <2> QED
    BY <2>1, <2>2, <1>9
<1>13. ASSUME NEW i \in 1..(n + L), NEW j \in 1..(n + L), i < j
       PROVE  Suite!Before(r[i], r[j])
  <2>1. CASE j \in 1..n
    <3>1. i \in 1..n
      BY <2>1, <1>6, <1>13
    <3> QED
      BY <3>1, <2>1, <1>5, <1>7, <1>13
  <2>2. CASE j - n \in 1..L /\ r[j] = b[j - n]
    <3>1. r[j] = Suite!At(f, s + (j - n)) /\ s + (j - n) \in Suite!Scenarios(f) /\ Valid(f, s + (j - n))
      BY <2>2, <1>4, <1>1 DEF f, Valid
    <3>2. CASE i \in 1..n
      <4>1. PICK m \in Suite!Order : \E k \in Suite!Scenarios(m) : Suite!Passed(m, k) /\ v6[i] = Suite!At(m, k)
        BY <1>5, <3>2
      <4>2. PICK k \in Suite!Scenarios(m) : Suite!Passed(m, k) /\ v6[i] = Suite!At(m, k)
        BY <4>1
      <4>3. m < f \/ (m = f /\ k <= s)
        BY <4>2 DEF Suite!Passed, f, s
      <4>4. k \in Int /\ j - n \in Nat \ {0}
        BY <2>2, <1>6, <1>1, SuiteOwnIs DEF Suite!Scenarios
      <4>5. m < f \/ (m = f /\ k < s + (j - n))
        BY <4>3, <4>4, <1>10
      <4>6. Valid(m, k) /\ r[i] = Suite!At(m, k)
        BY <4>2, <3>2, <1>7 DEF Valid
      <4> QED
        BY <3>1, <4>5, <4>6, <1>1, SuiteRegrouped
    <3>3. CASE i - n \in 1..L /\ r[i] = b[i - n]
      <4>1. r[i] = Suite!At(f, s + (i - n)) /\ s + (i - n) \in Suite!Scenarios(f) /\ Valid(f, s + (i - n))
        BY <3>3, <1>4, <1>1 DEF f, Valid
      <4>2. s + (i - n) < s + (j - n)
        BY <1>6, <1>10, <1>13
      <4> QED
        BY <3>1, <4>1, <4>2, <1>1, SuiteRegrouped
    <3> QED
      BY <3>2, <3>3, <1>9
  <2> QED
    BY <2>1, <2>2, <1>9
<1>14. Suite!Range(r) = {r[i] : i \in 1..(n + L)}
  BY <1>6 DEF Suite!Range
<1>15. ASSUME NEW m \in Suite!Order, NEW k \in Suite!Scenarios(m), Suite!Passed(m, k)'
       PROVE  Suite!At(m, k) \in Suite!Range(r)
  <2>1. CASE Suite!Passed(m, k)
    <3>1. Suite!At(m, k) \in Suite!Range(v6)
      BY <2>1, <1>5
    <3>2. PICK i \in 1..n : Suite!At(m, k) = v6[i]
      BY <3>1, <1>1 DEF Suite!Range, n
    <3>3. r[i] = Suite!At(m, k) /\ i \in 1..(n + L)
      BY <3>2, <1>6, <1>7
    <3> QED
      BY <3>3, <1>14
  <2>2. CASE m = f /\ s < k /\ k <= Suite!End
    <3>1. k - s \in 1..L /\ Suite!At(m, k) = b[k - s]
      BY <2>2, <1>4
    <3>2. r[n + (k - s)] = Suite!At(m, k) /\ n + (k - s) \in 1..(n + L)
      BY <3>1, <1>6, <1>8
    <3> QED
      BY <3>2, <1>14
  <2> QED
    BY <2>1, <2>2, <1>3, <1>15
<1>16. Suite!ResultsArePassed'
  <2>1. \A i \in DOMAIN v6' : \E m \in Suite!Order' : \E k \in Suite!Scenarios(m)' :
             Suite!Passed(m, k)' /\ v6'[i] = Suite!At(m, k)'
    BY <1>2, <1>6, <1>12 DEF r
  <2>2. \A i, j \in DOMAIN v6' : i < j => Suite!Before(v6'[i], v6'[j])
    BY <1>2, <1>6, <1>13 DEF r
  <2>3. \A m \in Suite!Order' : \A k \in Suite!Scenarios(m)' : Suite!Passed(m, k)' => Suite!At(m, k)' \in Suite!Range(v6')
    BY <1>2, <1>15 DEF r
  <2> QED
    BY <2>1, <2>2, <2>3, <1>1, <1>2 DEF Suite!ResultsArePassed
<1> QED
  BY <1>6, <1>16 DEF r

\* A batch records its scenarios from the first step to the last, and touches no other.
LEMMA SuiteBatchFrames ==
  ASSUME Suite!SuiteIsAsked, Suite!LoopIsInTheSuite, Suite!FramesArePassed, Suite!RunBatch
  PROVE  v8' \in [Suite!Ids -> Seq(Int)] /\ Suite!FramesArePassed'
<1> DEFINE b == Suite!Batch
           c == Suite!Capacity
           p == Suite!Padded(b)
           shown(id) == {i \in 1..c : p[i] = id}
           copies(id) == Suite!Cardinality(shown(id))
           new(id) == [n \in 1..(copies(id) * RolloutSteps) |-> ((n - 1) \div copies(id)) + 1]
<1>1. /\ Suite!BatchesLeft /\ v1' = v1 /\ v1 \in Suite!Suites
      /\ v8 \in [Suite!Ids -> Seq(Int)]
  BY DEF Suite!RunBatch, Suite!SuiteIsAsked
<1>2. v8' = [id \in Suite!Ids |-> v8[id] \o new(id)]
  BY DEF Suite!RunBatch, Suite!Frames
<1>3. /\ c \in Nat \ {0} /\ p \in [1..c -> Suite!Ids] /\ Len(b) <= c /\ Len(b) \in Nat
      /\ \A i \in 1..Len(b) : p[i] = b[i]
      /\ \A i \in 1..c : \E j \in 1..Len(b) : p[i] = b[j]
      /\ v7.family \in Suite!Order
  BY <1>1, SuiteBatchIs
<1> HIDE DEF b, c, p
<1>4. Suite!IsFiniteSet(1..c)
  BY <1>3, FS_Interval, SuiteFinite
<1>5. \A id : shown(id) \in SUBSET (1..c)
  OBVIOUS
<1>6. \A id : copies(id) \in Nat /\ (copies(id) = 0 <=> shown(id) = {})
  <2> TAKE id
  <2>1. Suite!IsFiniteSet(shown(id))
    BY <1>4, <1>5, FS_Subset, SuiteFinite
  <2> HIDE DEF shown
  <2> QED
    BY <2>1, FS_CardinalityType, FS_EmptySet, SuiteFinite
<1>7. \A j \in 1..Len(b) : copies(b[j]) \in Nat \ {0}
  <2> TAKE j \in 1..Len(b)
  <2>1. j \in shown(b[j])
    BY <1>3
  <2>2. shown(b[j]) # {}
    BY <2>1
  <2> HIDE DEF shown
  <2> QED
    BY <2>2, <1>6
<1>8. ASSUME NEW id, \A j \in 1..Len(b) : b[j] # id
      PROVE  copies(id) = 0
  <2>1. shown(id) = {}
    BY <1>3, <1>8
  <2> HIDE DEF shown
  <2> QED
    BY <2>1, <1>6
<1> HIDE DEF shown, copies
<1>9. ASSUME NEW id \in Suite!Ids, copies(id) = 0
      PROVE  v8'[id] = v8[id]
  <2>1. copies(id) * RolloutSteps = 0
    BY <1>9, SuiteParameters
  <2>2. new(id) = <<>>
    BY <2>1
  <2> HIDE DEF new
  <2>3. v8[id] \in Seq(Int) /\ v8'[id] = v8[id] \o <<>>
    BY <1>1, <1>2, <2>2
  <2> QED
    BY <2>3
<1>10. ASSUME NEW id \in Suite!Ids, copies(id) \in Nat \ {0}
       PROVE  /\ new(id) \in Seq(Int) /\ Suite!Range(new(id)) = 1..RolloutSteps
              /\ \A i, j \in DOMAIN new(id) : i < j => new(id)[i] <= new(id)[j]
  BY <1>10, SuiteStepsRepeated, SuiteParameters
<1> HIDE DEF new
<1>11. v8' \in [Suite!Ids -> Seq(Int)]
  <2>1. \A id \in Suite!Ids : v8[id] \o new(id) \in Seq(Int)
    <3> TAKE id \in Suite!Ids
    <3>1. CASE copies(id) = 0
      BY <3>1, <1>1, <1>2, <1>9
    <3>2. CASE copies(id) # 0
      <4>1. new(id) \in Seq(Int)
        BY <3>2, <1>6, <1>10
      <4>2. v8[id] \in Seq(Int)
        BY <1>1
      <4> QED
        BY <4>1, <4>2
    <3> QED
      BY <3>1, <3>2
  <2> QED
    BY <2>1, <1>2
<1>12. /\ Suite!Order' = Suite!Order /\ \A m : Suite!Scenarios(m)' = Suite!Scenarios(m)
       /\ \A m, k : Suite!At(m, k)' = Suite!At(m, k)
  BY <1>1, SuiteOrderStands
<1>13. \A m \in Suite!Order : \A k \in Suite!Scenarios(m) :
         Suite!Passed(m, k)' <=> Suite!Passed(m, k) \/ (m = v7.family /\ v7.start < k /\ k <= Suite!End)
  BY SuiteBatchPasses
<1>14. \A m \in Suite!Order : \A k \in Suite!Scenarios(m) : Valid(m, k) /\ Suite!At(m, k) \in Suite!Ids
  <2>1. \A m \in Suite!Order : \A k \in Suite!Scenarios(m) : Valid(m, k)
    BY DEF Valid
  <2> QED
    BY <2>1, <1>1, SuiteRegrouped
<1>15. ASSUME NEW m \in Suite!Order, NEW k \in Suite!Scenarios(m), m = v7.family, v7.start < k, k <= Suite!End
       PROVE  /\ ~Suite!Passed(m, k) /\ v8'[Suite!At(m, k)] = new(Suite!At(m, k))
              /\ copies(Suite!At(m, k)) \in Nat \ {0}
  <2>1. k - v7.start \in 1..Len(b) /\ Suite!At(m, k) = b[k - v7.start]
    BY <1>1, <1>15, SuiteBatchScenarios DEF b
  <2>2. k \in Int /\ v7.start \in Int /\ m \in Int
    BY <1>1, <1>15, SuiteBatchIs, SuiteOwnIs, SuiteFamiliesAre DEF Suite!Scenarios,
       Suite!Order
  <2>3. ~Suite!Passed(m, k)
    BY <1>15, <2>2 DEF Suite!Passed
  <2>4. copies(Suite!At(m, k)) \in Nat \ {0}
    BY <2>1, <1>7
  <2>5. v8[Suite!At(m, k)] = <<>> /\ Suite!At(m, k) \in Suite!Ids
    BY <2>3, <1>14 DEF Suite!FramesArePassed
  <2>6. new(Suite!At(m, k)) \in Seq(Int)
    BY <2>4, <2>5, <1>10
  <2>7. v8'[Suite!At(m, k)] = <<>> \o new(Suite!At(m, k))
    BY <2>5, <1>2
  <2> QED
    BY <2>3, <2>4, <2>6, <2>7
<1>16. ASSUME NEW m \in Suite!Order, NEW k \in Suite!Scenarios(m),
              ~(m = v7.family /\ v7.start < k /\ k <= Suite!End)
       PROVE  v8'[Suite!At(m, k)] = v8[Suite!At(m, k)]
  <2>1. ASSUME NEW j \in 1..Len(b), b[j] = Suite!At(m, k) PROVE FALSE
    <3>1. /\ v7.start + j \in Suite!Scenarios(v7.family) /\ v7.start + j <= Suite!End
          /\ b[j] = Suite!At(v7.family, v7.start + j)
      BY <1>1, SuiteBatchScenarios DEF b
    <3>2. Valid(v7.family, v7.start + j) /\ Valid(m, k)
      BY <3>1, <1>3, <1>14
    <3>3. m = v7.family /\ k = v7.start + j
      BY <2>1, <3>1, <3>2, <1>1, SuiteRegrouped
    <3>4. v7.start < v7.start + j
      BY <1>1, <1>3, SuiteBatchIs
    <3> QED
      BY <3>1, <3>3, <3>4, <1>16
  <2>2. copies(Suite!At(m, k)) = 0
    BY <2>1, <1>8
  <2> QED
    BY <2>2, <1>9, <1>14
<1>17. ASSUME NEW m \in Suite!Order, NEW k \in Suite!Scenarios(m)
       PROVE  IF Suite!Passed(m, k)'
              THEN /\ Suite!Range(v8'[Suite!At(m, k)]) = 1..RolloutSteps
                   /\ \A i, j \in DOMAIN v8'[Suite!At(m, k)] :
                        i < j => v8'[Suite!At(m, k)][i] <= v8'[Suite!At(m, k)][j]
              ELSE v8'[Suite!At(m, k)] = <<>>
  <2>1. CASE m = v7.family /\ v7.start < k /\ k <= Suite!End
    <3>1. Suite!Passed(m, k)' /\ v8'[Suite!At(m, k)] = new(Suite!At(m, k)) /\ copies(Suite!At(m, k)) \in Nat \ {0}
      BY <2>1, <1>13, <1>15
    <3> QED
      BY <3>1, <1>10, <1>14
  <2>2. CASE ~(m = v7.family /\ v7.start < k /\ k <= Suite!End)
    <3>1. v8'[Suite!At(m, k)] = v8[Suite!At(m, k)] /\ (Suite!Passed(m, k)' <=> Suite!Passed(m, k))
      BY <2>2, <1>13, <1>16
    <3> QED
      BY <3>1 DEF Suite!FramesArePassed
  <2> QED
    BY <2>1, <2>2
<1> QED
  <2>1. Suite!FramesArePassed'
    BY <1>12, <1>17 DEF Suite!FramesArePassed
  <2> QED
    BY <2>1, <1>11

\* A batch labels what no sample has labelled yet, once.
LEMMA SuiteBatchLabels ==
  ASSUME Suite!SuiteIsAsked, Suite!LoopIsInTheSuite, Suite!LabelsAreUnique, Suite!RunBatch
  PROVE  v9' \in Seq(Suite!Ids \X Int) /\ Suite!LabelsAreUnique'
<1> DEFINE c == Suite!Capacity
           p == Suite!Padded(Suite!Batch)
           N == c * RolloutSteps
           shown == [n \in 1..N |-> <<p[((n - 1) % c) + 1], ((n - 1) \div c) + 1>>]
           new == {n \in DOMAIN shown : /\ shown[n] \notin Suite!Range(v9)
                                        /\ \A m \in 1..(n - 1) : shown[m] # shown[n]}
           q == Suite!Picked(shown, new)
           k == Len(v9)
           l == Len(q)
<1>1. /\ Suite!BatchesLeft /\ v9 \in Seq(Suite!Ids \X Int) /\ v9' = v9 \o q
  BY DEF Suite!RunBatch, Suite!SuiteIsAsked, Suite!Label
<1>2. c \in Nat \ {0} /\ p \in [1..c -> Suite!Ids]
  BY <1>1, SuiteBatchIs
<1> HIDE DEF c, p
<1>3. N \in Nat
  BY <1>2, SuiteParameters
<1>4. \A a \in Nat : a % c \in 0..(c - 1) /\ a \div c \in Int
  BY <1>2
<1>5. \A n \in 1..N : ((n - 1) % c) + 1 \in 1..c /\ ((n - 1) \div c) + 1 \in Int
  <2> HIDE DEF N
  <2> TAKE n \in 1..N
  <2>1. n - 1 \in Nat
    BY <1>3
  <2>2. (n - 1) % c \in 0..(c - 1) /\ (n - 1) \div c \in Int
    BY <2>1, <1>4
  <2> QED
    BY <2>2, <1>2
<1>6. \A n \in 1..N : shown[n] \in Suite!Ids \X Int
  BY <1>2, <1>5
<1>7. DOMAIN shown = 1..N
  OBVIOUS
<1> HIDE DEF N, shown
<1>8. new \in SUBSET (1..N) /\ new \subseteq Nat
  BY <1>3, <1>7
<1>9. Suite!IsFiniteSet(new)
  <2>1. Suite!IsFiniteSet(1..N)
    BY <1>3, FS_Interval, SuiteFinite
  <2> QED
    BY <2>1, <1>8, FS_Subset, SuiteFinite
<1>10. \A n \in new : shown[n] \notin Suite!Range(v9) /\ \A m \in 1..(n - 1) : shown[m] # shown[n]
  OBVIOUS
<1> HIDE DEF new
<1>11. /\ Suite!Cardinality(new) \in Nat /\ q = [i \in 1..Suite!Cardinality(new) |-> shown[Suite!Ordered(new)[i]]]
       /\ l = Suite!Cardinality(new) /\ DOMAIN q = 1..l
  BY <1>8, <1>9, SuitePickedIs
<1>12. /\ Suite!Ordered(new) \in [1..Suite!Cardinality(new) -> new]
       /\ \A i, j \in 1..Suite!Cardinality(new) : i < j => Suite!Ordered(new)[i] < Suite!Ordered(new)[j]
  BY <1>8, <1>9, SuiteOrderedIs
<1> HIDE DEF q
<1>13. \A i \in 1..l : Suite!Ordered(new)[i] \in new /\ q[i] = shown[Suite!Ordered(new)[i]]
  BY <1>11, <1>12
<1>14. \A i \in 1..l : q[i] \in Suite!Ids \X Int /\ q[i] \notin Suite!Range(v9)
  BY <1>6, <1>8, <1>10, <1>13
<1>15. q \in Seq(Suite!Ids \X Int)
  <2>1. q = [i \in 1..l |-> q[i]] /\ l \in Nat
    BY <1>11
  <2> HIDE DEF l
  <2>2. q \in [1..l -> Suite!Ids \X Int]
    BY <2>1, <1>14
  <2> QED
    BY <2>1, <2>2
<1>16. ASSUME NEW i \in 1..l, NEW j \in 1..l, i < j
       PROVE  q[i] # q[j]
  <2> DEFINE a == Suite!Ordered(new)[i]
             b == Suite!Ordered(new)[j]
  <2>1. a \in new /\ b \in new /\ a < b /\ q[i] = shown[a] /\ q[j] = shown[b]
    BY <1>11, <1>12, <1>13, <1>16
  <2> HIDE DEF a, b
  <2>2. a \in 1..N /\ b \in 1..N
    BY <2>1, <1>8
  <2>3. a \in 1..(b - 1)
    BY <2>1, <2>2, <1>3
  <2> QED
    BY <2>1, <2>3, <1>10
<1>17. v9' \in Seq(Suite!Ids \X Int)
  BY <1>1, <1>15
<1>18. \A i, j \in 1..k : v9[i] = v9[j] => i = j
  BY <1>1 DEF Suite!LabelsAreUnique, Suite!IsInjective
<1>19. \A i \in 1..k : v9[i] \in Suite!Range(v9)
  BY <1>1 DEF Suite!Range
<1>20. /\ k \in Nat /\ l \in Nat /\ DOMAIN v9' = 1..(k + l)
       /\ \A i \in 1..k : v9'[i] = v9[i]
       /\ \A i \in (k + 1)..(k + l) : v9'[i] = q[i - k]
  BY <1>1, <1>11, <1>15
<1> HIDE DEF k, l
<1>21. ASSUME NEW i \in 1..(k + l), NEW j \in 1..(k + l), i < j
       PROVE  v9'[i] # v9'[j]
  <2>1. CASE j \in 1..k
    <3>1. i \in 1..k /\ i # j
      BY <2>1, <1>20, <1>21
    <3> QED
      BY <3>1, <2>1, <1>18, <1>20
  <2>2. CASE j \in (k + 1)..(k + l)
    <3>1. v9'[j] = q[j - k] /\ j - k \in 1..l
      BY <2>2, <1>20
    <3>2. CASE i \in 1..k
      BY <3>1, <3>2, <1>14, <1>19, <1>20
    <3>3. CASE i \in (k + 1)..(k + l)
      <4>1. v9'[i] = q[i - k] /\ i - k \in 1..l /\ i - k < j - k
        BY <3>3, <1>20, <1>21
      <4> QED
        BY <3>1, <4>1, <1>16
    <3> QED
      BY <3>2, <3>3, <1>20
  <2> QED
    BY <2>1, <2>2, <1>20
<1>22. \A i, j \in 1..(k + l) : v9'[i] = v9'[j] => i = j
  <2> SUFFICES ASSUME NEW i \in 1..(k + l), NEW j \in 1..(k + l), v9'[i] = v9'[j]
               PROVE  i = j
    OBVIOUS
  <2>1. ~ (i < j) /\ ~ (j < i)
    BY <1>21
  <2> QED
    BY <2>1, <1>20
<1>23. Suite!LabelsAreUnique'
  BY <1>20, <1>22 DEF Suite!LabelsAreUnique, Suite!IsInjective
<1> QED
  BY <1>17, <1>23

-----------------------------------------------------------------------------
\* The evaluation begins with nothing passed.
LEMMA SuiteInitIInv ==
  Suite!Init => Suite!IInv
<1> SUFFICES ASSUME Suite!Init PROVE Suite!IInv
  OBVIOUS
<1>1. v1 \in Suite!Suites /\ v2 \in 1..MaxBatch /\ v3 = 0
  BY DEF Suite!Init
<1>2. v7 = [family |-> 1, start |-> 0]
  BY DEF Suite!Init
<1>3. v4 = "start" /\ v11 = ""
  BY DEF Suite!Init
<1>4. v6 = <<>> /\ v9 = <<>> /\ v12 = <<>>
  BY DEF Suite!Init
<1>5. v8 = [i \in Suite!Ids |-> <<>>]
  BY DEF Suite!Init
<1>6. v5 = [manifest |-> -1, loaded |-> -1, after |-> -1]
  BY DEF Suite!Init, Suite!None
<1>7. Suite!SuiteIsAsked
  <2>1. v2 \in Nat \ {0}
    BY <1>1, SuiteParameters
  <2>2. v5 \in [manifest : Int, loaded : Int, after : Int]
    BY <1>6
  <2>3. <<>> \in Seq(Int) /\ <<>> \in Seq(Suite!Ids) /\ <<>> \in Seq(Suite!Ids \X Int)
    OBVIOUS
  <2>4. v8 \in [Suite!Ids -> Seq(Int)]
    BY <1>5, <2>3
  <2> QED
    BY <1>1, <1>4, <2>1, <2>2, <2>3, <2>4 DEF Suite!SuiteIsAsked
<1>8. v7.family = 1 /\ v7.start = 0 /\ v7 \in [family : Nat \ {0}, start : Nat]
  BY <1>2
<1>9. Len(Suite!FamilyOrder) \in Nat
  BY <1>1, SuiteFamiliesAre
<1>10. Suite!LoopIsInTheSuite
  <2>1. ASSUME Suite!BatchesLeft PROVE 0 < Len(Suite!Family)
    <3>1. 1 \in 1..Len(Suite!FamilyOrder) /\ Suite!Family = Suite!Own(Suite!FamilyOrder[1])
      BY <1>8, <1>9, <2>1 DEF Suite!BatchesLeft, Suite!Family
    <3>2. Suite!PlacesOf(Suite!FamilyOrder[1]) # {}
      BY <3>1, <1>1, SuiteFamiliesAre
    <3> QED
      BY <3>1, <3>2, <1>1, SuiteOwnIs
  <2> QED
    BY <1>8, <1>9, <2>1 DEF Suite!LoopIsInTheSuite
<1>11. \A m \in Suite!Order : \A k \in Suite!Scenarios(m) : ~Suite!Passed(m, k) /\ Suite!At(m, k) \in Suite!Ids
  <2> SUFFICES ASSUME NEW m \in Suite!Order, NEW k \in Suite!Scenarios(m)
               PROVE  ~Suite!Passed(m, k) /\ Suite!At(m, k) \in Suite!Ids
    OBVIOUS
  <2>1. m \in Nat /\ m > 0
    BY <1>9 DEF Suite!Order
  <2>2. Len(Suite!Own(Suite!FamilyOrder[m])) \in Nat
    BY <1>1, SuiteOwnIs
  <2>3. k \in Nat /\ k > 0
    BY <2>2 DEF Suite!Scenarios
  <2>4. Suite!At(m, k) \in Suite!Ids
    BY <1>1, SuiteRegrouped DEF Valid
  <2> QED
    BY <2>1, <2>3, <2>4, <1>8 DEF Suite!Passed
<1>12. Suite!ResultsArePassed
  <2>1. DOMAIN v6 = {}
    BY <1>4
  <2>2. v4 # "raised"
    BY <1>3
  <2> QED
    BY <2>1, <2>2, <1>11 DEF Suite!ResultsArePassed
<1>13. Suite!FramesArePassed
  BY <1>5, <1>11 DEF Suite!FramesArePassed
<1>14. Suite!DigestsInOrder /\ Suite!VerdictIsComplete
  BY <1>3, <1>6 DEF Suite!DigestsInOrder, Suite!VerdictIsComplete, Suite!None
<1>15. Suite!ArtifactsArePlanned
  <2>1. Len(Suite!Plan) \in Nat
    BY DEF Suite!Plan, Suite!Completed, Suite!InvalidPreflight, Suite!MissingCapability
  <2>2. Len(<<>>) = 0 /\ DOMAIN <<>> = {}
    OBVIOUS
  <2>3. v12 \in Seq({Suite!Completed[i] : i \in 1..Len(Suite!Completed)})
    BY <1>4
  <2> QED
    BY <1>4, <2>1, <2>2, <2>3 DEF Suite!ArtifactsArePlanned
<1>16. Suite!LabelsAreUnique
  <2>1. DOMAIN v9 = {}
    BY <1>4
  <2> QED
    BY <2>1 DEF Suite!LabelsAreUnique, Suite!IsInjective
<1> QED
  BY <1>7, <1>10, <1>12, <1>13, <1>14, <1>15, <1>16 DEF Suite!IInv

\* What is between two batches stays there while no batch runs.
LEMMA SuiteLoopStands ==
  ASSUME Suite!SuiteIsAsked, Suite!LoopIsInTheSuite, Suite!FramesArePassed, UNCHANGED <<v1, v7, v8>>
  PROVE  Suite!LoopIsInTheSuite' /\ Suite!FramesArePassed'
<1>1. /\ Suite!FamilyOrder' = Suite!FamilyOrder /\ Suite!Order' = Suite!Order
      /\ \A m : Suite!Scenarios(m)' = Suite!Scenarios(m)
      /\ \A m, k : Suite!At(m, k)' = Suite!At(m, k)
  BY SuiteOrderStands
<1>2. \A m, k : Suite!Passed(m, k)' <=> Suite!Passed(m, k)
  BY DEF Suite!Passed
<1>3. Suite!Family' = Suite!Family
  <2>1. \A f : Suite!Own(f)' = Suite!Own(f)
    BY DEF Suite!Own, Suite!PlacesOf
  <2> QED
    BY <1>1, <2>1 DEF Suite!Family
<1>4. Suite!LoopIsInTheSuite'
  BY <1>1, <1>3 DEF Suite!LoopIsInTheSuite, Suite!BatchesLeft
<1>5. Suite!FramesArePassed'
  BY <1>1, <1>2 DEF Suite!FramesArePassed
<1> QED
  BY <1>4, <1>5

\* So do the results, unless an exception loses them.
LEMMA SuiteResultsStand ==
  ASSUME Suite!SuiteIsAsked, Suite!ResultsArePassed, UNCHANGED <<v1, v7, v6>>,
         v4 # "raised", v4' # "raised"
  PROVE  Suite!ResultsArePassed'
<1>1. /\ Suite!Order' = Suite!Order /\ \A m : Suite!Scenarios(m)' = Suite!Scenarios(m)
      /\ \A m, k : Suite!At(m, k)' = Suite!At(m, k)
      /\ \A a, b : Suite!Before(a, b)' = Suite!Before(a, b)
  BY SuiteOrderStands
<1>2. \A m, k : Suite!Passed(m, k)' <=> Suite!Passed(m, k)
  BY DEF Suite!Passed
<1>3. /\ \A i \in DOMAIN v6 : \E m \in Suite!Order : \E k \in Suite!Scenarios(m) :
           Suite!Passed(m, k) /\ v6[i] = Suite!At(m, k)
      /\ \A i, j \in DOMAIN v6 : i < j => Suite!Before(v6[i], v6[j])
      /\ \A m \in Suite!Order : \A k \in Suite!Scenarios(m) : Suite!Passed(m, k) => Suite!At(m, k) \in Suite!Range(v6)
  BY DEF Suite!ResultsArePassed
<1>4. \A i \in DOMAIN v6' : \E m \in Suite!Order' : \E k \in Suite!Scenarios(m)' :
             Suite!Passed(m, k)' /\ v6'[i] = Suite!At(m, k)'
  BY <1>1, <1>2, <1>3
<1>5. \A i, j \in DOMAIN v6' : i < j => Suite!Before(v6'[i], v6'[j])
  BY <1>3
<1>6. \A m \in Suite!Order' : \A k \in Suite!Scenarios(m)' : Suite!Passed(m, k)' => Suite!At(m, k)' \in Suite!Range(v6')
  BY <1>1, <1>2, <1>3
<1> QED
  BY <1>1, <1>4, <1>5, <1>6 DEF Suite!ResultsArePassed

\* When the loop is over every scenario has its result.
LEMMA SuiteAllPassed ==
  ASSUME Suite!SuiteIsAsked, Suite!LoopIsInTheSuite, Suite!ResultsArePassed, ~Suite!BatchesLeft, v4 # "raised"
  PROVE  Suite!Range(v6) = Suite!Range(v1)
<1>1. v1 \in Suite!Suites /\ Len(Suite!FamilyOrder) \in Nat /\ v7.family \in Nat
  BY SuiteFamiliesAre DEF Suite!SuiteIsAsked, Suite!LoopIsInTheSuite
<1>2. \A m \in Suite!Order : \A k \in Suite!Scenarios(m) : Suite!Passed(m, k)
  BY <1>1 DEF Suite!Order, Suite!BatchesLeft, Suite!Passed
<1>3. ASSUME NEW id \in Suite!Range(v1) PROVE id \in Suite!Range(v6)
  <2>1. PICK m, k : Valid(m, k) /\ Suite!At(m, k) = id
    BY <1>1, SuiteRegrouped
  <2> QED
    BY <2>1, <1>2 DEF Valid, Suite!ResultsArePassed
<1>4. ASSUME NEW id \in Suite!Range(v6) PROVE id \in Suite!Range(v1)
  <2>1. PICK i \in DOMAIN v6 : id = v6[i]
    BY DEF Suite!Range
  <2>2. PICK m \in Suite!Order : \E k \in Suite!Scenarios(m) : v6[i] = Suite!At(m, k)
    BY DEF Suite!ResultsArePassed
  <2>3. PICK k \in Suite!Scenarios(m) : v6[i] = Suite!At(m, k)
    BY <2>2
  <2> QED
    BY <2>1, <2>3, <1>1, SuiteRegrouped DEF Valid
<1> QED
  BY <1>3, <1>4

-----------------------------------------------------------------------------
\* The parts of the invariant about the suite are kept by every step that runs no batch
\* and loses no result.
LEMMA SuiteSuiteStands ==
  ASSUME Suite!IInv, UNCHANGED <<v1, v2, v7, v6, v8, v9>>,
         v4 # "raised", v4' # "raised", v3' \in Nat,
         v5' \in [manifest : Int, loaded : Int, after : Int]
  PROVE  /\ Suite!SuiteIsAsked' /\ Suite!LoopIsInTheSuite' /\ Suite!ResultsArePassed' /\ Suite!FramesArePassed'
         /\ Suite!LabelsAreUnique'
<1>1. Suite!SuiteIsAsked'
  BY DEF Suite!IInv, Suite!SuiteIsAsked
<1>2. Suite!LoopIsInTheSuite' /\ Suite!FramesArePassed'
  BY SuiteLoopStands DEF Suite!IInv
<1>3. Suite!ResultsArePassed'
  BY SuiteResultsStand DEF Suite!IInv
<1>4. Suite!LabelsAreUnique'
  BY DEF Suite!IInv, Suite!LabelsAreUnique, Suite!IsInjective
<1> QED
  BY <1>1, <1>2, <1>3, <1>4

\* Only the writing stages have files.
LEMMA SuiteNoFilesYet ==
  ASSUME Suite!ArtifactsArePlanned, v4 \notin {"write", "dead"}, v12' = v12
  PROVE  v12 = <<>> /\ Suite!ArtifactsArePlanned'
<1>1. v12 = <<>>
  BY DEF Suite!ArtifactsArePlanned
<1>2. Len(Suite!Plan)' \in Nat
  BY DEF Suite!Plan, Suite!Completed, Suite!InvalidPreflight, Suite!MissingCapability
<1>3. Len(<<>>) = 0 /\ DOMAIN <<>> = {}
  OBVIOUS
<1>4. v12' \in Seq({Suite!Completed[i] : i \in 1..Len(Suite!Completed)})
  BY <1>1
<1>5. DOMAIN v12' = {} /\ Len(v12') = 0 /\ v12' = <<>>
  BY <1>1, <1>3
<1>6. Suite!ArtifactsArePlanned'
  BY <1>2, <1>4, <1>5 DEF Suite!ArtifactsArePlanned
<1> QED
  BY <1>1, <1>6

\* Every step keeps the invariant.
LEMMA SuiteStepPreserves ==
  Suite!IInv /\ [Suite!Next]_Suite!vars => Suite!IInv'
<1> SUFFICES ASSUME Suite!IInv, [Suite!Next]_Suite!vars PROVE Suite!IInv'
  OBVIOUS
<1>1. /\ Suite!SuiteIsAsked /\ Suite!LoopIsInTheSuite /\ Suite!ResultsArePassed /\ Suite!FramesArePassed
      /\ Suite!DigestsInOrder /\ Suite!VerdictIsComplete /\ Suite!ArtifactsArePlanned /\ Suite!LabelsAreUnique
  BY DEF Suite!IInv
<1>2. v3 \in Nat /\ v5 \in [manifest : Int, loaded : Int, after : Int] /\ Suite!None = -1
  BY <1>1 DEF Suite!SuiteIsAsked, Suite!None
<1>3. CASE Suite!Manifest
  <2>1. /\ v4 = "start" /\ v5' = [v5 EXCEPT !.manifest = v3]
        /\ UNCHANGED <<v1, v2, v3, v6, v7, v8, v9, v10, v12>>
        /\ \/ v4' = "preflight" /\ UNCHANGED v11
           \/ v4' = "write" /\ v11' = "INCOMPLETE"
    BY <1>3 DEF Suite!Manifest
  <2>2. v5' \in [manifest : Int, loaded : Int, after : Int] /\ v5'.manifest = v3
         /\ v5'.loaded = v5.loaded /\ v5'.after = v5.after
    BY <1>2, <2>1
  <2>3. Suite!SuiteIsAsked' /\ Suite!LoopIsInTheSuite' /\ Suite!ResultsArePassed' /\ Suite!FramesArePassed' /\ Suite!LabelsAreUnique'
    <3>1. v4 # "raised" /\ v4' # "raised" /\ v3' \in Nat
      BY <2>1, <1>2
    <3> QED
      BY <2>1, <2>2, <3>1, SuiteSuiteStands
  <2>4. v5.after = Suite!None
    BY <1>1, <2>1 DEF Suite!DigestsInOrder
  <2>5. Suite!DigestsInOrder'
    BY <1>2, <2>1, <2>2, <2>4 DEF Suite!DigestsInOrder
  <2>6. Suite!VerdictIsComplete'
    BY <1>1, <2>1, <2>2 DEF Suite!VerdictIsComplete
  <2>7. Suite!ArtifactsArePlanned'
    BY <1>1, <2>1, SuiteNoFilesYet
  <2> QED
    BY <2>3, <2>5, <2>6, <2>7 DEF Suite!IInv
<1>4. CASE Suite!Preflight
  <2>1. /\ v4 = "preflight" /\ UNCHANGED <<v1, v2, v3, v5, v6>>
        /\ UNCHANGED <<v7, v8, v9, v10, v12>>
        /\ \/ v4' = "load" /\ UNCHANGED v11
           \/ v4' = "write" /\ v11' = "INVALID"
    BY <1>4 DEF Suite!Preflight
  <2>2. Suite!SuiteIsAsked' /\ Suite!LoopIsInTheSuite' /\ Suite!ResultsArePassed' /\ Suite!FramesArePassed' /\ Suite!LabelsAreUnique'
    <3>1. v4 # "raised" /\ v4' # "raised" /\ v3' \in Nat
      BY <2>1, <1>2
    <3> QED
      BY <1>2, <2>1, <3>1, SuiteSuiteStands
  <2>3. Suite!DigestsInOrder'
    BY <1>1, <1>2, <2>1 DEF Suite!DigestsInOrder
  <2>4. Suite!VerdictIsComplete'
    BY <1>1, <2>1 DEF Suite!VerdictIsComplete
  <2>5. Suite!ArtifactsArePlanned'
    BY <1>1, <2>1, SuiteNoFilesYet
  <2> QED
    BY <2>2, <2>3, <2>4, <2>5 DEF Suite!IInv
<1>5. CASE Suite!CreateRuntime
  <2>1. /\ v4 = "load" /\ v4' = "run" /\ v5' = [v5 EXCEPT !.loaded = v3]
        /\ UNCHANGED <<v1, v2, v3, v6, v7, v8, v9, v10, v11>>
        /\ UNCHANGED v12
    BY <1>5 DEF Suite!CreateRuntime
  <2>2. v5' \in [manifest : Int, loaded : Int, after : Int] /\ v5'.loaded = v3
         /\ v5'.manifest = v5.manifest /\ v5'.after = v5.after
    BY <1>2, <2>1
  <2>3. Suite!SuiteIsAsked' /\ Suite!LoopIsInTheSuite' /\ Suite!ResultsArePassed' /\ Suite!FramesArePassed' /\ Suite!LabelsAreUnique'
    <3>1. v4 # "raised" /\ v4' # "raised" /\ v3' \in Nat
      BY <2>1, <1>2
    <3> QED
      BY <2>1, <2>2, <3>1, SuiteSuiteStands
  <2>4. v5.after = Suite!None
    BY <1>1, <2>1 DEF Suite!DigestsInOrder
  <2>5. Suite!DigestsInOrder'
    BY <1>1, <1>2, <2>1, <2>2, <2>4 DEF Suite!DigestsInOrder
  <2>6. Suite!VerdictIsComplete'
    BY <1>1, <2>1, <2>2 DEF Suite!VerdictIsComplete
  <2>7. Suite!ArtifactsArePlanned'
    BY <1>1, <2>1, SuiteNoFilesYet
  <2> QED
    BY <2>3, <2>5, <2>6, <2>7 DEF Suite!IInv
<1>6. CASE Suite!RunBatch
  <2>1. /\ v4 = "run" /\ Suite!BatchesLeft
        /\ UNCHANGED <<v1, v2, v3, v4, v5, v10, v11, v12>>
    BY <1>6 DEF Suite!RunBatch
  <2>2. v6' \in Seq(Suite!Ids) /\ Suite!ResultsArePassed'
    BY <1>1, <1>6, SuiteBatchResults
  <2>3. v8' \in [Suite!Ids -> Seq(Int)] /\ Suite!FramesArePassed'
    BY <1>1, <1>6, SuiteBatchFrames
  <2>4. v9' \in Seq(Suite!Ids \X Int) /\ Suite!LabelsAreUnique'
    BY <1>1, <1>6, SuiteBatchLabels
  <2>5. Suite!LoopIsInTheSuite'
    BY <1>1, <1>6, SuiteBatchPasses
  <2>6. Suite!SuiteIsAsked'
    BY <1>1, <2>1, <2>2, <2>3, <2>4 DEF Suite!SuiteIsAsked
  <2>7. v5.after = Suite!None
    BY <1>1, <2>1 DEF Suite!DigestsInOrder
  <2>8. Suite!DigestsInOrder'
    BY <1>1, <2>1, <2>7 DEF Suite!DigestsInOrder
  <2>9. Suite!VerdictIsComplete'
    BY <1>1, <2>1, <2>7 DEF Suite!VerdictIsComplete
  <2>10. Suite!ArtifactsArePlanned'
    BY <1>1, <2>1, SuiteNoFilesYet
  <2> QED
    BY <2>2, <2>3, <2>4, <2>5, <2>6, <2>8, <2>9, <2>10 DEF Suite!IInv
<1>7. CASE Suite!Raise
  <2>1. /\ v4 \in {"load", "run"} /\ v4' = "raised" /\ v6' = <<>>
        /\ UNCHANGED <<v1, v2, v3, v5, v7, v8, v9, v10, v11>>
        /\ UNCHANGED v12
    BY <1>7 DEF Suite!Raise
  <2>2. Suite!LoopIsInTheSuite' /\ Suite!FramesArePassed'
    BY <1>1, <2>1, SuiteLoopStands
  <2>3. Suite!SuiteIsAsked'
    BY <1>1, <2>1 DEF Suite!SuiteIsAsked
  <2>4. Suite!ResultsArePassed'
    <3>1. DOMAIN v6' = {}
      BY <2>1
    <3> QED
      BY <3>1, <2>1 DEF Suite!ResultsArePassed
  <2>5. Suite!LabelsAreUnique'
    BY <1>1, <2>1 DEF Suite!LabelsAreUnique, Suite!IsInjective
  <2>6. v5.after = Suite!None
    BY <1>1, <2>1 DEF Suite!DigestsInOrder
  <2>7. Suite!DigestsInOrder'
    BY <2>1, <2>6 DEF Suite!DigestsInOrder
  <2>8. Suite!VerdictIsComplete'
    BY <1>1, <2>1, <2>6 DEF Suite!VerdictIsComplete
  <2>9. Suite!ArtifactsArePlanned'
    BY <1>1, <2>1, SuiteNoFilesYet
  <2> QED
    BY <2>2, <2>3, <2>4, <2>5, <2>7, <2>8, <2>9 DEF Suite!IInv
<1>8. CASE Suite!Finish
  <2>1. /\ v4 = "run" /\ v4' = "grade" /\ ~Suite!BatchesLeft
        /\ v5' = [v5 EXCEPT !.after = v3]
        /\ UNCHANGED <<v1, v2, v3, v6, v7, v8, v9, v10, v11>>
        /\ UNCHANGED v12
    BY <1>8 DEF Suite!Finish
  <2>2. v5' \in [manifest : Int, loaded : Int, after : Int] /\ v5'.loaded = v5.loaded
         /\ v5'.manifest = v5.manifest /\ v5'.after = v3
    BY <1>2, <2>1
  <2>3. Suite!SuiteIsAsked' /\ Suite!LoopIsInTheSuite' /\ Suite!ResultsArePassed' /\ Suite!FramesArePassed' /\ Suite!LabelsAreUnique'
    <3>1. v4 # "raised" /\ v4' # "raised" /\ v3' \in Nat
      BY <2>1, <1>2
    <3> QED
      BY <2>1, <2>2, <3>1, SuiteSuiteStands
  <2>4. ~Suite!BatchesLeft'
    <3>1. Suite!FamilyOrder' = Suite!FamilyOrder
      BY <2>1, SuiteOrderStands
    <3> QED
      BY <2>1, <3>1 DEF Suite!BatchesLeft
  <2>5. v5.after = Suite!None
    BY <1>1, <2>1 DEF Suite!DigestsInOrder
  <2>6. Suite!DigestsInOrder'
    BY <1>1, <1>2, <2>1, <2>2, <2>4 DEF Suite!DigestsInOrder
  <2>7. Suite!VerdictIsComplete'
    BY <1>1, <2>1, <2>5 DEF Suite!VerdictIsComplete
  <2>8. Suite!ArtifactsArePlanned'
    BY <1>1, <2>1, SuiteNoFilesYet
  <2> QED
    BY <2>3, <2>6, <2>7, <2>8 DEF Suite!IInv
<1>9. CASE Suite!Grade
  <2>1. /\ v4 = "grade" /\ v4' = "write"
        /\ UNCHANGED <<v1, v2, v3, v5, v6, v7, v8, v9, v12>>
    BY <1>9 DEF Suite!Grade
  <2>2. PICK g \in Suite!GateOutcomes, h \in Suite!GateOutcomes, ok \in BOOLEAN :
          /\ v10' = {g, h}
          /\ v11' = IF Suite!Consistent(ok) THEN Suite!GateStatus({g, h}) ELSE "INVALID"
    BY <1>9 DEF Suite!Grade
  <2>3. Suite!SuiteIsAsked' /\ Suite!LoopIsInTheSuite' /\ Suite!ResultsArePassed' /\ Suite!FramesArePassed' /\ Suite!LabelsAreUnique'
    <3>1. v4 # "raised" /\ v4' # "raised" /\ v3' \in Nat
      BY <2>1, <1>2
    <3> QED
      BY <1>2, <2>1, <3>1, SuiteSuiteStands
  <2>4. Suite!DigestsInOrder'
    <3>1. Suite!BatchesLeft' <=> Suite!BatchesLeft
      <4>1. Suite!FamilyOrder' = Suite!FamilyOrder
        BY <2>1, SuiteOrderStands
      <4> QED
        BY <2>1, <4>1 DEF Suite!BatchesLeft
    <3> QED
      BY <1>1, <2>1, <3>1 DEF Suite!DigestsInOrder
  <2>5. v5.after # Suite!None
    BY <1>1, <2>1 DEF Suite!DigestsInOrder
  <2>6. Suite!VerdictIsComplete'
    <3>1. ASSUME v11' \in {"PASS", "FAIL"} PROVE Suite!Range(v6) = Suite!Range(v1)
      BY <2>2, <3>1 DEF Suite!Consistent
    <3>2. ASSUME v11' = "PASS" PROVE \A x \in v10' : x.hard => x.outcome = "passed"
      <4>1. Suite!GateStatus({g, h}) = "PASS"
        BY <2>2, <3>2
      <4>2. \A x \in {g, h} : x.outcome # "missing" /\ ~(x.hard /\ x.outcome = "failed")
        BY <4>1 DEF Suite!GateStatus
      <4>3. \A x \in {g, h} : x.outcome \in {"passed", "failed", "missing"}
        BY <2>2 DEF Suite!GateOutcomes
      <4> QED
        BY <2>2, <4>2, <4>3
    <3> QED
      BY <2>1, <2>5, <3>1, <3>2 DEF Suite!VerdictIsComplete
  <2>7. Suite!ArtifactsArePlanned'
    BY <1>1, <2>1, SuiteNoFilesYet
  <2> QED
    BY <2>3, <2>4, <2>6, <2>7 DEF Suite!IInv
<1>10. CASE Suite!WriteNext
  <2>1. /\ v4 = "write" /\ Len(v12) < Len(Suite!Plan)
        /\ v12' = Append(v12, Suite!Plan[Len(v12) + 1])
        /\ UNCHANGED <<v1, v2, v3, v4, v5, v6, v7, v8, v9>>
        /\ UNCHANGED <<v10, v11>>
    BY <1>10 DEF Suite!WriteNext
  <2>2. Suite!SuiteIsAsked' /\ Suite!LoopIsInTheSuite' /\ Suite!ResultsArePassed' /\ Suite!FramesArePassed' /\ Suite!LabelsAreUnique'
    <3>1. v4 # "raised" /\ v4' # "raised" /\ v3' \in Nat
      BY <2>1, <1>2
    <3> QED
      BY <1>2, <2>1, <3>1, SuiteSuiteStands
  <2>3. Suite!DigestsInOrder'
    <3>1. Suite!BatchesLeft' <=> Suite!BatchesLeft
      <4>1. Suite!FamilyOrder' = Suite!FamilyOrder
        BY <2>1, SuiteOrderStands
      <4> QED
        BY <2>1, <4>1 DEF Suite!BatchesLeft
    <3> QED
      BY <1>1, <2>1, <3>1 DEF Suite!DigestsInOrder
  <2>4. Suite!VerdictIsComplete'
    BY <1>1, <2>1 DEF Suite!VerdictIsComplete
  <2>5. Suite!ArtifactsArePlanned'
    <3> DEFINE n == Len(v12)
               All == {Suite!Completed[i] : i \in 1..Len(Suite!Completed)}
    <3>1. Suite!Plan' = Suite!Plan
      BY <2>1 DEF Suite!Plan
    <3>2. Len(Suite!Plan) \in Nat /\ \A i \in 1..Len(Suite!Plan) : Suite!Plan[i] \in All
      BY DEF Suite!Plan, Suite!Completed, Suite!InvalidPreflight, Suite!MissingCapability
    <3>3. /\ v12 \in Seq(All) /\ n <= Len(Suite!Plan)
          /\ \A i \in DOMAIN v12 : v12[i] = Suite!Plan[i]
      BY <1>1 DEF Suite!ArtifactsArePlanned
    <3> HIDE DEF All
    <3>4. n \in Nat /\ n + 1 \in 1..Len(Suite!Plan)
      BY <2>1, <3>2, <3>3
    <3>5. Suite!Plan[n + 1] \in All
      BY <3>2, <3>4
    <3>6. v12' \in Seq(All) /\ Len(v12') = n + 1 /\ DOMAIN v12' = 1..(n + 1)
      BY <2>1, <3>3, <3>5
    <3>7. \A i \in 1..(n + 1) : v12'[i] = Suite!Plan[i]
      BY <2>1, <3>3, <3>4
    <3>8. Len(v12') <= Len(Suite!Plan)
      BY <3>2, <3>4, <3>6
    <3> QED
      BY <2>1, <3>1, <3>6, <3>7, <3>8 DEF Suite!ArtifactsArePlanned, All
  <2> QED
    BY <2>2, <2>3, <2>4, <2>5 DEF Suite!IInv
<1>11. CASE Suite!Die
  <2>1. /\ v4 \notin {"raised", "dead"} /\ v4' = "dead"
        /\ UNCHANGED <<v1, v2, v3, v5, v6, v7, v8, v9>>
        /\ UNCHANGED <<v10, v11, v12>>
    BY <1>11 DEF Suite!Die
  <2>2. Suite!SuiteIsAsked' /\ Suite!LoopIsInTheSuite' /\ Suite!ResultsArePassed' /\ Suite!FramesArePassed' /\ Suite!LabelsAreUnique'
    <3>1. v4 # "raised" /\ v4' # "raised" /\ v3' \in Nat
      BY <2>1, <1>2
    <3> QED
      BY <1>2, <2>1, <3>1, SuiteSuiteStands
  <2>3. Suite!DigestsInOrder'
    <3>1. Suite!BatchesLeft' <=> Suite!BatchesLeft
      <4>1. Suite!FamilyOrder' = Suite!FamilyOrder
        BY <2>1, SuiteOrderStands
      <4> QED
        BY <2>1, <4>1 DEF Suite!BatchesLeft
    <3> QED
      BY <1>1, <2>1, <3>1 DEF Suite!DigestsInOrder
  <2>4. Suite!VerdictIsComplete'
    BY <1>1, <2>1 DEF Suite!VerdictIsComplete
  <2>5. Suite!ArtifactsArePlanned'
    BY <1>1, <2>1 DEF Suite!ArtifactsArePlanned, Suite!Plan
  <2> QED
    BY <2>2, <2>3, <2>4, <2>5 DEF Suite!IInv
<1>12. CASE Suite!ReplaceCheckpoint
  <2>1. /\ v5.after = Suite!None /\ v3' = v3 + 1
        /\ UNCHANGED <<v1, v2, v4, v5, v6, v7, v8, v9>>
        /\ UNCHANGED <<v10, v11, v12>>
    BY <1>12 DEF Suite!ReplaceCheckpoint
  <2>2. Suite!LoopIsInTheSuite' /\ Suite!FramesArePassed'
    BY <1>1, <2>1, SuiteLoopStands
  <2>3. Suite!SuiteIsAsked'
    BY <1>1, <1>2, <2>1 DEF Suite!SuiteIsAsked
  <2>4. Suite!ResultsArePassed'
    <3>1. CASE v4 = "raised"
      <4>1. v6 = <<>>
        BY <1>1, <3>1 DEF Suite!ResultsArePassed
      <4>2. DOMAIN v6' = {} /\ v6' = <<>>
        BY <2>1, <4>1
      <4> QED
        BY <2>1, <3>1, <4>2 DEF Suite!ResultsArePassed
    <3>2. CASE v4 # "raised"
      BY <1>1, <2>1, <3>2, SuiteResultsStand
    <3> QED
      BY <3>1, <3>2
  <2>5. Suite!LabelsAreUnique'
    BY <1>1, <2>1 DEF Suite!LabelsAreUnique, Suite!IsInjective
  <2>6. Suite!DigestsInOrder'
    BY <1>1, <1>2, <2>1 DEF Suite!DigestsInOrder
  <2>7. Suite!VerdictIsComplete' /\ Suite!ArtifactsArePlanned'
    BY <1>1, <2>1 DEF Suite!VerdictIsComplete, Suite!ArtifactsArePlanned, Suite!Plan
  <2> QED
    BY <2>2, <2>3, <2>4, <2>5, <2>6, <2>7 DEF Suite!IInv
<1>13. CASE UNCHANGED Suite!vars
  <2>1. /\ UNCHANGED <<v1, v2, v3, v4, v5, v6, v7, v8, v9>>
        /\ UNCHANGED <<v10, v11, v12>>
    BY <1>13 DEF Suite!vars
  <2>2. Suite!LoopIsInTheSuite' /\ Suite!FramesArePassed'
    BY <1>1, <2>1, SuiteLoopStands
  <2>3. Suite!SuiteIsAsked'
    BY <1>1, <1>2, <2>1 DEF Suite!SuiteIsAsked
  <2>4. Suite!ResultsArePassed'
    <3>1. CASE v4 = "raised"
      <4>1. v6 = <<>>
        BY <1>1, <3>1 DEF Suite!ResultsArePassed
      <4>2. DOMAIN v6' = {} /\ v6' = <<>>
        BY <2>1, <4>1
      <4> QED
        BY <2>1, <3>1, <4>2 DEF Suite!ResultsArePassed
    <3>2. CASE v4 # "raised"
      BY <1>1, <2>1, <3>2, SuiteResultsStand
    <3> QED
      BY <3>1, <3>2
  <2>5. Suite!LabelsAreUnique'
    BY <1>1, <2>1 DEF Suite!LabelsAreUnique, Suite!IsInjective
  <2>6. Suite!DigestsInOrder'
    <3>1. Suite!BatchesLeft' <=> Suite!BatchesLeft
      <4>1. Suite!FamilyOrder' = Suite!FamilyOrder
        BY <2>1, SuiteOrderStands
      <4> QED
        BY <2>1, <4>1 DEF Suite!BatchesLeft
    <3> QED
      BY <1>1, <2>1, <3>1 DEF Suite!DigestsInOrder
  <2>7. Suite!VerdictIsComplete' /\ Suite!ArtifactsArePlanned'
    BY <1>1, <2>1 DEF Suite!VerdictIsComplete, Suite!ArtifactsArePlanned, Suite!Plan
  <2> QED
    BY <2>2, <2>3, <2>4, <2>5, <2>6, <2>7 DEF Suite!IInv
<1> QED
  BY <1>3, <1>4, <1>5, <1>6, <1>7, <1>8, <1>9, <1>10, <1>11, <1>12, <1>13 DEF Suite!Next

\* What the run checks of an evaluation follows.
LEMMA SuiteEvaluationIsSound ==
  Suite!IInv => /\ Suite!OneResultEach /\ Suite!VerdictHasEvidence /\ Suite!DigestsEncloseTheLoad
          /\ Suite!LabelsAreUnique /\ Suite!RecordingIsComplete
<1> SUFFICES ASSUME Suite!IInv
             PROVE  /\ Suite!OneResultEach /\ Suite!VerdictHasEvidence /\ Suite!DigestsEncloseTheLoad
                    /\ Suite!LabelsAreUnique /\ Suite!RecordingIsComplete
  OBVIOUS
<1>1. /\ Suite!SuiteIsAsked /\ Suite!LoopIsInTheSuite /\ Suite!ResultsArePassed /\ Suite!FramesArePassed
      /\ Suite!DigestsInOrder /\ Suite!VerdictIsComplete /\ Suite!ArtifactsArePlanned /\ Suite!LabelsAreUnique
  BY DEF Suite!IInv
<1>2. v1 \in Suite!Suites
  BY <1>1 DEF Suite!SuiteIsAsked
<1>3. ASSUME NEW id \in Suite!Range(v6)
      PROVE  \E m \in Suite!Order : \E k \in Suite!Scenarios(m) :
               Suite!Passed(m, k) /\ id = Suite!At(m, k) /\ Valid(m, k) /\ v4 # "raised"
  <2>1. PICK i \in DOMAIN v6 : id = v6[i]
    BY DEF Suite!Range
  <2>2. PICK m \in Suite!Order : \E k \in Suite!Scenarios(m) : Suite!Passed(m, k) /\ v6[i] = Suite!At(m, k)
    BY <1>1 DEF Suite!ResultsArePassed
  <2>3. PICK k \in Suite!Scenarios(m) : Suite!Passed(m, k) /\ v6[i] = Suite!At(m, k)
    BY <2>2
  <2>4. v4 # "raised"
    <3> SUFFICES ASSUME v4 = "raised" PROVE FALSE
      OBVIOUS
    <3>1. v6 = <<>>
      BY <1>1 DEF Suite!ResultsArePassed
    <3> QED
      BY <2>1, <3>1
  <2> QED
    BY <2>1, <2>3, <2>4 DEF Valid
<1>4. Suite!OneResultEach
  <2>1. Suite!Range(v6) \subseteq Suite!Range(v1)
    BY <1>2, <1>3, SuiteRegrouped
  <2>2. \A i, j \in DOMAIN v6 : i < j => Suite!Before(v6[i], v6[j])
    BY <1>1 DEF Suite!ResultsArePassed
  <2>3. ASSUME NEW id \in Suite!Range(v6), NEW other \in Suite!Range(v1), Suite!Before(other, id)
        PROVE  other \in Suite!Range(v6)
    <3>1. PICK m \in Suite!Order : \E k \in Suite!Scenarios(m) :
             Suite!Passed(m, k) /\ id = Suite!At(m, k) /\ Valid(m, k) /\ v4 # "raised"
      BY <1>3
    <3>2. PICK k \in Suite!Scenarios(m) : Suite!Passed(m, k) /\ id = Suite!At(m, k) /\ Valid(m, k) /\ v4 # "raised"
      BY <3>1
    <3>3. PICK q, l : Valid(q, l) /\ Suite!At(q, l) = other
      BY <1>2, SuiteRegrouped
    <3>4. q < m \/ (q = m /\ l < k)
      BY <1>2, <2>3, <3>2, <3>3, SuiteRegrouped
    <3>5. q \in Nat /\ m \in Nat /\ l \in Nat /\ k \in Nat
      BY <1>2, <3>2, <3>3, SuiteFamiliesAre, SuiteOwnIs DEF Valid, Suite!Order,
         Suite!Scenarios
    <3>6. v7.family \in Nat /\ v7.start \in Nat
      BY <1>1 DEF Suite!LoopIsInTheSuite
    <3>7. Suite!Passed(q, l)
      BY <3>2, <3>4, <3>5, <3>6 DEF Suite!Passed
    <3> QED
      BY <1>1, <3>2, <3>3, <3>7 DEF Suite!ResultsArePassed, Valid
  <2>4. ASSUME v5.after # Suite!None PROVE Suite!Range(v6) = Suite!Range(v1)
    <3>1. ~Suite!BatchesLeft /\ v4 # "raised"
      BY <1>1, <2>4 DEF Suite!DigestsInOrder
    <3> QED
      BY <1>1, <3>1, SuiteAllPassed
  <2> QED
    BY <2>1, <2>2, <2>3, <2>4 DEF Suite!OneResultEach
<1>5. Suite!VerdictHasEvidence
  <2> SUFFICES ASSUME "gate" \in Suite!Range(v12), v11 \in {"PASS", "FAIL"}
               PROVE  /\ {"manifest", "database", "summary", "consistency"} \subseteq Suite!Range(v12)
                      /\ Suite!Range(v6) = Suite!Range(v1)
                      /\ v11 = "PASS" => \A g \in v10 : g.hard => g.outcome = "passed"
    BY DEF Suite!VerdictHasEvidence
  <2>1. /\ v5.after # Suite!None /\ Suite!Range(v6) = Suite!Range(v1)
        /\ v11 = "PASS" => \A g \in v10 : g.hard => g.outcome = "passed"
    BY <1>1 DEF Suite!VerdictIsComplete
  <2>2. Suite!Plan = Suite!Completed
    BY <2>1 DEF Suite!Plan
  <2>3. v12 \in Seq({Suite!Completed[i] : i \in 1..Len(Suite!Completed)})
         /\ Len(v12) <= Len(Suite!Completed) /\ \A i \in DOMAIN v12 : v12[i] = Suite!Completed[i]
    BY <1>1, <2>2 DEF Suite!ArtifactsArePlanned
  <2>4. PICK i \in DOMAIN v12 : v12[i] = "gate"
    BY DEF Suite!Range
  <2>5. DOMAIN v12 = 1..Len(v12) /\ Len(v12) \in Nat
    BY <2>3
  <2>6. Len(Suite!Completed) = 7 /\ Suite!Completed[1] = "manifest" /\ Suite!Completed[2] = "database"
         /\ Suite!Completed[3] = "summary" /\ Suite!Completed[4] = "consistency" /\ Suite!Completed[5] = "gate"
         /\ Suite!Completed[6] = "failures" /\ Suite!Completed[7] = "report"
    BY DEF Suite!Completed
  <2>7. i \in 1..7 /\ Suite!Completed[i] = "gate" /\ i <= Len(v12)
    BY <2>3, <2>4, <2>5, <2>6
  <2>8. i >= 5
    <3>1. i = 1 \/ i = 2 \/ i = 3 \/ i = 4 \/ i >= 5
      BY <2>7
    <3>2. i # 1
      BY <2>6, <2>7, Zenon
    <3>3. i # 2
      BY <2>6, <2>7, Zenon
    <3>4. i # 3
      BY <2>6, <2>7, Zenon
    <3>5. i # 4
      BY <2>6, <2>7, Zenon
    <3> QED
      BY <2>7, <3>1, <3>2, <3>3, <3>4, <3>5
  <2>9. \A j \in 1..4 : j \in DOMAIN v12 /\ v12[j] = Suite!Completed[j]
    <3> DEFINE n == Len(v12)
    <3>1. n \in Nat /\ DOMAIN v12 = 1..n /\ i \in 1..7 /\ i <= n /\ i >= 5
      BY <2>5, <2>7, <2>8
    <3> HIDE DEF n
    <3>2. \A j \in 1..4 : j \in 1..n
      BY <3>1
    <3> QED
      BY <2>3, <3>1, <3>2
  <2>10. \A j \in 1..4 : Suite!Completed[j] \in Suite!Range(v12)
    BY <2>9 DEF Suite!Range
  <2> QED
    BY <2>1, <2>6, <2>10
<1>6. Suite!DigestsEncloseTheLoad
  BY <1>1 DEF Suite!DigestsInOrder, Suite!DigestsEncloseTheLoad, Suite!SuiteIsAsked
<1>7. Suite!RecordingIsComplete
  BY <1>1, <1>3 DEF Suite!RecordingIsComplete, Suite!FramesArePassed
<1> QED
  BY <1>1, <1>4, <1>5, <1>6, <1>7

-----------------------------------------------------------------------------
\* Sweep (HeadingSweep): the numbers of an arm are measured on its own checkpoint.
\* Variables: v1 sweep, v2 left, v3 at, v4 arm, v5 suite, v6 run, v7 data, v8 transfers,
\*   v9 chosen.

LEMMA SweepBlankIs ==
  /\ Sweep!None \in Sweep!Named /\ Sweep!None.sweep = 0 /\ Sweep!NoEvidence \in Sweep!Numbers /\ Sweep!Blank \in Sweep!Results
  /\ Sweep!Blank.ckpt = Sweep!None /\ \A s \in 1..2 : Sweep!Blank.evidence[s] = Sweep!NoEvidence
  /\ Sweep!NoRun \in Sweep!Runs /\ Sweep!NoRun.parent = Sweep!None /\ Sweep!NoRun.state = "none"
BY DEF Sweep!None, Sweep!Named, Sweep!NoEvidence, Sweep!Numbers, Sweep!Blank, Sweep!Results,
   Sweep!NoRun, Sweep!Runs

LEMMA SweepInitIInv == ASSUME Sweep!Init PROVE Sweep!IInv
<1>1. Sweep!Types
  BY SweepBlankIs DEF Sweep!Init, Sweep!Types, Sweep!Ample
<1>2. Sweep!NumbersAreOwn
  BY SweepBlankIs DEF Sweep!Init, Sweep!NumbersAreOwn
<1>3. Sweep!ExtendsAWinner /\ Sweep!Watched
  BY SweepBlankIs DEF Sweep!Init, Sweep!ExtendsAWinner, Sweep!Watched
<1> QED
  BY <1>1, <1>2, <1>3 DEF Sweep!IInv

LEMMA SweepSweepHolds == ASSUME Sweep!IInv PROVE Sweep!ExtensionIsEarned /\ Sweep!NoRunIsLeftBehind
<1>1. Sweep!NoRunIsLeftBehind
  BY DEF Sweep!IInv, Sweep!Watched, Sweep!NoRunIsLeftBehind
<1>2. ASSUME v6.parent # Sweep!None PROVE
        /\ v6.parent = v7[v9].ckpt /\ Sweep!Won(v9) /\ v9 \in 1..4
  BY <1>2 DEF Sweep!IInv, Sweep!Types, Sweep!ExtendsAWinner
<1>3. ASSUME v6.parent # Sweep!None, v1.number = 1, NEW a \in {1, v9}, NEW s \in 1..2
      PROVE  v7[a].evidence[s].of = v7[a].ckpt
  <2>1. a \in 1..4 /\ v7[a].evidence[s] # Sweep!NoEvidence
    BY <1>2, <1>3 DEF Sweep!Won, Sweep!Complete
  <2> QED
    BY <1>3, <2>1 DEF Sweep!IInv, Sweep!NumbersAreOwn
<1> QED
  BY <1>1, <1>2, <1>3 DEF Sweep!ExtensionIsEarned, Sweep!Won, Sweep!Safe

-----------------------------------------------------------------------------
\* What the winner is compared by stays while the results of the earlier arms do.
LEMMA SweepWinnerStays ==
  ASSUME Sweep!IInv, UNCHANGED <<v4, v9, v6>>,
         \A a \in 1..4 : a # v4 => v7'[a] = v7[a]
  PROVE  Sweep!ExtendsAWinner'
<1>1. CASE v4 # 4
  BY <1>1 DEF Sweep!IInv, Sweep!ExtendsAWinner
<1>2. CASE v4 = 4
  <2>1. /\ v9 \in 1..4 /\ v9 # 4 /\ Sweep!Won(v9)
        /\ v6.parent \in {Sweep!None, v7[v9].ckpt}
    BY <1>2 DEF Sweep!IInv, Sweep!Types, Sweep!ExtendsAWinner
  <2>2. v7'[1] = v7[1] /\ v7'[v9] = v7[v9]
    BY <1>2, <2>1
  <2>3. Sweep!Won(v9)' /\ v9' = v9
    BY <2>1, <2>2 DEF Sweep!Won, Sweep!Complete, Sweep!Passed, Sweep!Safe
  <2> QED
    BY <1>2, <2>1, <2>2, <2>3 DEF Sweep!ExtendsAWinner
<1> QED
  BY <1>1, <1>2

LEMMA SweepNumbersStay ==
  ASSUME Sweep!IInv, UNCHANGED <<v1, v7, v8>>,
         \A a \in 1..4 : Sweep!Made(a) => Sweep!Made(a)'
  PROVE  Sweep!NumbersAreOwn'
BY DEF Sweep!IInv, Sweep!NumbersAreOwn

LEMMA SweepOverIs ==
  ASSUME Sweep!IInv, NEW state \in {"failed", "complete"}, Sweep!Over(state)
  PROVE  /\ v3' = "over" /\ v1'.number = v1.number /\ v1'.state = state
         /\ v1' \in [number : Nat \ {0}, state : {"running", "failed", "complete"}]
BY DEF Sweep!Over, Sweep!IInv, Sweep!Types

LEMMA SweepTrainKeeps == ASSUME Sweep!IInv, Sweep!Train PROVE Sweep!IInv'
<1>1. /\ v3 = "train" /\ v2 > Sweep!Gone /\ v2' \in Sweep!Gone..v2 /\ v3' = "wait"
      /\ v6' = [parent |-> Sweep!Parent, state |-> "active", stopTried |-> FALSE,
                 late |-> v2' = Sweep!Gone]
      /\ UNCHANGED <<v1, v4, v5, v7, v8, v9>>
  BY DEF Sweep!Train, Sweep!Takes
<1>2. Sweep!Parent \in Sweep!Named /\ Sweep!Parent \in {Sweep!None, v7[v9].ckpt} /\ (v4 # 4 => Sweep!Parent = Sweep!None)
  BY SweepBlankIs DEF Sweep!Parent, Sweep!IInv, Sweep!Types, Sweep!ExtendsAWinner,
     Sweep!Results
<1>3. (v2' = Sweep!Gone) \in BOOLEAN /\ v2' \in Nat
  BY <1>1 DEF Sweep!IInv, Sweep!Types, Sweep!Gone
<1>4. v6' \in Sweep!Runs /\ v6'.parent = Sweep!Parent /\ (v2' = Sweep!Gone => v6'.late)
  BY <1>1, <1>2, <1>3 DEF Sweep!Runs
<1>5. Sweep!Types'
  BY <1>1, <1>3, <1>4 DEF Sweep!IInv, Sweep!Types
<1>6. Sweep!NumbersAreOwn'
  BY <1>1, SweepNumbersStay DEF Sweep!Made
<1>7. Sweep!ExtendsAWinner'
  BY <1>1, <1>2, <1>4
  DEF Sweep!IInv, Sweep!ExtendsAWinner, Sweep!Won, Sweep!Complete, Sweep!Passed, Sweep!Safe
<1>8. Sweep!Watched'
  BY <1>1, <1>4 DEF Sweep!IInv, Sweep!Watched
<1> QED
  BY <1>5, <1>6, <1>7, <1>8 DEF Sweep!IInv

LEMMA SweepPollKeeps == ASSUME Sweep!IInv, Sweep!Poll PROVE Sweep!IInv'
<1>1. /\ v3 = "wait" /\ v6.state = "active" /\ v2 > Sweep!Gone /\ v6 \in Sweep!Runs /\ v2 \in Nat
      /\ v2' \in IF Sweep!StopDue THEN {v2} ELSE {v2, v2 - 1}
      /\ UNCHANGED <<v1, v3, v4, v5, v7, v8, v9>>
  BY DEF Sweep!Poll, Sweep!IInv, Sweep!Types
<1>2. Sweep!StopDue \in BOOLEAN /\ (v6.stopTried \/ Sweep!StopDue) \in BOOLEAN
  BY <1>1 DEF Sweep!StopDue, Sweep!Runs
<1>3. v6' = [v6 EXCEPT !.stopTried = v6.stopTried \/ Sweep!StopDue]
  BY <1>1 DEF Sweep!Poll, Sweep!Runs
<1>4. /\ v6' \in Sweep!Runs /\ v6'.parent = v6.parent /\ v6'.state = v6.state
      /\ v6'.late = v6.late /\ (v6'.stopTried <=> v6.stopTried \/ Sweep!StopDue)
  BY <1>1, <1>2, <1>3 DEF Sweep!Runs
<1>5. v2' \in Nat /\ (v2' = Sweep!Gone => v6'.stopTried)
  BY <1>1, <1>4 DEF Sweep!StopDue, Sweep!Gone, Sweep!Little
<1>6. Sweep!Types'
  BY <1>1, <1>4, <1>5 DEF Sweep!IInv, Sweep!Types
<1>7. Sweep!NumbersAreOwn'
  BY <1>1, SweepNumbersStay DEF Sweep!Made
<1>8. Sweep!ExtendsAWinner'
  BY <1>1, <1>4 DEF Sweep!IInv, Sweep!ExtendsAWinner, Sweep!Won, Sweep!Complete,
     Sweep!Passed, Sweep!Safe
<1>9. Sweep!Watched'
  BY <1>1, <1>4, <1>5 DEF Sweep!IInv, Sweep!Watched
<1> QED
  BY <1>6, <1>7, <1>8, <1>9 DEF Sweep!IInv

LEMMA SweepRunEndsKeeps == ASSUME Sweep!IInv, Sweep!RunEnds PROVE Sweep!IInv'
<1>1. /\ v6 \in Sweep!Runs /\ UNCHANGED <<v1, v2, v3, v4, v5, v7, v8, v9>>
      /\ \/ v6' = [v6 EXCEPT !.state = "finished"]
         \/ v6' = [v6 EXCEPT !.state = "stopped"]
  BY DEF Sweep!RunEnds, Sweep!IInv, Sweep!Types
<1>2. v6' \in Sweep!Runs /\ v6'.parent = v6.parent /\ v6'.state # "active"
  BY <1>1 DEF Sweep!Runs
<1>3. Sweep!Types'
  BY <1>1, <1>2 DEF Sweep!IInv, Sweep!Types
<1>4. Sweep!NumbersAreOwn'
  BY <1>1, SweepNumbersStay DEF Sweep!Made
<1>5. Sweep!ExtendsAWinner'
  BY <1>1, <1>2 DEF Sweep!IInv, Sweep!ExtendsAWinner, Sweep!Won, Sweep!Complete,
     Sweep!Passed, Sweep!Safe
<1>6. Sweep!Watched'
  BY <1>1, <1>2 DEF Sweep!IInv, Sweep!Watched
<1> QED
  BY <1>3, <1>4, <1>5, <1>6 DEF Sweep!IInv

LEMMA SweepTrainedKeeps == ASSUME Sweep!IInv, Sweep!Trained PROVE Sweep!IInv'
<1> DEFINE r == [Sweep!Blank EXCEPT !.ckpt = Sweep!Own]
<1>1. /\ v3 = "wait" /\ v6.state = "finished" /\ v3' = "evaluate" /\ v5' = 1
      /\ v7' = [v7 EXCEPT ![v4] = r] /\ v4 \in 1..4
      /\ UNCHANGED <<v1, v2, v4, v6, v8, v9>>
  BY DEF Sweep!Trained, Sweep!IInv, Sweep!Types
<1>2. Sweep!Own \in Sweep!Named
  BY DEF Sweep!Own, Sweep!Named, Sweep!IInv, Sweep!Types
<1>3. r \in Sweep!Results /\ \A s \in 1..2 : r.evidence[s] = Sweep!NoEvidence
  BY <1>2, SweepBlankIs DEF Sweep!Results
<1> HIDE DEF r
<1>4. /\ v7' \in [1..4 -> Sweep!Results] /\ v7'[v4] = r
      /\ \A a \in 1..4 : a # v4 => v7'[a] = v7[a]
  BY <1>1, <1>3 DEF Sweep!IInv, Sweep!Types
<1>5. Sweep!Types'
  BY <1>1, <1>4 DEF Sweep!IInv, Sweep!Types
<1>6. Sweep!NumbersAreOwn'
  <2> SUFFICES ASSUME v1.number = 1, NEW a \in 1..4, NEW s \in 1..2
               PROVE  /\ v7'[a].evidence[s] # Sweep!NoEvidence =>
                           v7'[a].evidence[s].of = v7'[a].ckpt
                      /\ v8[<<a, s>>] # Sweep!None =>
                           Sweep!Made(a)' /\ v8[<<a, s>>] = v7'[a].ckpt
    BY <1>1 DEF Sweep!NumbersAreOwn
  <2>1. CASE a = v4
    <3>1. v8[<<a, s>>] = Sweep!None
      BY <1>1, <2>1 DEF Sweep!IInv, Sweep!NumbersAreOwn, Sweep!Made
    <3> QED
      BY <1>3, <1>4, <2>1, <3>1
  <2>2. CASE a # v4
    BY <1>1, <1>4, <2>2 DEF Sweep!IInv, Sweep!NumbersAreOwn, Sweep!Made
  <2> QED
    BY <2>1, <2>2
<1>7. Sweep!ExtendsAWinner'
  BY <1>1, <1>4, SweepWinnerStays
<1>8. Sweep!Watched'
  BY <1>1 DEF Sweep!IInv, Sweep!Watched
<1> QED
  BY <1>5, <1>6, <1>7, <1>8 DEF Sweep!IInv

\* The next arm begins, or all have been evaluated.
LEMMA SweepNextArmIs ==
  ASSUME Sweep!IInv, Sweep!NextArm, v3 = "evaluate"
  PROVE  /\ v5' = 1 /\ v4' \in 1..4 /\ v3' \in {"train", "decide"}
         /\ v4 <= v4' /\ (v4' = 4 <=> v4 = 4)
         /\ \A a \in 1..4 : Sweep!Made(a) \/ a = v4 => Sweep!Made(a)'
BY DEF Sweep!NextArm, Sweep!IInv, Sweep!Types, Sweep!Made

LEMMA SweepEvaluateKeeps == ASSUME Sweep!IInv, Sweep!Evaluate PROVE Sweep!IInv'
<1> DEFINE path == Sweep!TransferOf(v4, v5)
           made == IF v8[path] = Sweep!None THEN v7[v4].ckpt ELSE v8[path]
<1>1. PICK p \in Sweep!Counts("passed"), h \in Sweep!Counts("hard") :
        v7' = [v7 EXCEPT ![v4].evidence[v5] = [passed |-> p, hard |-> h, of |-> made]]
  BY DEF Sweep!Evaluate
<1> DEFINE e == [passed |-> p, hard |-> h, of |-> made]
<1>2. /\ v3 = "evaluate" /\ v2' \in Nat /\ v8' = [v8 EXCEPT ![path] = made]
      /\ UNCHANGED <<v1, v6, v9>> /\ v4 \in 1..4 /\ v5 \in 1..2
      /\ IF v5 = 1 THEN v5' = 2 /\ UNCHANGED <<v4, v3>> ELSE Sweep!NextArm
  BY DEF Sweep!Evaluate, Sweep!Takes, Sweep!Gone, Sweep!IInv, Sweep!Types
<1>3. path = <<v4, v5>> /\ path \in (1..4) \X (1..2)
  BY <1>2 DEF Sweep!TransferOf
<1>4. made \in Sweep!Named /\ (v1.number = 1 => made = v7[v4].ckpt)
  BY <1>2, <1>3 DEF Sweep!IInv, Sweep!Types, Sweep!Results, Sweep!NumbersAreOwn
<1>5. p \in Nat /\ h \in Nat
  BY DEF Sweep!Counts
<1>6. e \in Sweep!Numbers /\ e.of = made
  BY <1>4, <1>5 DEF Sweep!Numbers
<1>7. v7' = [v7 EXCEPT ![v4].evidence[v5] = e]
  BY <1>1
<1> HIDE DEF e, made
<1>8. /\ v7' \in [1..4 -> Sweep!Results]
      /\ v7'[v4].evidence[v5] = e /\ v7'[v4].ckpt = v7[v4].ckpt
      /\ \A s \in 1..2 : s # v5 => v7'[v4].evidence[s] = v7[v4].evidence[s]
      /\ \A a \in 1..4 : a # v4 => v7'[a] = v7[a]
  <2> DEFINE w == [v7[v4].evidence EXCEPT ![v5] = e]
             r == [v7[v4] EXCEPT !.evidence = w]
  <2>1. v7 \in [1..4 -> Sweep!Results] /\ v7[v4] \in Sweep!Results
    BY <1>2 DEF Sweep!IInv, Sweep!Types
  <2>2. /\ w \in [1..2 -> Sweep!Numbers] /\ w[v5] = e
        /\ \A s \in 1..2 : s # v5 => w[s] = v7[v4].evidence[s]
    BY <1>2, <1>6, <2>1 DEF Sweep!Results
  <2>3. v7' = [v7 EXCEPT ![v4] = r]
    BY <1>2, <1>7, <2>1
  <2> HIDE DEF w
  <2>4. r \in Sweep!Results /\ r.evidence = w /\ r.ckpt = v7[v4].ckpt
    BY <2>1, <2>2 DEF Sweep!Results
  <2> HIDE DEF r
  <2>5. /\ v7' \in [1..4 -> Sweep!Results] /\ v7'[v4] = r
        /\ \A a \in 1..4 : a # v4 => v7'[a] = v7[a]
    BY <1>2, <2>1, <2>3, <2>4
  <2> QED
    BY <2>2, <2>4, <2>5
<1>9. /\ v8' \in [(1..4) \X (1..2) -> Sweep!Named] /\ v8'[<<v4, v5>>] = made
      /\ \A a \in 1..4, s \in 1..2 :
           a # v4 \/ s # v5 => v8'[<<a, s>>] = v8[<<a, s>>]
  BY <1>2, <1>3, <1>4 DEF Sweep!IInv, Sweep!Types
<1>10. /\ v5' \in 1..2 /\ v4' \in 1..4 /\ v3' \in {"evaluate", "train", "decide"}
       /\ (v4' = 4 <=> v4 = 4)
       /\ \A a \in 1..4 : Sweep!Made(a) \/ a = v4 => Sweep!Made(a)'
  <2>1. CASE v5 = 1
    BY <1>2, <2>1 DEF Sweep!Made
  <2>2. CASE v5 # 1
    BY <1>2, <2>2, SweepNextArmIs DEF Sweep!Made
  <2> QED
    BY <2>1, <2>2
<1>11. Sweep!Types'
  BY <1>2, <1>8, <1>9, <1>10 DEF Sweep!IInv, Sweep!Types
<1>12. Sweep!NumbersAreOwn'
  <2> SUFFICES ASSUME v1.number = 1, NEW a \in 1..4, NEW s \in 1..2
               PROVE  /\ v7'[a].evidence[s] # Sweep!NoEvidence =>
                           v7'[a].evidence[s].of = v7'[a].ckpt
                      /\ v8'[<<a, s>>] # Sweep!None =>
                           Sweep!Made(a)' /\ v8'[<<a, s>>] = v7'[a].ckpt
    BY <1>2 DEF Sweep!NumbersAreOwn
  <2>1. CASE a = v4 /\ s = v5
    BY <1>4, <1>6, <1>8, <1>9, <1>10, <2>1
  <2>2. CASE a = v4 /\ s # v5
    <3>1. /\ v7'[a].evidence[s] = v7[a].evidence[s] /\ v7'[a].ckpt = v7[a].ckpt
          /\ v8'[<<a, s>>] = v8[<<a, s>>]
      BY <1>8, <1>9, <2>2
    <3>2. /\ v7[a].evidence[s] # Sweep!NoEvidence => v7[a].evidence[s].of = v7[a].ckpt
          /\ v8[<<a, s>>] # Sweep!None => Sweep!Made(a) /\ v8[<<a, s>>] = v7[a].ckpt
      BY DEF Sweep!IInv, Sweep!NumbersAreOwn
    <3> QED
      BY <1>10, <3>1, <3>2
  <2>3. CASE a # v4
    BY <1>8, <1>9, <1>10, <2>3 DEF Sweep!IInv, Sweep!NumbersAreOwn
  <2> QED
    BY <2>1, <2>2, <2>3
<1>13. Sweep!ExtendsAWinner'
  <2>1. CASE v4 # 4
    BY <1>2, <1>10, <2>1 DEF Sweep!IInv, Sweep!ExtendsAWinner
  <2>2. CASE v4 = 4
    <3>1. v4' = v4
      BY <1>10, <2>2
    <3> QED
      BY <1>2, <1>8, <3>1, <2>2, SweepWinnerStays
  <2> QED
    BY <2>1, <2>2
<1>14. Sweep!Watched'
  BY <1>2, <1>10 DEF Sweep!IInv, Sweep!Watched
<1> QED
  BY <1>11, <1>12, <1>13, <1>14 DEF Sweep!IInv

LEMMA SweepSkipKeeps == ASSUME Sweep!IInv, Sweep!Skip PROVE Sweep!IInv'
<1>1. /\ v3 = "evaluate" /\ Sweep!NextArm /\ UNCHANGED <<v1, v2, v6, v7, v8, v9>>
  BY DEF Sweep!Skip
<1>2. /\ v5' = 1 /\ v4' \in 1..4 /\ v3' \in {"train", "decide"}
      /\ (v4' = 4 <=> v4 = 4)
      /\ \A a \in 1..4 : Sweep!Made(a) => Sweep!Made(a)'
  BY <1>1, SweepNextArmIs
<1>3. Sweep!Types'
  BY <1>1, <1>2 DEF Sweep!IInv, Sweep!Types
<1>4. Sweep!NumbersAreOwn'
  BY <1>1, <1>2, SweepNumbersStay
<1>5. Sweep!ExtendsAWinner'
  BY <1>1, <1>2 DEF Sweep!IInv, Sweep!ExtendsAWinner, Sweep!Won, Sweep!Complete,
     Sweep!Passed, Sweep!Safe
<1>6. Sweep!Watched'
  BY <1>1, <1>2 DEF Sweep!IInv, Sweep!Watched
<1> QED
  BY <1>3, <1>4, <1>5, <1>6 DEF Sweep!IInv

LEMMA SweepDecideKeeps == ASSUME Sweep!IInv, Sweep!Decide PROVE Sweep!IInv'
<1>1. /\ v3 = "decide" /\ v4 = 3 /\ UNCHANGED <<v2, v5, v6, v7, v8>>
      /\ \E clean \in SUBSET (1..3) :
           v9' = IF Sweep!Best(Sweep!Candidates(clean)) = {} THEN 0
                     ELSE CHOOSE a \in Sweep!Best(Sweep!Candidates(clean)) : TRUE
  BY DEF Sweep!Decide
<1>2. /\ \/ v9' # 0 /\ v4' = 4 /\ v3' = "train" /\ v1' = v1
         \/ Sweep!Over("complete") /\ v4' = v4
  BY DEF Sweep!Decide
<1>3. v9' = 0 \/ (v9' \in {2, 3} /\ Sweep!Won(v9'))
  <2>1. PICK clean \in SUBSET (1..3) :
          v9' = IF Sweep!Best(Sweep!Candidates(clean)) = {} THEN 0
                    ELSE CHOOSE a \in Sweep!Best(Sweep!Candidates(clean)) : TRUE
    BY <1>1
  <2>2. v9' = 0 \/ v9' \in Sweep!Candidates(clean)
    BY <2>1 DEF Sweep!Best
  <2>3. \A a \in Sweep!Candidates(clean) : a \in {2, 3} /\ Sweep!Won(a)
    BY DEF Sweep!Candidates, Sweep!Won
  <2> QED
    BY <2>2, <2>3
<1>4. v3' \in {"train", "over"} /\ v4' \in {3, 4} /\ v1'.number = v1.number
  BY <1>1, <1>2, SweepOverIs
<1>5. Sweep!Types'
  BY <1>1, <1>2, <1>3, <1>4, SweepOverIs DEF Sweep!IInv, Sweep!Types
<1>6. Sweep!NumbersAreOwn'
  BY <1>1, <1>2, <1>4, SweepOverIs DEF Sweep!IInv, Sweep!NumbersAreOwn, Sweep!Made
<1>7. Sweep!ExtendsAWinner'
  <2>1. v6' = v6 /\ v6.parent = Sweep!None
    BY <1>1 DEF Sweep!IInv, Sweep!ExtendsAWinner
  <2>2. CASE v4' = 4
    <3>1. v9' # 0 /\ Sweep!Won(v9')
      BY <1>1, <1>2, <1>3, <2>2
    <3>2. \A a : Sweep!Won(a) => Sweep!Won(a)'
      BY <1>1 DEF Sweep!Won, Sweep!Complete, Sweep!Passed, Sweep!Safe
    <3> QED
      BY <2>1, <2>2, <3>1, <3>2, <1>1 DEF Sweep!ExtendsAWinner, Sweep!Won, Sweep!Complete,
         Sweep!Passed, Sweep!Safe
  <2> QED
    BY <2>1, <2>2 DEF Sweep!ExtendsAWinner
<1>8. Sweep!Watched'
  BY <1>1, <1>2, SweepOverIs DEF Sweep!IInv, Sweep!Types, Sweep!Watched
<1> QED
  BY <1>5, <1>6, <1>7, <1>8 DEF Sweep!IInv

LEMMA SweepEndsKeeps == ASSUME Sweep!IInv, Sweep!Finish \/ Sweep!Fails PROVE Sweep!IInv'
<1>1. PICK state \in {"failed", "complete"} : Sweep!Over(state)
  BY DEF Sweep!Finish, Sweep!Fails
<1>2. UNCHANGED <<v2, v4, v5, v6, v7, v8, v9>>
  BY DEF Sweep!Finish, Sweep!Fails
<1>3. /\ v3' = "over" /\ v1'.number = v1.number /\ v1'.state = state
      /\ v1' \in [number : Nat \ {0}, state : {"running", "failed", "complete"}]
  BY <1>1, SweepOverIs
<1>4. v6.state = "active" => v6.stopTried \/ v6.late
  BY DEF Sweep!Finish, Sweep!Fails, Sweep!IInv, Sweep!Watched
<1>5. Sweep!Types'
  BY <1>2, <1>3 DEF Sweep!IInv, Sweep!Types
<1>6. Sweep!NumbersAreOwn'
  BY <1>2, <1>3 DEF Sweep!IInv, Sweep!NumbersAreOwn, Sweep!Made
<1>7. Sweep!ExtendsAWinner'
  BY <1>2 DEF Sweep!IInv, Sweep!ExtendsAWinner, Sweep!Won, Sweep!Complete, Sweep!Passed,
     Sweep!Safe
<1>8. Sweep!Watched'
  BY <1>2, <1>3, <1>4 DEF Sweep!Watched
<1> QED
  BY <1>5, <1>6, <1>7, <1>8 DEF Sweep!IInv

LEMMA SweepRestartKeeps == ASSUME Sweep!IInv, Sweep!Restart PROVE Sweep!IInv'
<1>1. /\ v1' = [number |-> v1.number + 1, state |-> "running"] /\ v2' = Sweep!Ample
      /\ v3' = "train" /\ v4' = 1 /\ v5' = 1 /\ v6' = Sweep!NoRun
      /\ v7' = [a \in 1..4 |-> Sweep!Blank] /\ v9' = 0 /\ v8' = v8
  BY DEF Sweep!Restart
<1>2. /\ v1' \in [number : Nat \ {0}, state : {"running", "failed", "complete"}]
      /\ v1'.number # 1 /\ v1'.state = "running"
  BY <1>1 DEF Sweep!IInv, Sweep!Types
<1>3. Sweep!Types'
  BY <1>1, <1>2, SweepBlankIs DEF Sweep!IInv, Sweep!Types, Sweep!Ample
<1>4. Sweep!NumbersAreOwn' /\ Sweep!ExtendsAWinner' /\ Sweep!Watched'
  BY <1>1, <1>2, SweepBlankIs DEF Sweep!NumbersAreOwn, Sweep!ExtendsAWinner, Sweep!Watched
<1> QED
  BY <1>3, <1>4 DEF Sweep!IInv

LEMMA SweepStepPreserves == ASSUME Sweep!IInv, [Sweep!Next]_Sweep!vars PROVE Sweep!IInv'
<1>1. CASE UNCHANGED Sweep!vars
  <2>1. UNCHANGED <<v1, v2, v3, v4, v5, v6, v7, v8, v9>>
    BY <1>1 DEF Sweep!vars
  <2> QED
    BY <2>1 DEF Sweep!IInv, Sweep!Types, Sweep!NumbersAreOwn, Sweep!Made,
       Sweep!ExtendsAWinner, Sweep!Won, Sweep!Complete, Sweep!Passed, Sweep!Safe,
                Sweep!Watched
<1> QED
  BY <1>1, SweepTrainKeeps, SweepPollKeeps, SweepRunEndsKeeps, SweepTrainedKeeps,
     SweepEvaluateKeeps, SweepSkipKeeps,
     SweepDecideKeeps, SweepEndsKeeps, SweepRestartKeeps DEF Sweep!Next

-----------------------------------------------------------------------------
\* A behaviour is about one protocol, which begins and goes on as its module says.

LEMMA PartsBegin ==
  ASSUME Init
  PROVE  /\ part = "timeline" => Timeline!Init
         /\ part = "statistics" => Statistics!Init
         /\ part = "suite" => Suite!Init
         /\ part = "sweep" => Sweep!Init
BY Zenon DEF Init,
   MixBegins, SettledBegins, JumpBegins, RewardsBegins, EpisodeBegins, HorizonBegins,
   MonitorBegins, AnchorsBegins, LineageBegins, SlotBegins, SuiteBegins, StatisticsBegins,
   TimelineBegins, SweepBegins

LEMMA PartsGoOn ==
  ASSUME [Next]_vars
  PROVE  /\ part' = part
         /\ part = "timeline" => [Timeline!Next]_Timeline!vars
         /\ part = "statistics" => [Statistics!Next]_Statistics!vars
         /\ part = "suite" => [Suite!Next]_Suite!vars
         /\ part = "sweep" => [Sweep!Next]_Sweep!vars
<1>1. CASE Next
  <2>1. part' = part
    BY <1>1, Zenon DEF Next,
       MixStep, SettledStep, JumpStep, RewardsStep, EpisodeStep, HorizonStep, MonitorStep,
       AnchorsStep, LineageStep, SlotStep, SuiteStep, StatisticsStep, TimelineStep,
       SweepStep
  <2>2. part = "timeline" => Timeline!Next
    BY <1>1, Zenon DEF Next,
       MixStep, SettledStep, JumpStep, RewardsStep, EpisodeStep, HorizonStep, MonitorStep,
       AnchorsStep, LineageStep, SlotStep, SuiteStep, StatisticsStep, TimelineStep,
       SweepStep
  <2>3. part = "statistics" => Statistics!Next
    BY <1>1, Zenon DEF Next,
       MixStep, SettledStep, JumpStep, RewardsStep, EpisodeStep, HorizonStep, MonitorStep,
       AnchorsStep, LineageStep, SlotStep, SuiteStep, StatisticsStep, TimelineStep,
       SweepStep
  <2>4. part = "suite" => Suite!Next
    BY <1>1, Zenon DEF Next,
       MixStep, SettledStep, JumpStep, RewardsStep, EpisodeStep, HorizonStep, MonitorStep,
       AnchorsStep, LineageStep, SlotStep, SuiteStep, StatisticsStep, TimelineStep,
       SweepStep
  <2>5. part = "sweep" => Sweep!Next
    BY <1>1, Zenon DEF Next,
       MixStep, SettledStep, JumpStep, RewardsStep, EpisodeStep, HorizonStep, MonitorStep,
       AnchorsStep, LineageStep, SlotStep, SuiteStep, StatisticsStep, TimelineStep,
       SweepStep
  <2> QED
    BY <2>1, <2>2, <2>3, <2>4, <2>5
<1>2. CASE UNCHANGED vars
  <2>1. UNCHANGED <<part, v1, v2, v3, v4, v5, v6, v7, v8, v9, v10, v11, v12, v13, v14>>
    BY <1>2 DEF vars
  <2> QED
    BY <2>1 DEF Timeline!vars, Statistics!vars, Suite!vars, Sweep!vars
<1> QED
  BY <1>1, <1>2

-----------------------------------------------------------------------------
(* The theorems.  The invariant of a part is its module's IInv, and says   *)
(* nothing of a behaviour that is about another part.                      *)

\* For any suite, batch size, rollout and trainer that replaces the checkpoint meanwhile:
\* every scenario has one result and all its frames, a verdict has its evidence beside it,
\* the digests enclose the load; the metrics of a slot, updated in place under masks, are
\* those of its own episode; and its targets, speeds and pushes are its scenario's.
\* (evaluation/runner.py, cli.py, replay_capture.py, retention_replay.py)
THEOREM EvidenceStaysOfTheEvaluation == Spec => []EvidenceIsOfTheEvaluation
<1> DEFINE I == /\ part = "suite" => Suite!IInv
                /\ part = "statistics" => Statistics!IInv
                /\ part = "timeline" => Timeline!IInv
<1>1. Init => I
  BY PartsBegin, SuiteInitIInv, StatisticsInitIInv, TimelineInitIInv
<1>2. I /\ [Next]_vars => I'
  BY PartsGoOn, SuiteStepPreserves, StatisticsStepPreserves, TimelineStepPreserves
<1>3. I => EvidenceIsOfTheEvaluation
  BY SuiteEvaluationIsSound, StatisticsStatisticsAreRight, TimelineInputsAreRight
  DEF EvidenceIsOfTheEvaluation
<1> HIDE DEF I
<1> QED
  BY <1>1, <1>2, <1>3, PTL DEF Spec

\* The extended run starts from a checkpoint whose own numbers won on every suite, and no
\* process runs on that nothing waits for.  (overnight_waypoint_heading_sweep.py)
THEOREM ExtensionsAreEarned == Spec => []ExtensionIsEarned
<1> DEFINE I == part = "sweep" => Sweep!IInv
<1>1. Init => I
  BY PartsBegin, SweepInitIInv
<1>2. I /\ [Next]_vars => I'
  BY PartsGoOn, SweepStepPreserves
<1>3. I => ExtensionIsEarned
  BY SweepSweepHolds DEF ExtensionIsEarned
<1> HIDE DEF I
<1> QED
  BY <1>1, <1>2, <1>3, PTL DEF Spec
=============================================================================
