----------------------------- MODULE MCTraining -----------------------------
(***************************************************************************)
(* One model-checking run for the parts of training and evaluation.  Each  *)
(* of them is the state of one thread or process and shares none of it     *)
(* with the others, so their union is checked and not their product: part  *)
(* says which part a behaviour is about, its module is instantiated with   *)
(* the variables v1, v2, ..., and those it does not need stay Unused.      *)
(***************************************************************************)
EXTENDS Integers, Sequences, FiniteSets

CONSTANTS Gates, Navigators, MaxTargets, MaxEvidence, MinAttempts, DemotionWindows,
          HoldCalls, Calm, PushTime, RetargetTime, HistoryCapacity, MaxAttempts,
          CrouchSteps, ThrustSteps, LandingSteps, RecoverySteps, MaxRequests,
          RewardPlaces, HoldCredit, ReadyCount, RewardedAttempts, MaxAge,
          Arena, Overshoot, Near, Far, HoldSteps, MaxPhaseSteps,
          NumEnvs, Window, Top, GoodTimeouts, BadTimeouts, GoodQuality,
          Required, RequiredFailures, MinDwell,
          MailboxSize, MaxFrames, Collectors, MaxVersion, Slots, LineageSteps,
          MaxHorizon, StableSteps, DwellSteps, StopSteps, MaxWaypoints,
          Families, PerFamily, RolloutSteps, MaxBatch, Replacements,
          EpisodeFrames, CommandSteps,
          Robots, MaxSteps, MaxBatches, MaxSpeed, MaxInputs, MaxSweeps

(* Of the goal mix: a window is good when nothing in it failed, and good   *)
(* enough to stay when half of it succeeded.                               *)
PassesAtRate(bar, s, n) == IF bar = "promote" THEN s = n ELSE 2 * s >= n

\* What the theorems ask of the parameters.
ASSUME MixParameters ==
  /\ MinAttempts \in Nat /\ DemotionWindows \in Nat \ {0} /\ MaxTargets \in Nat
  /\ IsFiniteSet(Gates) /\ IsFiniteSet(Navigators)
ASSUME SequenceParameters ==
  /\ HoldCalls \in Nat \ {0} /\ Calm \in Nat /\ PushTime \in Nat /\ RetargetTime \in Nat
  /\ HistoryCapacity \in Nat \ {0} /\ MaxAttempts \in Nat
ASSUME JumpParameters ==
  /\ ThrustSteps \in Nat
  /\ CrouchSteps \in 0..ThrustSteps /\ LandingSteps \in 0..ThrustSteps
  /\ RecoverySteps \in Nat
ASSUME RewardParameters ==
  HoldCredit \in Nat /\ ReadyCount \in Nat /\ RewardedAttempts \in Nat /\ MaxAge \in Nat
ASSUME EpisodeParameters ==
  /\ Arena \in Nat /\ Overshoot \in Nat /\ Near \in Nat /\ Far \in Nat
  /\ (Near + Far) \div 2 \in Overshoot..Arena
ASSUME HorizonParameters ==
  /\ NumEnvs \in Nat \ {0} /\ Window \in Nat \ {0} /\ Top \in Nat
  /\ Required \in Nat \ {0} /\ RequiredFailures \in Nat /\ MinDwell \in Nat
ASSUME AnchorParameters == "none" \notin Collectors
ASSUME SlotParameters ==
  /\ MaxHorizon \in Nat /\ StableSteps \in Nat \ {0} /\ DwellSteps \in Nat \ {0}
  /\ StopSteps \in Nat \ {0}
ASSUME SuiteParameters ==
  /\ IsFiniteSet(Families)
  /\ PerFamily \in Nat /\ RolloutSteps \in Nat /\ MaxBatch \in Nat /\ Replacements \in Nat
ASSUME StatisticsParameters == HoldSteps \in Nat \ {0} /\ CommandSteps \subseteq Nat
ASSUME TimelineParameters == MaxSteps \in Nat /\ MaxInputs \in Nat

VARIABLES part,
          v1, v2, v3, v4, v5, v6, v7, v8, v9, v10, v11, v12, v13, v14

vars == <<part, v1, v2, v3, v4, v5, v6, v7, v8, v9, v10, v11, v12, v13, v14>>

Unused == "unused"

-----------------------------------------------------------------------------

Mix == INSTANCE GoalMixRun WITH
  account <- v1, recovered <- v2, mix <- v3, Passes <- PassesAtRate

Settled == INSTANCE SettledBonus WITH
  cohort <- v1, env <- v2, done <- v3, credit <- v4, bonus <- v5, pays <- v6,
  Hold <- HoldCalls

Jump == INSTANCE JumpAttempt WITH
  requests <- v1, jump <- v2, jumped <- v3

Rewards == INSTANCE AttemptRewards WITH
  stage <- v1, robot <- v2, target <- v3, attempt <- v4, cost <- v5, shaping <- v6,
  credit <- v7, filter <- v8, pay <- v9, age <- v10, from <- v11, began <- v12,
  spent <- v13, quiet <- v14, MaxAttempts <- RewardedAttempts,
  Places <- RewardPlaces

Episode == INSTANCE EpisodeScript WITH
  task <- v1, place <- v2, tilt <- v3, height <- v4, target <- v5, gate <- v6,
  phase <- v7, settled <- v8, pushed <- v9, start <- v10, told <- v11

Horizon == INSTANCE HorizonCurriculum WITH
  stage <- v1, pending <- v2, quality <- v3, tally <- v4, best <- v5, fixed <- v6,
  disk <- v7, pc <- v8, fresh <- v9, earned <- v10

Monitor == INSTANCE LiveMonitor WITH
  pc <- v1, worker <- v2, mailbox <- v3, holding <- v4, offered <- v5, dropped <- v6,
  stopped <- v7, disabled <- v8, written <- v9, Capacity <- MailboxSize

Anchors == INSTANCE AnchorReplay WITH
  teacher <- v1, collector <- v2, arrays <- v3, manifest <- v4, reader <- v5

Lineage == INSTANCE CheckpointLineage WITH
  version <- v1, file <- v2, run <- v3, MaxSteps <- LineageSteps

Slot == INSTANCE EvaluationSlot WITH
  scenario <- v1, step <- v2, active <- v3, success <- v4, reason <- v5,
  episodeSteps <- v6, pending <- v7, waypoint <- v8, settling <- v9, recovery <- v10,
  rollout <- v11, HoldSteps <- StopSteps

Suite == INSTANCE EvaluationSuite WITH
  suite <- v1, batchSize <- v2, file <- v3, stage <- v4, digests <- v5, results <- v6,
  loop <- v7, frames <- v8, labels <- v9, gates <- v10, status <- v11, artifacts <- v12,
  MaxVersion <- Replacements

Statistics == INSTANCE SlotStatistics WITH
  step <- v1, active <- v2, command <- v3, actions <- v4, rates <- v5, contact <- v6,
  totals <- v7, still <- v8, target <- v9, hold <- v10, episode <- v11,
  MaxSteps <- EpisodeFrames

Timeline == INSTANCE ScenarioTimeline WITH
  batch <- v1, step <- v2, stage <- v3, timeline <- v4, active <- v5, robot <- v6,
  target <- v7, speed <- v8, wrench <- v9, pushed <- v10, seen <- v11, Slots <- Robots

Sweep == INSTANCE HeadingSweep WITH
  sweep <- v1, left <- v2, at <- v3, arm <- v4, suite <- v5, run <- v6, data <- v7,
  transfers <- v8, chosen <- v9

-----------------------------------------------------------------------------

MixBegins ==
  /\ part = "mix" /\ Mix!Init
  /\ v4 = Unused /\ v5 = Unused /\ v6 = Unused /\ v7 = Unused /\ v8 = Unused
  /\ v9 = Unused /\ v10 = Unused /\ v11 = Unused /\ v12 = Unused /\ v13 = Unused
  /\ v14 = Unused

SettledBegins ==
  /\ part = "settled" /\ Settled!BonusInit
  /\ v7 = Unused /\ v8 = Unused /\ v9 = Unused /\ v10 = Unused /\ v11 = Unused
  /\ v12 = Unused /\ v13 = Unused /\ v14 = Unused

JumpBegins ==
  /\ part = "jump" /\ Jump!Init
  /\ v4 = Unused /\ v5 = Unused /\ v6 = Unused /\ v7 = Unused /\ v8 = Unused
  /\ v9 = Unused /\ v10 = Unused /\ v11 = Unused /\ v12 = Unused /\ v13 = Unused
  /\ v14 = Unused

RewardsBegins ==
  /\ part = "rewards" /\ Rewards!Init

EpisodeBegins ==
  /\ part = "episode" /\ Episode!Init
  /\ v12 = Unused /\ v13 = Unused /\ v14 = Unused

HorizonBegins ==
  /\ part = "horizon" /\ Horizon!Init
  /\ v11 = Unused /\ v12 = Unused /\ v13 = Unused /\ v14 = Unused

MonitorBegins ==
  /\ part = "monitor" /\ Monitor!Init
  /\ v10 = Unused /\ v11 = Unused /\ v12 = Unused /\ v13 = Unused /\ v14 = Unused

AnchorsBegins ==
  /\ part = "anchors" /\ Anchors!Init
  /\ v6 = Unused /\ v7 = Unused /\ v8 = Unused /\ v9 = Unused /\ v10 = Unused
  /\ v11 = Unused /\ v12 = Unused /\ v13 = Unused /\ v14 = Unused

LineageBegins ==
  /\ part = "lineage" /\ Lineage!Init
  /\ v4 = Unused /\ v5 = Unused /\ v6 = Unused /\ v7 = Unused /\ v8 = Unused
  /\ v9 = Unused /\ v10 = Unused /\ v11 = Unused /\ v12 = Unused /\ v13 = Unused
  /\ v14 = Unused

SlotBegins ==
  /\ part = "slot" /\ Slot!Init
  /\ v12 = Unused /\ v13 = Unused /\ v14 = Unused

SuiteBegins ==
  /\ part = "suite" /\ Suite!Init
  /\ v13 = Unused /\ v14 = Unused

StatisticsBegins ==
  /\ part = "statistics" /\ Statistics!Init
  /\ v12 = Unused /\ v13 = Unused /\ v14 = Unused

TimelineBegins ==
  /\ part = "timeline" /\ Timeline!Init
  /\ v12 = Unused /\ v13 = Unused /\ v14 = Unused

SweepBegins ==
  /\ part = "sweep" /\ Sweep!Init
  /\ v10 = Unused /\ v11 = Unused /\ v12 = Unused /\ v13 = Unused /\ v14 = Unused

MixStep ==
  /\ part = "mix" /\ Mix!Next
  /\ UNCHANGED <<part, v4, v5, v6, v7, v8, v9, v10, v11, v12, v13, v14>>

SettledStep ==
  /\ part = "settled" /\ Settled!BonusNext
  /\ UNCHANGED <<part, v7, v8, v9, v10, v11, v12, v13, v14>>

JumpStep ==
  /\ part = "jump" /\ Jump!Next
  /\ UNCHANGED <<part, v4, v5, v6, v7, v8, v9, v10, v11, v12, v13, v14>>

RewardsStep ==
  /\ part = "rewards" /\ Rewards!Next
  /\ UNCHANGED <<part>>

EpisodeStep ==
  /\ part = "episode" /\ Episode!Next
  /\ UNCHANGED <<part, v12, v13, v14>>

HorizonStep ==
  /\ part = "horizon" /\ Horizon!Next
  /\ UNCHANGED <<part, v11, v12, v13, v14>>

MonitorStep ==
  /\ part = "monitor" /\ Monitor!Next
  /\ UNCHANGED <<part, v10, v11, v12, v13, v14>>

AnchorsStep ==
  /\ part = "anchors" /\ Anchors!Next
  /\ UNCHANGED <<part, v6, v7, v8, v9, v10, v11, v12, v13, v14>>

LineageStep ==
  /\ part = "lineage" /\ Lineage!Next
  /\ UNCHANGED <<part, v4, v5, v6, v7, v8, v9, v10, v11, v12, v13, v14>>

SlotStep ==
  /\ part = "slot" /\ Slot!Next
  /\ UNCHANGED <<part, v12, v13, v14>>

SuiteStep ==
  /\ part = "suite" /\ Suite!Next
  /\ UNCHANGED <<part, v13, v14>>

StatisticsStep ==
  /\ part = "statistics" /\ Statistics!Next
  /\ UNCHANGED <<part, v12, v13, v14>>

TimelineStep ==
  /\ part = "timeline" /\ Timeline!Next
  /\ UNCHANGED <<part, v12, v13, v14>>

SweepStep ==
  /\ part = "sweep" /\ Sweep!Next
  /\ UNCHANGED <<part, v10, v11, v12, v13, v14>>

Init ==
  \/ MixBegins \/ SettledBegins \/ JumpBegins \/ RewardsBegins \/ EpisodeBegins
  \/ HorizonBegins \/ MonitorBegins \/ AnchorsBegins \/ LineageBegins
  \/ SlotBegins \/ SuiteBegins \/ StatisticsBegins \/ TimelineBegins
  \/ SweepBegins

Next ==
  \/ MixStep \/ SettledStep \/ JumpStep \/ RewardsStep \/ EpisodeStep
  \/ HorizonStep \/ MonitorStep \/ AnchorsStep \/ LineageStep \/ SlotStep
  \/ SuiteStep \/ StatisticsStep \/ TimelineStep \/ SweepStep

Spec == Init /\ [][Next]_vars

(***************************************************************************)
(* Properties                                                              *)
(***************************************************************************)

\* Every part keeps to the values its code works with: what the counters, stages,
\* phases and files of the training process and of the evaluation can hold.
TypeOK ==
  CASE part = "mix" -> Mix!TypeOK
    [] part = "settled" -> Settled!TypeOK
    [] part = "jump" -> Jump!TypeOK
    [] part = "rewards" -> Rewards!TypeOK
    [] part = "episode" -> Episode!TypeOK
    [] part = "horizon" -> Horizon!TypeOK
    [] part = "monitor" -> Monitor!TypeOK
    [] part = "anchors" -> Anchors!TypeOK
    [] part = "lineage" -> Lineage!TypeOK
    [] part = "slot" -> Slot!TypeOK
    [] part = "suite" -> Suite!TypeOK
    [] part = "timeline" -> Timeline!TypeOK
    [] part = "sweep" -> Sweep!TypeOK
    [] OTHER -> part = "statistics"

\* A step up is earned: the goal mix by windows of fresh evidence, successes never more
\* than trials (update_generalist_goal_mix), the horizon by windows nearly all of whose
\* episodes are of its stage, and the kept candidate by the best of them, whatever a
\* crash leaves on disk (horizon_curriculum.py).
PromotionsAreEarned ==
  /\ part = "mix" => Mix!EvidenceIsARate /\ Mix!PromotionsEarned
  /\ part = "horizon" => Horizon!PromotionIsEarned /\ Horizon!CandidateIsTheBest

\* The account of target attempts balances and agrees with the ring of their rows, only
\* a reached target is settled, and no attempt is credited twice
\* (mdp/events.py: targets are issued, closed and reset by separate functions).
AttemptsAreBooked ==
  part = "settled" => /\ Settled!AttemptBooks /\ Settled!HistoryAgrees
                      /\ Settled!CreditedOnce /\ Settled!SettledWasReached

\* To the goal mix an environment is an EpisodeLedger: the sequence of targets, with its
\* phases, cohorts and resets, credits each ended episode's account once, as it was
\* before the next target is issued.
ImplementsLedger ==
  /\ part = "settled" => Settled!Ledger!LedgerInit
  /\ [][part = "settled" => \/ Settled!Ledger!Call \/ Settled!Ledger!Restart
                            \/ UNCHANGED Settled!Ledger!ledgerVars]_vars

\* A settled stop that the sequence records is paid for, to that very attempt, although
\* the reward times the dwell with a clock of its own (rewards.py:454-560).
SettledIsPaid == [][part = "settled" => Settled!SettledIsPaid]_vars

\* A jump request is one attempt, which takes off at most once, and a robot that calms
\* down ends its attempt in bounded time in whatever phase it is (mdp/jump.py).
JumpsAreWhole ==
  part = "jump" => Jump!RequestsSeenOnce /\ Jump!OneTakeoff /\ Jump!CalmRobotFinishes

\* What was judged stands: bad marks are those of the stage they were given in, an
\* evaluation slot keeps its verdict while other slots run on, and an attempt that took
\* off is only ended by a recovered landing (events.py, runner.py:1472-1534, jump.py).
JudgementsStand ==
  [][/\ part = "mix" => Mix!MarksBelongToTheStage
     /\ part = "slot" => Slot!VerdictIsFinal
     /\ part = "jump" => Jump!RecoveredHasLanded]_vars

\* No reward is computed across two attempts or two episodes (AttemptRewards).
RewardsAreOfOneAttempt == part = "rewards" => Rewards!RewardsAreOfOneAttempt

\* An episode runs as its task describes it, from the pose to the last target
\* (EpisodeScript).
EpisodeFollowsTheScript == part = "episode" => Episode!EpisodeFollowsTheScript

\* dropped_display_frames counts what the reader of live_monitor.json misses
\* (live_training_monitor.py: a full mailbox evicts, closing makes room).
NoSilentLoss == part = "monitor" => Monitor!NoSilentLoss

\* What a run starts from fits together: the arrays of the anchor corpus and their
\* manifest, though collectors race and are killed (retention_replay.py), and the
\* weights, the normalizer and the schedules of a checkpoint (semantic_normalization.py,
\* provenance_runner.py).
InheritanceFits ==
  /\ part = "anchors" => Anchors!LoadedCorpusIsWhole
  /\ part = "lineage" => Lineage!RunFitsItsWeights

\* A recovery, a settling or a waypoint stop is reported exactly when the rollout holds
\* the window that confirms it (runner.py:1128-1208, 1431-1447).
SuccessIsSustained ==
  part = "slot" => Slot!WaypointsAreHeld /\ Slot!RecoveryIsSustained

\* What an evaluation reports is what it did: every scenario has one result, a verdict
\* has its evidence beside it, the digests enclose the load of the weights; a slot's row
\* is that of its own episode; and every slot is given its own scenario's inputs.
EvidenceIsOfTheEvaluation ==
  /\ part = "suite" => /\ Suite!OneResultEach /\ Suite!VerdictHasEvidence
                       /\ Suite!DigestsEncloseTheLoad /\ Suite!LabelsAreUnique
                       /\ Suite!RecordingIsComplete
  /\ part = "statistics" => Statistics!StatisticsAreOfTheEpisode
  /\ part = "timeline" => Timeline!InputsAreTheTimeline

\* The extended run of the heading sweep starts from an arm that won on every suite with
\* numbers measured on its own checkpoint, and no run is left behind
\* (overnight_waypoint_heading_sweep.py).
ExtensionIsEarned ==
  part = "sweep" => Sweep!ExtensionIsEarned /\ Sweep!NoRunIsLeftBehind
=============================================================================
