SPECIFICATION Spec
CONSTANTS
  Gates = {1}
  Navigators = {2, 3}
  MaxTargets = 1
  MaxEvidence = 3
  MinAttempts = 1
  DemotionWindows = 2
  HoldCalls = 2
  Calm = 1
  PushTime = 1
  RetargetTime = 3
  HistoryCapacity = 2
  MaxAttempts = 3
  CrouchSteps = 1
  ThrustSteps = 3
  LandingSteps = 1
  RecoverySteps = 2
  MaxRequests = 2
  RewardPlaces = {0, 1, 2}
  HoldCredit = 2
  ReadyCount = 2
  RewardedAttempts = 2
  MaxAge = 4
  Arena = 2
  Overshoot = 1
  Near = 1
  Far = 3
  HoldSteps = 2
  MaxPhaseSteps = 3
  NumEnvs = 2
  Window = 3
  Top = 2
  GoodTimeouts = 2
  BadTimeouts = 1
  GoodQuality = 2
  Required = 2
  RequiredFailures = 2
  MinDwell = 2
  MailboxSize = 2
  MaxFrames = 5
  Collectors = {"a", "b"}
  MaxVersion = 2
  Slots = {"a", "b"}
  LineageSteps = 2
  MaxHorizon = 4
  StableSteps = 2
  DwellSteps = 2
  StopSteps = 3
  MaxWaypoints = 2
  Families = {"a", "b"}
  PerFamily = 2
  RolloutSteps = 2
  MaxBatch = 2
  Replacements = 1
  EpisodeFrames = 3
  CommandSteps = {0, 1, 9}
  Robots = {1, 2}
  MaxSteps = 2
  MaxBatches = 2
  MaxSpeed = 1
  MaxInputs = 2
  MaxSweeps = 2
INVARIANTS TypeOK   JumpsAreWhole RewardsAreOfOneAttempt  NoSilentLoss  SuccessIsSustained  
PROPERTIES   JudgementsStand
CHECK_DEADLOCK FALSE
