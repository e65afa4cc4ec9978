SPECIFICATION FairSpec
CONSTANTS
  Stoppers = {s1, s2}
  Pollers = {}
  StopStates <- AskedWhileRunning
  Faults = {}
  OrphansReaped = TRUE
  NoDoc = NoDoc
PROPERTIES StopEndsTrainer
CHECK_DEADLOCK FALSE
