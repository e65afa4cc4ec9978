SPECIFICATION Spec
CONSTANTS
  Stoppers = {s1}
  Pollers = {p1}
  StopStates <- AskedWhileRunning
  Faults = {}
  OrphansReaped = TRUE
  NoDoc = NoDoc
INVARIANTS TypeOK TerminalMeansNoTrainer RunningIsRecoverable TrainerIsReachable
CHECK_DEADLOCK FALSE
