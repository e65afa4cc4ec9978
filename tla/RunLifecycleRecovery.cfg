SPECIFICATION FairSpecTrainingEnds
CONSTANTS
  Stoppers = {}
  Pollers = {p1, p2}
  StopStates <- AskedWhileRunning
  Faults = {"launcher_dies", "log_fails"}
  OrphansReaped = TRUE
  NoDoc = NoDoc
PROPERTIES EventuallyTerminal
CHECK_DEADLOCK FALSE
