SPECIFICATION Spec
CONSTANTS
  Requesters = {"r1"}
  MaxUpdates = 3
  MaxCrashes = 0
INVARIANTS UpdatesNeverOverlap
CHECK_DEADLOCK FALSE
