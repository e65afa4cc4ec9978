SPECIFICATION Spec
CONSTANTS
  Creators = {c1}
  Editors = {e1}
  Readers = {r1}
  Faults = {"build_fails", "thread_start_fails"}
  Nothing = Nothing
INVARIANTS CachesNeverStale ReadYourWrites PendingRefreshIsAlive
CHECK_DEADLOCK FALSE
