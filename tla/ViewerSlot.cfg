SPECIFICATION FairSpec
CONSTANTS
  Viewers = {v1, v2}
  Pids = {p1, p2}
  Faults = {"thread_start_fails", "dashboard_dies"}
  Other = Other
  None = None
INVARIANTS LiveIsManaged SignalsStayInSlot EscalationInOrder
PROPERTIES StopEndsViewer
