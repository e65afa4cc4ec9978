SPECIFICATION FairSpec
CONSTANTS
  Creators = {}
  Editors = {e1}
  Readers = {r1}
  Faults = {"build_fails"}
  Nothing = Nothing
PROPERTIES EveryRequestEnds
