SPECIFICATION Spec
CONSTANTS
  MaxSaved = 3
  MaxGen = 3
  Capacity = 2
  WrapperClip = 2
  Outputs = {0, 3}
  MaxCalls = 3
  MaxLives = 3
  MaxPolicies = 2
  DwellFrames = 1
  MaxEvents = 1
  MaxFrames = 5
  Arena = 3
  MaxSegment = 2
  MaxQueued = 2
  DwellSteps = 2
  MaxIssued = 4
  MaxRequests = 2
  Queuers = {"dashboard", "panel"}
  MaxCommands = 2
  Readers = {1, 2}
  MaxHalves = 4
  MaxFiles = 2
  Files = {1, 2}
  Callers = {1, 2}
  LogSteps = {1}
  MaxLogged = 2
  MaxInodes = 2
  Requesters = {"r1", "r2"}
  MaxUpdates = 3
  MaxCrashes = 1
  Syncers = {"index", "overview"}
  Listers = {"l1", "l2"}
  MaxSyncs = 1
  Paths = {"f", "g"}
  MaxContent = 2
  MaxEdits = 2
  Launchers = {1, 2}
  Dirs = {1}
  Parents = {11, 12}
  MaxVersion = 1
  MaxSaves = 1
INVARIANTS TypeOK CaptureIsOnePolicy  RouteIsFollowed   OneUpdate ProvenanceIsTrue
PROPERTIES  UpdateIsSettled
CHECK_DEADLOCK FALSE
