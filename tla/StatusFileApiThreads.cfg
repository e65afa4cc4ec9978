SPECIFICATION Spec
CONSTANTS
  Writers = {api1, api2}
  Launcher = launcher
  Readers = {r}
  Docs = {d1, d2}
  Inodes = {i1, i2, i3, i4}
  Temporary <- TemporaryOfCode
  Target = "run_status.json"
  None = None
INVARIANTS FileIsWhole
