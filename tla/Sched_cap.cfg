\* The cap over every scheduled start, with crashes.
CONSTANTS
  Agents = {a1}
  NoAgent = NoAgent
  Jobs = {j1, j2}
  Requests = {m1}
  Watching = {}
  NoTime = NoTime
  Cadence = 1
  Spread = 0
  Heartbeat = 1
  DayLength = 3
  MaxRunsPerDay = 1
  MaxConcurrent = 1
  MaxTime = 2
  MaxLog = 3
  Faults = {"crash"}
SPECIFICATION Spec
SYMMETRY Symmetric
CHECK_DEADLOCK FALSE
INVARIANTS RestartKeepsCap
