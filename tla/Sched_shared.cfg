\* Two agents, one of them watching, share one slot; one opens its account; one book;
\* no symmetry, which is unsound for liveness.
CONSTANTS
  r1 = r1
  b1 = b1
  Agents = {a1, a2}
  NoAgent = NoAgent
  Jobs = {j1, j2}
  Requests = {}
  Watching = {a2}
  NoTime = NoTime
  Cadence = 1
  Spread = 0
  Heartbeat = 2
  DayLength = 3
  MaxRunsPerDay = 1
  MaxConcurrent = 1
  MaxTime = 3
  MaxLog = 2
  Faults = {}
  Readers = {r1}
  MaxFailures = 1
  MaxRestarts = 1
  OnboardFaults = {"unread", "misread", "nogas", "unsent", "late", "unlogged", "lost", "unsaved"}
SPECIFICATION MCSpec
INVARIANTS OnboardingIsTrue
PROPERTIES DueAgentsRun AccountIsOpened BooksComeFresh
CHECK_DEADLOCK FALSE
