\* Two requests at a time for a user and three agents, on two keys; two users'
\* starter kits at once over two days and a restart, room for one a day from one
\* address.
CONSTANTS
  KitUsers = {w1, w2}
  Ips = {i1}
  NoIp = NoIp
  KitDailyCap = 2
  IpCap = 1
  Stock <- MCStock
  LastDay = 1
  MaxRestarts = 1
  KitFaults = {"unread", "rejected", "lost", "late", "reverted", "unsaved"}
  Requests = {r1, r2}
  Users = {u1}
  Addresses = {x1, x2, x3}
  Keys = {k1, k2}
  AgentIds = {g1, g2, g3}
  DailyCap = 3
  MaxAgentsPerDay = 2
  Spacing = 1
  MaxAttempts = 2
  DayLength = 1
  MaxTime = 1
  MaxSent = 2
  NoAgent = NoAgent
  Nobody = Nobody
  NoKey = NoKey
  NoTime = NoTime
  NoNonce = NoNonce
  Amount <- MCAmount
  Faults = {"rejected", "lost", "unread", "slow", "reverted"}
SPECIFICATION MCSpec
SYMMETRY Symmetric
CHECK_DEADLOCK FALSE
INVARIANTS FundedAgainOnlyIfLost LedgerIsTrue KitsAreOnce
