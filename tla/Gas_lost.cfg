\* A broadcast is accepted and its answer lost.
CONSTANTS
  Requests = {r1}
  Users = {u1}
  Addresses = {x1, x2, x3}
  Keys = {k1}
  AgentIds = {g1, g2, g3}
  DailyCap = 3
  MaxAgentsPerDay = 2
  Spacing = 1
  MaxAttempts = 2
  DayLength = 1
  MaxTime = 1
  MaxSent = 2
  NoAgent = NoAgent
  Nobody = Nobody
  NoKey = NoKey
  NoTime = NoTime
  NoNonce = NoNonce
  Amount <- MCAmount
  Faults = {"lost"}
SPECIFICATION Spec
SYMMETRY Symmetric
CHECK_DEADLOCK FALSE
INVARIANTS FundedOnce
