\* Three processes on two hosts, one booting at a time; the returns, books,
\* sessions, heads and deposits of the one that runs.  Of the heads, two
\* heights, two blocks that get as far as blocks do, and a socket that ends once.
CONSTANTS
  Processes = {p1, p2, r1}
  HostOf <- HostOfThree
  NoOwner = NoOwner
  MaxBoots = 2
  Kills = TRUE
  Overlap = FALSE
  Returns = {q1, q2}
  Writes = {w1}
  Funds <- MCFunds
  Setups <- MCSetups
  Faults = {"rejected", "lost", "late", "reverted", "dropped", "stale", "mismatch", "restart"}
  MaxTroubles = 1
  Everything = Everything
  NoNonce = NoNonce
  MarketIds = {b1, b2}
  MaxRequests = 1
  Window = 2
  StaleAfter = 1
  RefreshMin = 1
  IdleAfter = 2
  MaxChanges = 1
  MaxFrames = 1
  MaxFeedTroubles = 1
  FeedTroubles = {"closed", "refused", "noids"}
  d1 = d1
  k1 = k1
  Nobody = Nobody
  Devices = {d1, d2}
  Web = {d1}
  Accounts = {a1, a2}
  Calls = {k1}
  CallsOf <- MCCallsOf
  MaxChallenges = 3
  MaxSwitches = 3
  MaxMishaps = 1
  Mishaps = {"lost", "doubled", "restart", "expired", "rotated"}
  MaxHeight = 2
  MaxBlocks = 2
  LastState = 4
  MaxPushes = 2
  WindowSize = 1
  MaxTimers = 2
  MaxFlaps = 1
  Disorder = TRUE
  Handlers = {h1, h2}
  Payloads = {r1, r2, r3}
  Legible = {r1, r2}
  Described = {t1, t3}
  Carries <- MCCarries
  AgentOf <- MCAgentOf
  NoAgent = NoAgent
  SeenMax = 1
  MaxUpsets = 2
  Upsets = {"restart", "append", "answer", "unconfigured"}
  r1 = r1
  r2 = r2
  r3 = r3
  t1 = t1
  t2 = t2
  t3 = t3
  g1 = g1
  g2 = g2
  a1 = a1
  c1 = c1
  c2 = c2
  j1 = j1
  m1 = m1
  o1 = o1
  o2 = o2
  NoBlock = NoBlock
  NoTime = NoTime
  WatcherIds = {w1}
  Conditions = {"crosses", "above"}
  EdgeConditions = {"crosses"}
  ClauseSets = {{"crosses"}, {"crosses", "above"}}
  Cooldown = 1
  MaxChecks = 2
  MaxSets = 2
  MaxClock = 1
  MaxReloads = 1
  WatchFaults = {"unread", "unsaved"}
SPECIFICATION MCSpec
VIEW MCView
CHECK_DEADLOCK FALSE
INVARIANTS OneWriter LockServes ReturnsAreTrue BooksAreTrue SessionsAreTrue HeadsAreTrue DepositsAreTrue RunsAreRationed WritesKeepTheirTurn VerdictsMatch FillsAreAccounted LogIsWhole WatchersAreTrue
PROPERTIES WakesAndPausesHold
