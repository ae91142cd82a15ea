\* Server-owned agents: hire with its pin, fork, amend, revoke, archive; one agent
\* with lost answers and crashes, two without; the anchor of one; the rules
\* of one and its money; two sends
\* of a user, three registrations from two devices, three provisions of credits.
CONSTANTS
  Agents = {a1, a2}
  a2 = a2
  mon = mon
  usdc = usdc
  book = book
  KuruTokens = {mon, usdc}
  Native = mon
  Ausd = ausd
  Markets = {book}
  Terms <- MCTerms
  Nobody = nobody
  Custodies = {"account-id", "address-keyed"}
  MostFee = 2
  MaxAmount = 2
  MaxTime = 1
  MaxChanges = 2
  NoCall = NoCall
  NoAgent = NoAgent
  Calls = {c1, c2, c3}
  Mandates = {k1, m2}
  KuruMandates = {k1}
  NoMandate = NoMandate
  PrepareIds = {p1, p2}
  NoPrepare = NoPrepare
  OwnerMode = "server"
  MaxAgents = 1
  Faults = {"lost", "crash"}
  OwnerActsDuringHire = FALSE
  Registrants = {a2}
  MaxRetries = 2
  MaxAmends = 2
  AmendsBack = FALSE
  MaxFailures = 2
  AnchorRestarts = 1
  AnchorFaults = {"unsent", "late", "reverted"}
  Sends = {p1, p2}
  Paths = {"transfer", "step", "kernel"}
  NoTime = NoTime
  Spacing = 2
  Settling = 1
  Ttl = 1
  Patience = 1
  SendTime = 3
  SendFaults = {"unapproved", "lost", "unhashed", "slow", "reverted", "unread", "restart"}
  SendTroubles = 1
  Asks = {c1, c2, c3}
  Devices = {a1, a2}
  RegisterFaults = {"rejected", "lost", "unsaved", "restart"}
  RegisterTroubles = 3
  Reads = {c0}
  OldLimit = 1
  FreeLimit = 2
  HandLimit = 3
  CreditFaults = {"rejected", "lost", "unsaved", "undeleted", "restart", "raised"}
  CreditTroubles = 3
SPECIFICATION MCSpec
SYMMETRY Symmetric
INVARIANTS TypeOK ClearedMeansExitOnly PinnedFlagIsTrue PolicyIsKept ServiceIsTrue
PROPERTIES RevokedOnlyNarrows RecordFollowsEnclave AuthorityIsPromised LastWordHolds MoneyComesHome
