\* A device-owned agent: prepare, sign, commit; the owner may act before the hire
\* returns.  Its anchor, a run of it, the fills of one of its orders.  No symmetry, which is
\* unsound for liveness.
CONSTANTS
  Agents = {a1}
  NoAgent = NoAgent
  Calls = {c1, c2}
  Mandates = {k1, m2}
  KuruMandates = {k1}
  NoMandate = NoMandate
  PrepareIds = {p1, p2}
  NoPrepare = NoPrepare
  OwnerMode = "device"
  MaxAgents = 1
  Faults = {"lost", "crash"}
  OwnerActsDuringHire = TRUE
  a1 = a1
  o1 = o1
  m1 = m1
  NoBlock = NoBlock
SPECIFICATION MCSpec
CHECK_DEADLOCK FALSE
INVARIANTS ApprovalsAreSingleUse
PROPERTIES EveryCallReturns RunsEnd RecordsConverge
