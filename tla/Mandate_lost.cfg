\* A PATCH the enclave took, whose answer is lost.
CONSTANTS
  Agents = {a1}
  NoAgent = NoAgent
  Calls = {c1, c2}
  Mandates = {k1, m2}
  KuruMandates = {k1}
  NoMandate = NoMandate
  PrepareIds = {p1, p2}
  NoPrepare = NoPrepare
  OwnerMode = "server"
  MaxAgents = 1
  Faults = {"lost"}
  OwnerActsDuringHire = FALSE
SPECIFICATION Spec
INVARIANTS StoredMandateIsEnforced
