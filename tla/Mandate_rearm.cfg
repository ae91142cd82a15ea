\* The pin of a hire that has not returned, against a revoke.
CONSTANTS
  Agents = {a1}
  NoAgent = NoAgent
  Calls = {c1, c2}
  Mandates = {k1}
  KuruMandates = {k1}
  NoMandate = NoMandate
  PrepareIds = {p1, p2}
  NoPrepare = NoPrepare
  OwnerMode = "server"
  MaxAgents = 1
  Faults = {}
  OwnerActsDuringHire = TRUE
SPECIFICATION Spec
INVARIANTS ClearedMeansExitOnly
