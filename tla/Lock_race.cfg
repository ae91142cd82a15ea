\* Three processes of one host, one of them killed; two boot at once.
CONSTANTS
  Processes = {p1, p2, p3}
  HostOf <- MCHostOf
  NoOwner = NoOwner
  MaxBoots = 1
  Kills = TRUE
  Overlap = TRUE
SPECIFICATION Spec
CHECK_DEADLOCK FALSE
INVARIANTS OneWriter
