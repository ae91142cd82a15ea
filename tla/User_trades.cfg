\* Two prepares for two client ids of one wallet, read as they run; one trade of a
\* phone, with three faults; two orders at Perpl, of one phone or of two, with one.
CONSTANTS
  Trades = {t1, t2}
  ClientIds = {c1, c2}
  Readers = {r1}
  TTL = 1
  UnverifiableAfter = 1
  Retention = 1
  MaxTime = 1
  Nobody = Nobody
  Plans <- MCPlans
  Flows = {f1}
  FlowKinds = {"market", "onboard"}
  Prices = {1, 2}
  Lifetime = 2
  FollowFor = 2
  MaxLost = 3
  Losses = {"request", "answer", "gateway", "unauthorized", "restart", "steps", "refused"}
  Actions = {o1, o2}
  OrderKinds = {"open", "close"}
  Traders = {p1, p2}
  MaxSize = 2
  MaxReads = 2
  MaxTroubles = 1
  Faults = {"unsigned", "refused", "failed", "contradicted", "late", "dropped", "unadmitted", "unread"}
  f1 = f1
  o1 = o1
  o2 = o2
  p1 = p1
  p2 = p2
SPECIFICATION MCSpec
CHECK_DEADLOCK FALSE
INVARIANTS RequestsAreOrdered RecordsAreTrue ToldIsTrue OrdersAreTrue
PROPERTIES EveryoneIsTold
