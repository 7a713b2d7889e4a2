\* The poller beside the Meta webhook: two customers who write for the first time.
SPECIFICATION Spec
CONSTANTS
  m1 = m1
  m2 = m2
  m3 = m3
  c1 = c1
  c2 = c2
  c3 = c3
  Customers = {c1, c2}
  Msgs = {m1, m2}
  From <- TwoWriters
  Claims = {}
  MetaWorkers = {w1}
  ZernioCalls = {}
  Poller = p
  PollerOn = TRUE
  Amount = 2
  Attempts = 1
  Cooldown = 1
  DropWindow = 1
  None = None
  MaxCalls = 1
  MaxSwitches = 0
  MaxDeletes = 0
  MaxRestarts = 1
  MaxClock = 0
CHECK_DEADLOCK FALSE
INVARIANTS
  MarkedIsStored
PROPERTY
  NothingSlipsThrough
