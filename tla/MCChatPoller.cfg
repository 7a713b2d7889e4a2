\* The poller alone: three customers, two of them in the list, failing reads, failing sends, restarts.
SPECIFICATION FollowedSpec
CONSTANTS
  m1 = m1
  m2 = m2
  m3 = m3
  c1 = c1
  c2 = c2
  c3 = c3
  Customers = {c1, c2, c3}
  Msgs = {m1, m2, m3}
  From <- ThreeWriters
  Claims = {}
  MetaWorkers = {}
  ZernioCalls = {}
  Poller = p
  PollerOn = TRUE
  Amount = 2
  Attempts = 2
  Cooldown = 1
  DropWindow = 1
  None = None
  MaxCalls = 0
  MaxSwitches = 0
  MaxDeletes = 0
  MaxRestarts = 1
  MaxClock = 0
CHECK_DEADLOCK FALSE
PROPERTY
  LastMessageIsStored
