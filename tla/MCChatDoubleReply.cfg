\* One message, seen by the poller and by the Meta webhook.
SPECIFICATION Spec
CONSTANTS
  m1 = m1
  m2 = m2
  m3 = m3
  c1 = c1
  c2 = c2
  c3 = c3
  Customers = {c1}
  Msgs = {m1}
  From <- TwoWriters
  Claims = {}
  MetaWorkers = {w1}
  ZernioCalls = {}
  Poller = p
  PollerOn = TRUE
  Amount = 2
  Attempts = 2
  Cooldown = 1
  DropWindow = 1
  None = None
  MaxCalls = 1
  MaxSwitches = 0
  MaxDeletes = 0
  MaxRestarts = 0
  MaxClock = 0
CHECK_DEADLOCK FALSE
INVARIANT
  OneReplyPerMessage
