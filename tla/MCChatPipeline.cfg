\* Both webhooks: one customer, a question and a claim, the follow gate.
SPECIFICATION Spec
CONSTANTS
  m1 = m1
  m2 = m2
  m3 = m3
  c1 = c1
  c2 = c2
  c3 = c3
  Customers = {c1}
  Msgs = {m1, m2}
  From <- OneWriter
  Claims = {m2}
  MetaWorkers = {w1}
  ZernioCalls = {z1, z2}
  Poller = p
  PollerOn = FALSE
  Amount = 1
  Attempts = 1
  Cooldown = 1
  DropWindow = 1
  None = None
  MaxCalls = 2
  MaxSwitches = 1
  MaxDeletes = 1
  MaxRestarts = 0
  MaxClock = 1
SYMMETRY Symmetry
CHECK_DEADLOCK FALSE
INVARIANTS
  TypeOK
  OneReplyPerId
  AcceptedAreKept
  NoGhostReplies
  GateSpaced
PROPERTY
  ImplementsConversation
