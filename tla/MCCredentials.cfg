\* The poller and one request at a time, the request saves, discovers, tests or restores.
SPECIFICATION FairSpec
CONSTANTS
  k1 = k1
  k2 = k2
  p1 = p1
  web1 = web1
  KeysOf <- MCKeysOf
  None = None
  Blank = Blank
  Env <- MCEnv
  Poller = Poller
  Web = {web1}
  MaxRequests = 1
CHECK_DEADLOCK FALSE
INVARIANTS
  TypeOK
  AloneApplies
  AnsweredSaveMatches
PROPERTY ClientsConverge
