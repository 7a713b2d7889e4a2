\* One keyword, created and edited by two requests, then deleted.
SPECIFICATION Spec
CONSTANTS
  t1 = t1
  t2 = t2
  w1 = w1
  w2 = w2
  p1 = p1
  p2 = p2
  Ids = {1}
  Words = {w1}
  Texts = {1}
  Prices = {p1}
  Rids = {1, 2, 3}
  Tasks = {t1, t2}
  None = None
  MaxEdits = 3
  MaxFaults = 0
  MaxRestarts = 0
SYMMETRY Symmetry
CHECK_DEADLOCK FALSE
INVARIANT DeletedStopsFiring
