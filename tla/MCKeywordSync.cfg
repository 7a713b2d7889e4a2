\* Two threads over two keywords of both providers.
SPECIFICATION Spec
CONSTANTS
  t1 = t1
  t2 = t2
  w1 = w1
  w2 = w2
  p1 = p1
  p2 = p2
  Ids = {1, 2}
  Words = {w1, w2}
  Texts = {1}
  Prices = {p1, p2}
  Rids = {1, 2, 3}
  Tasks = {t1, t2}
  None = None
  MaxEdits = 3
  MaxFaults = 1
  MaxRestarts = 1
SYMMETRY Symmetry
CHECK_DEADLOCK FALSE
INVARIANTS
  TypeOK
  DuplicateNeedsOverlap
  CleanSyncMirrors
  CleanPauseSilences
