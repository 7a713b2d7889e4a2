CONSTANTS
  Orders = {1}
  Admins = {a1, a2}
  Flusher = flusher
  Grace = 2
  Limit = 1
  Mishaps = 2
SPECIFICATION Spec
SYMMETRY Symmetry
INVARIANTS
  TypeOK
  RecordedIsDelivered
  ForgottenOnlyIfOvertaken
  ToldOnceUnlessUnsure
