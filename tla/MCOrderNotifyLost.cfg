CONSTANTS
  Orders = {1}
  Admins = {a1}
  Flusher = flusher
  Grace = 2
  Limit = 1
  Mishaps = 1
SPECIFICATION Spec
INVARIANT UntoldStaysQueued
