CONSTANTS
  Orders = {1, 2, 3}
  Admins = {}
  Flusher = flusher
  Grace = 2
  Limit = 2
  Mishaps = 1
SPECIFICATION BacklogSpec
PROPERTIES
  QueueIsServed
  SwitchedOffDrains
