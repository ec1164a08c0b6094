SPECIFICATION Spec
CONSTANTS
  c1 = c1
  c2 = c2
  Calls = {c1}
  Mutating = {c1}
  Following = {}
  MaxSockets = 1
  NoSocket = NoSocket
  NoDoc = NoDoc
  MaxPending = 2
  MaxDoc = 0
  MaxQueued = 2
  MaxRestarts = 0
INVARIANTS CancelledNeverSucceeds
CHECK_DEADLOCK FALSE
