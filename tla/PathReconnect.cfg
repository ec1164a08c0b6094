SPECIFICATION Spec
CONSTANTS
  c1 = c1
  c2 = c2
  Calls = {c1}
  Mutating = {c1}
  Following = {}
  MaxSockets = 2
  NoSocket = NoSocket
  NoDoc = NoDoc
  MaxPending = 2
  MaxDoc = 1
  MaxQueued = 1
  MaxRestarts = 1
INVARIANTS ChecksAuthorizedDocument
CHECK_DEADLOCK FALSE
