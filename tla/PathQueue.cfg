SPECIFICATION FairSpec
CONSTANTS
  c1 = c1
  c2 = c2
  Calls = {c1, c2}
  Mutating = {c1}
  Following = {c2}
  MaxSockets = 1
  NoSocket = NoSocket
  NoDoc = NoDoc
  MaxPending = 1
  MaxDoc = 0
  MaxQueued = 1
  MaxRestarts = 1
INVARIANTS OneToolAtATime AnsweredOnce
PROPERTIES QueueDrains
CHECK_DEADLOCK FALSE
