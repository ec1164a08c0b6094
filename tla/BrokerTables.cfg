SPECIFICATION Spec
CONSTANTS
  c1 = c1  c2 = c2  c3 = c3  c4 = c4
  n1 = n1  n2 = n2  t1 = t1  t2 = t2  k1 = k1  k2 = k2
  NoKey = NoKey  NoCall = NoCall  NoRequest = NoRequest
  Calls = {c1, c2, c3}
  Requests <- TableRequests
  Keys = {k1, k2}
  MaxActive = 2
  MaxActivePerConnection = 2
  MaxInputWaiting = 2
  MaxInputWaitingPerConnection = 1
  MaxEntries = 1
SYMMETRY Symmetry
INVARIANTS EveryCallReachable OneEffectPerKey
CHECK_DEADLOCK FALSE
