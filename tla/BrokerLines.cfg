SPECIFICATION OrderedSpec
CONSTANTS
  c1 = c1  c2 = c2  c3 = c3  c4 = c4
  n1 = n1  n2 = n2  t1 = t1  t2 = t2  k1 = k1  k2 = k2
  NoKey = NoKey  NoCall = NoCall  NoRequest = NoRequest
  Calls = {c1, c2, c3}
  Requests <- LineRequests
  Keys = {}
  MaxActive = 4
  MaxActivePerConnection = 4
  MaxInputWaiting = 0
  MaxInputWaitingPerConnection = 0
  MaxEntries = 1
INVARIANTS MutationExclusion
PROPERTIES AbortedNeverStarts EveryCallSettles SerialSpec
CHECK_DEADLOCK FALSE
