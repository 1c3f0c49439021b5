CONSTANTS
  Clients = {c1}
  CriticalProducers = {mission, status}
  LatestProducers = {pose}
  CriticalCap = 1
  MaxSeq = 3
SPECIFICATION Spec
INVARIANT NoSendOnClosed
CHECK_DEADLOCK FALSE
