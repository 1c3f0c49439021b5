\* Two critical and one latest-wins producer, one client that may be slow.
CONSTANTS
  Clients = {c1}
  CriticalProducers = {mission, status}
  LatestProducers = {pose}
  CriticalCap = 2
  MaxSeq = 3
SPECIFICATION FairSpec
INVARIANTS TypeOK NoSilentLoss TypeOrder
PROPERTIES BroadcastEnds ClosedClientLeaves
CHECK_DEADLOCK FALSE
