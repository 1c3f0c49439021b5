CONSTANTS
  r1 = r1
  r2 = r2
  r3 = r3
  i1 = i1
  i2 = i2
  i3 = i3
  NoRequest = NoRequest
  Requests = {r1, r2, r3}
  Ids = {i1, i2, i3}
  Id <- RetryIds
  Kind <- RetryKinds
  QueueCap = 1
  MaxBreaks = 1
SPECIFICATION Spec
INVARIANTS TypeOK NoFalseAck
SYMMETRY RetrySymmetry
PROPERTY NoGoalAfterConfirmedStop
CHECK_DEADLOCK FALSE
