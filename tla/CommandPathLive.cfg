CONSTANTS
  r1 = r1
  r2 = r2
  r3 = r3
  i1 = i1
  i2 = i2
  i3 = i3
  NoRequest = NoRequest
  Requests = {r1, r2, r3}
  Ids = {i1, i2, i3}
  Id <- AreaIds
  Kind <- AreaKinds
  QueueCap = 1
  MaxBreaks = 0
SPECIFICATION FairSpec
PROPERTY RequestsEnd
CHECK_DEADLOCK FALSE
