CONSTANTS
  PlanWait = 1
  Nodes = 2
  Skippable = {1}
  StuckLimit = 1
  MinHandoff = 1
  SlowHandoff = 1
  RescueTimeout = 1
  MaxGoals = 2
SPECIFICATION Spec
INVARIANT DirectDriveAlone
CHECK_DEADLOCK FALSE
