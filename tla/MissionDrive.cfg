\* Safety and liveness of one call of go_path with two rescue goals.
CONSTANTS
  PlanWait = 1
  Nodes = 2
  Skippable = {1}
  StuckLimit = 1
  MinHandoff = 1
  SlowHandoff = 2
  RescueTimeout = 2
  MaxGoals = 2
SPECIFICATION FairSpec
INVARIANTS TypeOK InterruptLeavesNothingRunning
PROPERTIES OneDriver LateMessagesHarmless HandoffStartsAfresh RescueEnds ChargerHonoured
CHECK_DEADLOCK FALSE
