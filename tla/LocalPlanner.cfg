\* Safety and liveness of the planner's state machine.
CONSTANT PlanWait = 2
SPECIFICATION LocalFairSpec
PROPERTY HaltBeforeDetour
PROPERTY StopsInFront
PROPERTY ReturnsToTopologyDrive
