SPECIFICATION FairSpec
CONSTANTS
  Links = {"waits", "trusts", "rosbridge"}
  Servos <- MCServos
  Base = 1
  MaxAngle = 2
  Poses <- MCPoses
  BootPose <- MCBoot
  Depth = 2
  WireRoom = 2
  MaxPoses = 3
  MaxFaults = 2
INVARIANTS TypeOK OnlyBaseSpoiled
PROPERTIES NeverBack PoseReached
CHECK_DEADLOCK FALSE
