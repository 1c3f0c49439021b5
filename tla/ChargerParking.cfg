SPECIFICATION FairSpec
CONSTANTS
  Areas = {"A", "B"}
  NavTimeout = 2
  StuckLimit = 1
  HoldLimit = 1
  MaxEscapes = 1
  EscapeTries = 2
  ForwardSteps = 1
  MaxProcesses = 2
INVARIANTS TypeOK RadiusAccounted
PROPERTIES OneDriver RequestDecided
CHECK_DEADLOCK FALSE
