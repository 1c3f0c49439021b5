\* Both missions with the RC car.
CONSTANTS
  BProfile = FALSE
  Areas = {"A", "B"}
  StatusDepth = 3
  MaxFailures = 1
SPECIFICATION FairSpec
INVARIANT TypeOK
INVARIANT CarStandsAtHandOver
INVARIANT CarStaysStopped
INVARIANT ManoeuvresOnce
PROPERTY HandshakeCompletes
PROPERTY HandshakeKept
