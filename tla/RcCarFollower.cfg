\* The RC car's node under every mode message.
CONSTANT BProfile = TRUE
SPECIFICATION NodeFairSpec
INVARIANT NoStaleTarget
INVARIANT RepeatedOnce
PROPERTY StopReachesWheels
