SPECIFICATION Spec
CONSTANTS
  Programs = {p1, p2, p3, p4}
  NoProgram = NoProgram
SYMMETRY Places
INVARIANTS TypeOK OneMission OneFollower InactiveMeansStopped
CHECK_DEADLOCK FALSE
