--------------------------- MODULE MCMissionRunner ---------------------------
(* The places of MissionRunner are interchangeable, and no property is about  *)
(* liveness.                                                                  *)
EXTENDS MissionRunner, TLC

Places == Permutations(Programs)
=============================================================================
