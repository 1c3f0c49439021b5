--------------------------- MODULE MotionAuthority ---------------------------
(***************************************************************************)
(* What the missions promise whenever they let Nav2 move the robot: the    *)
(* drive is with the mission, with one goal of Nav2, or with nobody, and   *)
(* it passes from one to the other through "nobody", or by the mission     *)
(* taking it back.  MissionDrive (the MPPI rescue) and ChargerParking (the *)
(* way to the charger) implement it.                                       *)
(***************************************************************************)
CONSTANT Goals      \* the goals that may be sent to Nav2

VARIABLES
  granted,          \* goals that may move the robot with the mission's consent
  mission           \* the mission moves the robot itself

vars == <<granted, mission>>

Init ==
  /\ granted = {}
  /\ mission \in BOOLEAN

\* The mission stops driving, and will give the drive away.
StepAside ==
  /\ mission
  /\ mission' = FALSE
  /\ UNCHANGED granted

\* Nobody drives: a goal gets the drive.
Grant(g) ==
  /\ granted = {}
  /\ ~mission
  /\ granted' = {g}
  /\ UNCHANGED mission

\* The goal is over, or is told to stop.
Withdraw ==
  /\ granted' = {}
  /\ UNCHANGED mission

\* As Withdraw, and the mission drives from now on.
TakeBack ==
  /\ ~mission
  /\ granted' = {}
  /\ mission' = TRUE

Next ==
  \/ StepAside
  \/ \E g \in Goals : Grant(g)
  \/ Withdraw
  \/ TakeBack

Spec == Init /\ [][Next]_vars
-----------------------------------------------------------------------------
\* The two never drive at once, and Nav2 never has two goals to follow.
Exclusive ==
  /\ granted = {} \/ \E g \in Goals : granted = {g}
  /\ mission => granted = {}
=============================================================================
