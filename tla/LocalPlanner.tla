----------------------------- MODULE LocalPlanner -----------------------------
(***************************************************************************)
(* The local planner on its own: laser scans arrive, the control loop      *)
(* calls update() and reset(), time goes by.                               *)
(***************************************************************************)
EXTENDS PlannerStateMachine

VARIABLES
  local,     \* the member variables of LocalAStarPurePursuit
  scan,      \* what the last laser scan, seen now, says
  said,      \* the state label of the last LocalPlannerDecision
  halted     \* history: how long "stop_and_plan" or "blocked" has lasted

localVars == <<local, scan, said, halted>>
-----------------------------------------------------------------------------
NoScan == [fresh |-> FALSE, front |-> FALSE, left |-> Clear, right |-> Clear,
           link |-> FALSE]

LocalInit ==
  /\ local = Reset
  /\ scan = NoScan
  /\ said = "none"
  /\ halted = 0

Halting(p) == p.state \in {"stop_and_plan", "blocked"}

\* The history variable after a step that leaves the planner in p.
HaltedIn(p) == IF Halting(p) THEN halted ELSE 0

\* update_scan(): a new scan arrives, or the robot moved under the old one.
Sense ==
  /\ scan' \in {s \in Scans : s.fresh}
  /\ UNCHANGED <<local, said, halted>>

\* scan_is_fresh() turns false: scan_timeout_seconds went by without a scan.
ScanExpires ==
  /\ scan.fresh
  /\ scan' = [scan EXCEPT !.fresh = FALSE]
  /\ UNCHANGED <<local, said, halted>>

ControlWith(c) ==
  LET o == UpdateOutcome(local, scan, c)
  IN  /\ local' = o.planner
      /\ said' = o.says
      /\ halted' = HaltedIn(o.planner)
      /\ UNCHANGED scan

\* A control tick calls update().
Control == \E c \in Circumstances : ControlWith(c)

\* The caller abandons the detour (waypoint passed, rescue over, interrupt).
CallerResets ==
  /\ local' = Reset
  /\ halted' = 0
  /\ UNCHANGED <<scan, said>>

\* Time goes by in the present state.
LocalClock ==
  /\ local.state # "normal"
  /\ local.age < PlanWait
  /\ local' = [local EXCEPT !.age = @ + 1]
  /\ halted' = IF Halting(local) /\ halted < PlanWait THEN halted + 1 ELSE halted
  /\ UNCHANGED <<scan, said>>

LocalNext == Sense \/ ScanExpires \/ Control \/ CallerResets \/ LocalClock

LocalSpec == LocalInit /\ [][LocalNext]_localVars

\* A tick at which the robot, following its detour, is within goal_tolerance.
Arrive == \E c \in Circumstances : c.near /\ ControlWith(c)

\* The control loop runs at 20 Hz and time passes; a robot that follows its
\* detour is within goal_tolerance of its target again and again.
LocalFairSpec ==
  LocalSpec /\ WF_localVars(Control) /\ WF_localVars(LocalClock) /\ WF_localVars(Arrive)
-----------------------------------------------------------------------------
LocalTypeOK ==
  /\ local \in Planners
  /\ scan \in Scans
  /\ said \in Decisions
  /\ halted \in 0..PlanWait

\* A detour is followed only along a path that a search returned: the planner
\* is never in "follow_detour" with the path that a failed search, or a reset,
\* left empty, whatever emergencies and resets came between planning and
\* following (the test path_.empty() of update() never has to save it).
DetourHasPath == local.state = "follow_detour" => local.path

\* A detour starts only after the robot has been kept from its drive for
\* stop_and_plan_seconds without a break: no emergency, reset or change between
\* "stop_and_plan" and "blocked" lets an older halt count for a new one.
HaltBeforeDetour ==
  [][ local.state # "follow_detour" /\ local'.state = "follow_detour"
      => halted = PlanWait ]_localVars

\* A control tick never answers an obstacle in front, within the emergency
\* distance, with a motion: not in the middle of a side escape or of a detour.
StopsInFront ==
  [][ Control /\ scan.fresh /\ scan.front => said' \notin Moving ]_localVars

AllClear == /\ scan.fresh /\ ~scan.front /\ ~scan.link
            /\ scan.left = Clear /\ scan.right = Clear

\* Once the surroundings stay clear the planner gives the drive back: from
\* every state it ends in "normal" and stays there.
ReturnsToTopologyDrive == <>[]AllClear => <>[](local.state = "normal")
=============================================================================
