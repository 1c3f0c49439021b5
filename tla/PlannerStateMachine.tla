-------------------------- MODULE PlannerStateMachine --------------------------
(***************************************************************************)
(* The local A-star / pure pursuit planner that go_path consults at every  *)
(* control tick (src/src/amr_topology/src/local_astar_pure_pursuit.cpp),   *)
(* as operators: what one call of update() or reset() makes of the planner *)
(* and what it says.  What the planner computes from ranges and cells is   *)
(* abstracted to what its state machine tests: is the scan fresh, is       *)
(* something in front, how close are the sides, is the straight line to    *)
(* the target blocked, does the search find a path.  The state machine     *)
(* itself is kept whole.                                                   *)
(***************************************************************************)
EXTENDS Naturals

CONSTANT
  PlanWait   \* stop_and_plan_seconds, in steps of the clock

ASSUME PlanWaitAssumption == PlanWait \in Nat \ {0}

PlannerStates == {"normal", "stop_and_plan", "follow_detour", "blocked"}

Sides == {"left", "right"}

\* age is now - state_started_at_, up to PlanWait; path is ~path_.empty();
\* escape is side_escape_direction_, "none" while side_escape_active_ is false.
Planners == [state  : PlannerStates,
             age    : 0..PlanWait,
             path   : BOOLEAN,
             escape : Sides \cup {"none"}]

\* How close the nearest return of a side is: beyond every threshold, within
\* side_stop_distance + 0.14, within side_stop_distance, within
\* emergency_stop_distance.
Clear == 0
Near == 1
Close == 2
Critical == 3

\* front: front_min <= emergency_stop_distance; link: the direction of the
\* target is not clear.
Scans == [fresh : BOOLEAN,
          front : BOOLEAN,
          left  : Clear..Critical,
          right : Clear..Critical,
          link  : BOOLEAN]

\* What else one update depends on: the result of astar ("cell" is a path of
\* the start cell alone, which make_plan refuses), whether the target is within
\* goal_tolerance, and which side is nearer when both are at the same level.
Circumstances == [plan : {"path", "cell", "none"}, near : BOOLEAN, tie : Sides]

\* Labels of a decision: "none" has no command, "stop_and_plan", "blocked" and
\* "detour_ready" stop the robot, "side_escape" and "follow_detour" move it.
Decisions == {"none", "stop_and_plan", "blocked", "detour_ready",
              "side_escape", "follow_detour"}

Moving == {"side_escape", "follow_detour"}
-----------------------------------------------------------------------------
\* reset().  state_started_at_ keeps its value, which nothing reads in "normal":
\* leaving "normal" always starts a new state.
Reset == [state |-> "normal", age |-> 0, path |-> FALSE, escape |-> "none"]

\* enter_state(): the start time moves only when the state changes.  Mutant: it
\* does not move.
EnterKeepsTime(p, s) == [p EXCEPT !.state = s]

Enter(p, s) ==
  IF p.state = s THEN p ELSE [p EXCEPT !.state = s, !.age = 0]

Waited(p) == p.age >= PlanWait

\* make_plan(): path_ holds whatever astar returned.
MakePlan(p, c) == [p EXCEPT !.path = c.plan # "none"]

Nearest(s) == IF s.left > s.right THEN s.left ELSE s.right

\* The side the robot turns to: away from the nearer of the two.
AwaySide(s, c) ==
  IF s.left > s.right THEN "right"
  ELSE IF s.right > s.left THEN "left" ELSE c.tie

\* side_emergency or side_escape_should_continue.
MustEscape(p, s) ==
  /\ p.state # "follow_detour"
  /\ Nearest(s) >= (IF p.escape = "none" THEN Close ELSE Near)

\* The outcome of one call: the planner after it and what it says.
Outcome(p, d) == [planner |-> p, says |-> d]

\* The branch of update() on the state, after the checks common to all.
\* A plan made in "stop_and_plan" is followed, and spoken of, from the next
\* call on.  Mutant: "blocked" does not look whether the way is free again.
StateOutcomeStaysBlocked(p, s, c) ==
  IF p.state = "blocked" THEN Outcome(p, "blocked")
  ELSE IF p.state = "stop_and_plan" /\ Waited(p)
       THEN Outcome(Enter(MakePlan(p, c),
                          IF c.plan = "path" THEN "follow_detour" ELSE "blocked"),
                    "stop_and_plan")
       ELSE Outcome(p, "none")

StateOutcome(p, s, c) ==
  CASE p.state = "normal" -> Outcome(p, "none")
    [] p.state = "stop_and_plan" ->
         Outcome(IF Waited(p)
                 THEN Enter(MakePlan(p, c),
                            IF c.plan = "path" THEN "follow_detour" ELSE "blocked")
                 ELSE p,
                 "stop_and_plan")
    [] p.state = "follow_detour" ->
         IF c.near THEN Outcome(Reset, "none")
         ELSE IF ~p.path \/ Nearest(s) = Critical
              THEN Outcome(Enter(p, "stop_and_plan"), "stop_and_plan")
              ELSE Outcome(p, "follow_detour")
    [] p.state = "blocked" ->
         IF ~s.link THEN Outcome(Reset, "none")
         ELSE IF Waited(p) /\ c.plan = "path"
              THEN Outcome(Enter(MakePlan(p, c), "follow_detour"), "detour_ready")
              ELSE Outcome(IF Waited(p) THEN MakePlan(p, c) ELSE p, "blocked")

\* update().  Mutant: the side escape comes before the test of the front.
UpdateOutcomeEscapeFirst(p, s, c) ==
  IF ~s.fresh THEN Outcome(Reset, "none")
  ELSE IF MustEscape(p, s)
       THEN Outcome([p EXCEPT !.escape = IF @ = "none" THEN AwaySide(s, c) ELSE @],
                    "side_escape")
  ELSE IF s.front THEN Outcome(Enter(p, "stop_and_plan"), "stop_and_plan")
  ELSE StateOutcome([p EXCEPT !.escape = "none"], s, c)

UpdateOutcome(p, s, c) ==
  IF ~s.fresh THEN Outcome(Reset, "none")
  ELSE IF s.front THEN Outcome(Enter(p, "stop_and_plan"), "stop_and_plan")
  ELSE IF MustEscape(p, s)
       THEN Outcome([p EXCEPT !.escape = IF @ = "none" THEN AwaySide(s, c) ELSE @],
                    "side_escape")
  ELSE LET q == [p EXCEPT !.escape = "none"]
       IN  StateOutcome(IF q.state = "normal" /\ s.link
                        THEN Enter(q, "stop_and_plan") ELSE q, s, c)
=============================================================================
